------------------------------ MODULE StakeLimits ------------------------------
(***************************************************************************)
(* One player's daily stake limit.  The player changes it through requests *)
(* that read the limit's row, compute the next one and write it back, with *)
(* no lock; a raise waits for a cooling-off time of a day.  Placements     *)
(* check the day's stakes against the limit with the wallet locked.        *)
(*                                                                         *)
(* The clock counts days, the length of the cooling-off and of the period  *)
(* that the limit is for.  The limit on a single bet has a row of the same *)
(* kind and is checked at the same place; Stakes are those it admits.      *)
(***************************************************************************)
EXTENDS Integers

CONSTANTS
    Values,     \* the limits that the player sets
    Default,    \* the limit of the account whose player has set none
    Stakes,     \* the stakes that the player asks to place
    Funds,      \* what the wallet has at first; nothing comes back to it
    Requests,   \* requests of the player that can be in flight
    MaxDay      \* bound: the days that are modelled

Nobody == "nobody"

ASSUME StakeLimitsAssumption ==
    /\ Values \subseteq Nat
    /\ Default \in Nat
    /\ Stakes \subseteq Nat \ {0}
    /\ Funds \in Nat
    /\ MaxDay \in Nat
    /\ Nobody \notin Requests

VARIABLES
    limit,      \* the player's STAKE/DAY row of rg_limits
    asked,      \* the value of the last change that was committed
    available,  \* the wallet's available_minor
    staked,     \* the RESERVE entries of each day
    lock,       \* the request that has the wallet's row locked
    request,    \* what each request in flight has read
    day         \* the server's clock

vars == <<limit, asked, available, staked, lock, request, day>>
-----------------------------------------------------------------------------
(* Rows and requests *)

Days == 0 .. MaxDay

\* No row, and no change that waits for its time.
Unset == [current |-> Default, pending |-> -1, effectiveAt |-> 0, stored |-> FALSE]

LimitState == [current : Values \cup {Default}, pending : Values \cup {-1},
               effectiveAt : 0 .. MaxDay + 1, stored : BOOLEAN]

Operation == {"idle", "update", "check", "reserve"}

Request == [op : Operation, row : LimitState, value : Values \cup Stakes \cup {0}, at : Days]

Idle == [op |-> "idle", row |-> Unset, value |-> 0, at |-> 0]

Init ==
    /\ limit = Unset
    /\ asked = Default
    /\ available = Funds
    /\ staked = [d \in Days |-> 0]
    /\ lock = Nobody
    /\ request = [q \in Requests |-> Idle]
    /\ day = 0

End(q) == request' = [request EXCEPT ![q] = Idle]
-----------------------------------------------------------------------------
(* The limit *)

Pending(r, now) == r.pending # -1 /\ now < r.effectiveAt

\* The value in force: the smaller one while a change waits for its time.
Effective(r, now) ==
    IF r.pending # -1 /\ (~ Pending(r, now) \/ r.pending < r.current)
    THEN r.pending
    ELSE r.current

Lowered(v) == [current |-> v, pending |-> -1, effectiveAt |-> 0, stored |-> TRUE]

Raised(r, v, now) == [current |-> Effective(r, now), pending |-> v,
                      effectiveAt |-> now + 1, stored |-> TRUE]

\* Mutant: a lowered limit keeps the raise that waits.
KeptPending(r, v, now) ==
    IF v <= Effective(r, now) THEN [r EXCEPT !.current = v, !.stored = TRUE]
    ELSE Raised(r, v, now)

\* Mutant: every change takes effect at once.
AtOnce(r, v, now) == Lowered(v)

\* The row after a change to v that is asked for now.
Changed(r, v, now) ==
    IF v <= Effective(r, now) THEN Lowered(v) ELSE Raised(r, v, now)

UpdateRead(q, v) ==
    /\ request[q] = Idle
    /\ request' = [request EXCEPT ![q] =
                      [op |-> "update", row |-> limit, value |-> v, at |-> day]]
    /\ UNCHANGED <<limit, asked, available, staked, lock, day>>

\* The row is written whatever it has become since.
UpdateCommit(q) ==
    /\ request[q].op = "update"
    /\ limit' = Changed(request[q].row, request[q].value, request[q].at)
    /\ asked' = request[q].value
    /\ End(q)
    /\ UNCHANGED <<available, staked, lock, day>>
-----------------------------------------------------------------------------
(* Placements *)

\* Mutant: the wallet is read and not locked.
NoLock == TRUE

WalletFree == lock = Nobody

PlaceLock(q, a) ==
    /\ request[q] = Idle
    /\ WalletFree
    /\ lock' = q
    /\ request' = [request EXCEPT ![q] = [Idle EXCEPT !.op = "check", !.value = a]]
    /\ UNCHANGED <<limit, asked, available, staked, day>>

\* Only a limit that has a row is enforced: one that is listed by default is not.
Within(a) == limit.stored => staked[day] + a <= Effective(limit, day)

\* The limit is read and the day's stakes are summed, the wallet being locked.
Check(q) ==
    /\ request[q].op = "check"
    /\ IF request[q].value <= available /\ Within(request[q].value)
       THEN /\ request' = [request EXCEPT ![q].op = "reserve", ![q].row = limit, ![q].at = day]
            /\ UNCHANGED lock
       ELSE End(q) /\ lock' = Nobody
    /\ UNCHANGED <<limit, asked, available, staked, day>>

\* The reservation is dated when it is posted.
Reserve(q) ==
    /\ request[q].op = "reserve"
    /\ available' = available - request[q].value
    /\ staked' = [staked EXCEPT ![day] = @ + request[q].value]
    /\ lock' = Nobody
    /\ End(q)
    /\ UNCHANGED <<limit, asked, day>>

\* A request fails: its transaction is rolled back.
Fail(q) ==
    /\ request[q] # Idle
    /\ lock' = IF lock = q THEN Nobody ELSE lock
    /\ End(q)
    /\ UNCHANGED <<limit, asked, available, staked, day>>

Tomorrow ==
    /\ day < MaxDay
    /\ day' = day + 1
    /\ UNCHANGED <<limit, asked, available, staked, lock, request>>

Next ==
    \/ \E q \in Requests, v \in Values : UpdateRead(q, v)
    \/ \E q \in Requests, a \in Stakes : PlaceLock(q, a)
    \/ \E q \in Requests : UpdateCommit(q) \/ Check(q) \/ Reserve(q) \/ Fail(q)
    \/ Tomorrow

Spec == Init /\ [][Next]_vars
-----------------------------------------------------------------------------
(* Properties *)

TypeOK ==
    /\ limit \in LimitState
    /\ asked \in Values \cup {Default}
    /\ available \in Nat
    /\ staked \in [Days -> Nat]
    /\ lock \in Requests \cup {Nobody}
    /\ request \in [Requests -> Request]
    /\ day \in Days

\* A stake that has passed the check still fits the limit it was checked
\* against when it is reserved, whatever else the player stakes meanwhile and
\* on whichever day it comes to be posted (assertWithinStakeLimits, T-809).
StakeStillFits ==
    \A q \in Requests : request[q].op = "reserve" /\ request[q].row.stored =>
        staked[day] + request[q].value <= Effective(request[q].row, request[q].at)

\* What is in force never exceeds what the player asked for last, however the
\* changes interleave: a raise that waits does not outlive a later lowering.
LastWordCounts == limit.stored => Effective(limit, day) <= asked

\* A limit in force rises only a day or more after the raise was asked for.  A
\* write that loses what others have written since its request read the row, a
\* lowering perhaps, puts back no more than was in force then (RULE-K07).
RaiseWaits ==
    [][limit.stored /\ Effective(limit', day') > Effective(limit, day) =>
           \/ limit' = limit /\ day' = limit.effectiveAt
           \/ \E q \in Requests :
                 /\ UpdateCommit(q)
                 /\ \/ request[q].at < day
                    \/ Effective(limit', day') <= Effective(request[q].row, request[q].at)]_vars
=============================================================================
