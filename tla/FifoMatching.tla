---------------------------- MODULE FifoMatching ----------------------------
(***************************************************************************)
(* The loop that plans the allocations of an incoming order, one iteration *)
(* per step, checked against the plan that module Fifo defines without a   *)
(* loop.  The book is given as the code gets it: a sequence in time order. *)
(* Its orders have the odds of the market's profile, and the loop gives up *)
(* on a pair whose stakes cannot pay for them.                             *)
(***************************************************************************)
EXTENDS Integers, Sequences, FiniteSets, Fifo, Economics

CONSTANTS
    MaxAmount,  \* bound: the largest amount of an order
    MaxResting, \* bound: the resting orders in the book
    Profiles    \* the profiles that administrators ask for

ASSUME FifoMatchingAssumption == MaxAmount \in Nat /\ MaxResting \in Nat

VARIABLES
    incoming,           \* the unmatched amount the plan is asked for
    restingOrders,      \* the unmatched amounts of the book, oldest first
    profile,            \* the market's economic profile
    next,               \* the resting order the loop is at
    incomingRemaining,  \* what is left of the incoming order
    allocations,        \* the pairings planned so far
    restingRemaining,   \* what is left of the resting orders passed
    refused             \* whether the loop has thrown

input == <<incoming, restingOrders, profile>>
vars == <<input, next, incomingRemaining, allocations, restingRemaining, refused>>

Books == UNION {[1 .. n -> 0 .. MaxAmount] : n \in 0 .. MaxResting}

Init ==
    /\ incoming \in 0 .. MaxAmount
    /\ restingOrders \in Books
    /\ profile \in {p \in Profiles : Accepted(p)}
    /\ next = 1
    /\ incomingRemaining = incoming
    /\ allocations = <<>>
    /\ restingRemaining = <<>>
    /\ refused = FALSE

amount == Smaller(incomingRemaining, restingOrders[next])

\* Mutant: a pairing that takes nothing is planned as well.
AnyPairing == TRUE

Pairing == amount > 0

\* The incoming order is exhausted: the resting order is passed over.
Skip ==
    /\ ~refused
    /\ next =< Len(restingOrders)
    /\ incomingRemaining = 0
    /\ restingRemaining' = Append(restingRemaining, restingOrders[next])
    /\ next' = next + 1
    /\ UNCHANGED <<input, incomingRemaining, allocations, refused>>

\* The resting order is paired for the smaller of the two amounts, unless the
\* pair is refused: nothing reads what the loop has planned until then.
Pair ==
    /\ ~refused
    /\ next =< Len(restingOrders)
    /\ incomingRemaining # 0
    /\ allocations' = IF Pairing
                      THEN Append(allocations, [order |-> next, amount |-> amount])
                      ELSE allocations
    /\ incomingRemaining' = IF Pairing THEN incomingRemaining - amount
                            ELSE incomingRemaining
    /\ restingRemaining' = Append(restingRemaining, restingOrders[next] - amount)
    /\ next' = next + 1
    /\ refused' = (Pairing /\ ~SelfFunding(amount, profile, amount, profile))
    /\ UNCHANGED input

Next == Skip \/ Pair

Spec == Init /\ [][Next]_vars
-----------------------------------------------------------------------------
(* Properties *)

Done == ~refused /\ next > Len(restingOrders)

Planned(r) ==
    Total([i \in {j \in DOMAIN allocations : allocations[j].order = r}
                |-> allocations[i].amount])

\* The loop computes first-in-first-out matching: every pairing, remainder of a
\* resting order and remainder of the incoming order is the one module Fifo
\* defines, and no empty pairing is planned.
LoopIsFifo ==
    Done =>
        LET plan == FifoPlan(incoming, restingOrders)
        IN  /\ \A r \in DOMAIN restingOrders :
                  /\ Planned(r) = plan[r]
                  /\ restingRemaining[r] = restingOrders[r] - plan[r]
            /\ incomingRemaining = incoming - FifoFilled(incoming, restingOrders)
            /\ \A i \in DOMAIN allocations : allocations[i].amount > 0

\* The profiles that can be created are those whose pairs can pay: matching
\* never fails on the self-funding check, on any market, for any amounts.
NeverRefused == ~refused

\* What the pairings planned so far return to the incoming order if it wins.
Earned ==
    Total([i \in DOMAIN allocations |->
               ReturnOf(allocations[i].amount, profile.commission)])

\* A win returns at least what the odds promise on what was matched, however
\* many opponents it was matched with, and each of them adds less than a unit
\* to it if the fees are all that the odds leave of the pool.
ReturnsThePromise ==
    LET promise == Exposure(incoming - incomingRemaining, profile)
        exact == profile.num * 10000 = profile.den * (20000 - profile.commission)
    IN  /\ promise =< Earned
        /\ exact => Earned =< promise + Len(allocations)
=============================================================================
