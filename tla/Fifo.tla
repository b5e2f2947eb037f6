-------------------------------- MODULE Fifo --------------------------------
(***************************************************************************)
(* What first-in-first-out matching pairs, said without the loop that      *)
(* computes it.  A book is a function from the time ranks of the resting   *)
(* orders to their unmatched amounts.  Module FifoMatching is the loop and *)
(* is checked to compute exactly this.                                     *)
(***************************************************************************)
EXTENDS Totals

\* Mutant: an order does not wait for those ahead of it, but for those behind.
LifoAhead(book, r) == Total([p \in {x \in DOMAIN book : x > r} |-> book[p]])

\* Mutant: the loop's remainder is decremented before it is used.
LateAhead(book, r) == Total([p \in {x \in DOMAIN book : x =< r} |-> book[p]])

\* What the resting orders ahead of r can take.
Ahead(book, r) == Total([p \in {x \in DOMAIN book : x < r} |-> book[p]])

\* Mutant: a pairing takes all that is left of the incoming order.
GreedyPlan(q, book) == [r \in DOMAIN book |-> Beyond(q, Ahead(book, r))]

\* The amount of an incoming order of q paired with each resting order.
FifoPlan(q, book) ==
    [r \in DOMAIN book |-> Smaller(book[r], Beyond(q, Ahead(book, r)))]

\* The amount of the incoming order that is paired in all.
FifoFilled(q, book) == Smaller(q, Total(book))
=============================================================================
