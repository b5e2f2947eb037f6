----------------------------- MODULE LoopProofs -----------------------------
(***************************************************************************)
(* Theorems on the matching loop, for books of any length and amounts and   *)
(* profiles of any size: it plans first-in-first-out matching, it never     *)
(* fails on a profile that could be created, and a win returns what its     *)
(* odds promise.                                                            *)
(***************************************************************************)
EXTENDS FifoMatching, TotalsProofs, SequenceTheorems, TLAPS

-----------------------------------------------------------------------------
(* The arithmetic of a profile *)

LEMMA TimesMonotone ==
    ASSUME NEW a \in Nat, NEW b \in Nat, NEW c \in Nat, a =< b
    PROVE  a * c \in Nat /\ b * c \in Nat /\ a * c =< b * c
  OBVIOUS

\* Division rounds down.
LEMMA RoundsDown ==
    ASSUME NEW m \in Nat, NEW num \in Nat, NEW den \in Nat \ {0}
    PROVE  /\ ScaleByRatio(m, num, den) \in Nat
           /\ den * ScaleByRatio(m, num, den) =< m * num
           /\ m * num < den * ScaleByRatio(m, num, den) + den
<1>1. m * num \in Nat
  OBVIOUS
<1>2. ASSUME NEW x \in Nat PROVE /\ x \div den \in Nat
                                 /\ den * (x \div den) =< x
                                 /\ x < den * (x \div den) + den
  OBVIOUS
<1> QED
  BY <1>1, <1>2 DEF ScaleByRatio

LEMMA AcceptedFields ==
    ASSUME NEW p, Accepted(p)
    PROVE  p.num \in Nat /\ p.den \in Nat /\ p.commission \in Nat /\ p.fee \in Nat
<1>1. p \in Profile
  BY DEF Accepted
<1>2. QED
  BY <1>1 DEF Profile

\* The odds w/d and the commission c of a profile take no more than two stakes.
Funds(w, d, c) == w * 10000 + d * c =< d * 20000

Exactly(w, d, c) == w * 10000 + d * c = d * 20000

LEMMA FeesTaken ==
    ASSUME NEW w \in Nat, NEW d \in Nat, NEW c \in Nat, NEW f \in Nat
    PROVE  w * 10000 =< d * (20000 - c - f) => Funds(w, d, c)
<1>1. d * (20000 - c - f) = d * 20000 - d * c - d * f
  OBVIOUS
<1>2. d * f \in Nat /\ d * c \in Nat
  OBVIOUS
<1>3. QED
  BY <1>1, <1>2 DEF Funds

LEMMA CommissionTaken ==
    ASSUME NEW w \in Nat, NEW d \in Nat, NEW c \in Nat
    PROVE  w * 10000 = d * (20000 - c) => Exactly(w, d, c)
<1>1. d * (20000 - c) = d * 20000 - d * c
  OBVIOUS
<1>2. d * c \in Nat
  OBVIOUS
<1>3. QED
  BY <1>1, <1>2 DEF Exactly

LEMMA AcceptedType ==
    ASSUME NEW p, Accepted(p)
    PROVE  \E w \in Nat, d \in Nat \ {0}, c \in Nat :
              /\ w = p.num /\ d = p.den /\ c = p.commission /\ c =< 10000
              /\ Funds(w, d, c)
<1>1. PICK w, d, c, f : w = p.num /\ d = p.den /\ c = p.commission /\ f = p.fee
  OBVIOUS
<1>2. d > 0 /\ c =< 10000
  <2>1. d > 0
    BY <1>1 DEF Accepted
  <2>2. c =< 10000
    BY <1>1 DEF Accepted
  <2>3. QED
    BY <2>1, <2>2
<1>3. w * 10000 =< d * (20000 - c - f)
  BY <1>1 DEF Accepted
<1>4. w \in Nat /\ d \in Nat /\ c \in Nat /\ f \in Nat
  BY <1>1, AcceptedFields
<1>5. Funds(w, d, c)
  BY <1>3, <1>4, FeesTaken
<1>6. d \in Nat \ {0}
  BY <1>2, <1>4
<1>7. QED
  BY <1>1, <1>2, <1>4, <1>5, <1>6

LEMMA PromiseNumbers ==
    ASSUME NEW m \in Nat, NEW w \in Nat, NEW d \in Nat \ {0}, NEW c \in Nat,
           NEW e \in Nat
    PROVE  Funds(w, d, c) /\ d * e =< m * w => e =< 2 * m
<1>1. ASSUME Funds(w, d, c) PROVE w =< 2 * d
  <2>1. d * c \in Nat
    OBVIOUS
  <2>2. QED
    BY <1>1, <2>1 DEF Funds
<1>2. ASSUME w =< 2 * d PROVE m * w =< d * (2 * m)
  <2>1. m * w =< m * (2 * d)
    BY <1>2
  <2>2. m * (2 * d) = d * (2 * m)
    OBVIOUS
  <2>3. QED
    BY <2>1, <2>2
<1>3. ASSUME e > 2 * m PROVE ~(d * e =< d * (2 * m))
  <2>1. d * e >= d * (2 * m + 1)
    BY <1>3
  <2>2. d * (2 * m + 1) = d * (2 * m) + d
    OBVIOUS
  <2>3. d * e \in Nat /\ d * (2 * m) \in Nat
    OBVIOUS
  <2>4. QED
    BY <2>1, <2>2, <2>3
<1>4. d * e \in Nat /\ m * w \in Nat /\ d * (2 * m) \in Nat
  OBVIOUS
<1>5. QED
  BY <1>1, <1>2, <1>3, <1>4

\* The odds of an accepted profile promise no more than two stakes.
LEMMA PromiseFunded ==
    ASSUME NEW p, Accepted(p), NEW m \in Nat
    PROVE  Exposure(m, p) \in Nat /\ Exposure(m, p) =< 2 * m
<1>1. PICK w \in Nat, d \in Nat \ {0}, c \in Nat :
         w = p.num /\ d = p.den /\ Funds(w, d, c)
  BY AcceptedType
<1>2. PICK e : e = Exposure(m, p)
  OBVIOUS
<1>3. e = ScaleByRatio(m, w, d)
  BY <1>1, <1>2 DEF Exposure
<1>4. e \in Nat /\ d * e =< m * w
  BY <1>3, RoundsDown
<1>5. QED
  BY <1>1, <1>2, <1>4, PromiseNumbers

\* A pair of equal stakes on orders of one accepted profile is never refused.
LEMMA PairFunded ==
    ASSUME NEW p, Accepted(p), NEW m \in Nat
    PROVE  SelfFunding(m, p, m, p)
<1>1. Exposure(m, p) =< 2 * m
  BY PromiseFunded
<1>2. m + m = 2 * m
  OBVIOUS
<1>3. QED
  BY <1>1, <1>2 DEF SelfFunding

\* Of a commission c on a stake m, k is taken; the products are of d and of w.
LEMMA ReturnSum ==
    ASSUME NEW k \in Nat, NEW m \in Nat, NEW d \in Nat, NEW mc \in Nat, NEW dm \in Nat,
           NEW dk \in Nat, NEW mw \in Nat, NEW dmc \in Nat,
           mc =< m * 10000, 10000 * k =< mc,
           10000 * dk =< dmc, dmc =< 10000 * dk + 10000 * d,
           10000 * mw + dmc =< 20000 * dm
    PROVE  /\ k =< m
           /\ mw =< 2 * dm - dk
           /\ 10000 * mw + dmc = 20000 * dm => 2 * dm - dk =< mw + d
  OBVIOUS

LEMMA ReturnNumbers ==
    ASSUME NEW m \in Nat, NEW w \in Nat, NEW d \in Nat, NEW c \in Nat, NEW k \in Nat
    PROVE  /\ m * c \in Nat /\ d * m \in Nat /\ d * k \in Nat /\ m * w \in Nat
           /\ d * (m * c) \in Nat
           /\ d * (2 * m - k) = 2 * (d * m) - d * k
           /\ c =< 10000 => m * c =< m * 10000
           /\ 10000 * k =< m * c => 10000 * (d * k) =< d * (m * c)
           /\ m * c =< 10000 * k + 10000 => d * (m * c) =< 10000 * (d * k) + 10000 * d
           /\ Funds(w, d, c) => 10000 * (m * w) + d * (m * c) =< 20000 * (d * m)
           /\ Exactly(w, d, c) => 10000 * (m * w) + d * (m * c) = 20000 * (d * m)
<1>1. m * c \in Nat /\ d * m \in Nat /\ d * k \in Nat /\ m * w \in Nat
  OBVIOUS
<1>2. d * (m * c) \in Nat
  BY <1>1
<1>3. d * (2 * m - k) = 2 * (d * m) - d * k
  OBVIOUS
<1>4. c =< 10000 => m * c =< m * 10000
  OBVIOUS
<1>5. ASSUME NEW x \in Nat
      PROVE  /\ 10000 * k =< x => 10000 * (d * k) =< d * x
             /\ x =< 10000 * k + 10000 => d * x =< 10000 * (d * k) + 10000 * d
  <2>1. d * (10000 * k) = 10000 * (d * k)
    OBVIOUS
  <2>2. d * (10000 * k + 10000) = 10000 * (d * k) + 10000 * d
    OBVIOUS
  <2>3. 10000 * k =< x => d * (10000 * k) =< d * x
    OBVIOUS
  <2>4. x =< 10000 * k + 10000 => d * x =< d * (10000 * k + 10000)
    OBVIOUS
  <2>5. QED
    BY <2>1, <2>2, <2>3, <2>4
<1>6. m * (w * 10000 + d * c) = 10000 * (m * w) + d * (m * c)
  OBVIOUS
<1>7. m * (d * 20000) = 20000 * (d * m)
  OBVIOUS
<1>8. w * 10000 + d * c \in Nat /\ d * 20000 \in Nat
  OBVIOUS
<1>9. ASSUME NEW x \in Nat, NEW y \in Nat, x =< y PROVE m * x =< m * y
  BY <1>9
<1>10. Funds(w, d, c) => 10000 * (m * w) + d * (m * c) =< 20000 * (d * m)
  <2>1. Funds(w, d, c) => m * (w * 10000 + d * c) =< m * (d * 20000)
    BY <1>8, <1>9 DEF Funds
  <2>2. QED
    BY <1>6, <1>7, <2>1
<1>11. Exactly(w, d, c) => 10000 * (m * w) + d * (m * c) = 20000 * (d * m)
  BY <1>6, <1>7 DEF Exactly
<1> QED
  BY <1>1, <1>2, <1>3, <1>4, <1>5, <1>10, <1>11

\* The profile whose odds leave of the pool just what the commission takes.
Exact(p) == p.num * 10000 = p.den * (20000 - p.commission)

\* What a win pays, over the denominator of the odds: no less than the odds
\* times the stake, and at most a unit more if the profile is exact.
LEMMA ReturnBounds ==
    ASSUME NEW p, Accepted(p), NEW m \in Nat
    PROVE  /\ ReturnOf(m, p.commission) \in Nat
           /\ m * p.num =< p.den * ReturnOf(m, p.commission)
           /\ Exact(p) => p.den * ReturnOf(m, p.commission) =< m * p.num + p.den
<1>1. PICK w \in Nat, d \in Nat \ {0}, c \in Nat :
         w = p.num /\ d = p.den /\ c = p.commission /\ c =< 10000 /\ Funds(w, d, c)
  BY AcceptedType
<1>2. PICK k : k = MulBps(m, c)
  OBVIOUS
<1>3. k = ScaleByRatio(m, c, 10000) /\ ReturnOf(m, c) = 2 * m - k
  BY <1>2 DEF MulBps, ReturnOf
<1>5. k \in Nat /\ 10000 * k =< m * c /\ m * c =< 10000 * k + 10000
  <2>1. k \in Nat /\ 10000 * k =< m * c /\ m * c < 10000 * k + 10000
    BY <1>3, RoundsDown, 10000 \in Nat \ {0}
  <2>2. m * c \in Nat
    OBVIOUS
  <2>3. QED
    BY <2>1, <2>2
<1>6. PICK mc, dm, dk, mw, dmc :
        mc = m * c /\ dm = d * m /\ dk = d * k /\ mw = m * w /\ dmc = d * (m * c)
  OBVIOUS
<1>7. /\ mc \in Nat /\ dm \in Nat /\ dk \in Nat /\ mw \in Nat /\ dmc \in Nat
      /\ d * (2 * m - k) = 2 * dm - dk
      /\ mc =< m * 10000
      /\ 10000 * dk =< dmc /\ dmc =< 10000 * dk + 10000 * d
      /\ 10000 * mw + dmc =< 20000 * dm
      /\ Exactly(w, d, c) => 10000 * mw + dmc = 20000 * dm
  <2>1. /\ m * c \in Nat /\ d * m \in Nat /\ d * k \in Nat /\ m * w \in Nat
        /\ d * (m * c) \in Nat
        /\ d * (2 * m - k) = 2 * (d * m) - d * k
    BY <1>5, ReturnNumbers
  <2>2. /\ m * c =< m * 10000
        /\ 10000 * (d * k) =< d * (m * c)
        /\ d * (m * c) =< 10000 * (d * k) + 10000 * d
    BY <1>1, <1>5, ReturnNumbers
  <2>0. c \in Nat /\ d \in Nat /\ w \in Nat /\ k \in Nat /\ Funds(w, d, c)
    BY <1>1, <1>5
  <2>3. /\ Funds(w, d, c) => 10000 * (m * w) + d * (m * c) =< 20000 * (d * m)
        /\ Exactly(w, d, c) => 10000 * (m * w) + d * (m * c) = 20000 * (d * m)
    BY <2>0, ReturnNumbers
  <2>4. QED
    BY <1>6, <2>0, <2>1, <2>2, <2>3
<1>8. /\ k =< m
      /\ mw =< 2 * dm - dk
      /\ 10000 * mw + dmc = 20000 * dm => 2 * dm - dk =< mw + d
  <2>1. 10000 * k =< mc
    BY <1>5, <1>6
  <2>2. QED
    BY <1>5, <1>7, <2>1, ReturnSum
<1>9. Exact(p) => Exactly(w, d, c)
  <2>1. Exact(p) => w * 10000 = d * (20000 - c)
    BY <1>1 DEF Exact
  <2>2. QED
    BY <2>1, CommissionTaken
<1> QED
  BY <1>1, <1>3, <1>5, <1>6, <1>7, <1>8, <1>9

-----------------------------------------------------------------------------
(* The loop's state *)

LoopType ==
    /\ incoming \in Nat /\ incomingRemaining \in 0 .. incoming
    /\ restingOrders \in Seq(Nat)
    /\ Accepted(profile)
    /\ next \in 1 .. Len(restingOrders) + 1
    /\ allocations \in Seq([order : 1 .. Len(restingOrders), amount : Nat \ {0}])
    /\ restingRemaining \in Seq(Nat) /\ Len(restingRemaining) = next - 1
    /\ refused = FALSE

LEMMA BooksAreSequences ==
    ASSUME NEW book \in Books
    PROVE  book \in Seq(Nat)
<1>1. PICK n \in 0 .. MaxResting : book \in [1 .. n -> 0 .. MaxAmount]
  BY DEF Books
<1>2. n \in Nat /\ 0 .. MaxAmount \subseteq Nat
  BY FifoMatchingAssumption
<1>3. book \in [1 .. n -> Nat]
  BY <1>1, <1>2
<1>4. QED
  BY <1>2, <1>3, SeqDef

LEMMA LoopTypeInit == Init => LoopType
<1> SUFFICES ASSUME Init PROVE LoopType
  OBVIOUS
<1>1. restingOrders \in Seq(Nat)
  BY BooksAreSequences DEF Init
<1>2. incoming \in Nat
  BY FifoMatchingAssumption DEF Init
<1>3. Accepted(profile)
  BY DEF Init
<1>4. Len(restingOrders) \in Nat
  BY <1>1
<1>5. QED
  BY <1>1, <1>2, <1>3, <1>4 DEF Init, LoopType

\* The amount a step pairs, and what it leaves.
LEMMA StepAmount ==
    ASSUME LoopType, next =< Len(restingOrders)
    PROVE  /\ restingOrders[next] \in Nat /\ amount \in Nat
           /\ amount =< incomingRemaining /\ amount =< restingOrders[next]
           /\ next \in 1 .. Len(restingOrders) /\ Len(restingOrders) \in Nat
<1>1. next \in 1 .. Len(restingOrders) /\ Len(restingOrders) \in Nat
  BY DEF LoopType
<1>2. restingOrders[next] \in Nat /\ incomingRemaining \in Nat
  BY <1>1 DEF LoopType
<1>3. QED
  BY <1>1, <1>2 DEF amount, Smaller

LEMMA LoopTypeStep == LoopType /\ [Next]_vars => LoopType'
<1> SUFFICES ASSUME LoopType, [Next]_vars PROVE LoopType'
  OBVIOUS
<1>1. CASE Skip
  <2>1. restingOrders[next] \in Nat /\ next \in 1 .. Len(restingOrders)
    BY <1>1, StepAmount DEF Skip
  <2>2. restingRemaining' \in Seq(Nat) /\ Len(restingRemaining') = next
    BY <1>1, <2>1 DEF Skip, LoopType
  <2>3. next' \in 1 .. Len(restingOrders) + 1
    BY <1>1, <2>1 DEF Skip, LoopType
  <2>4. QED
    BY <1>1, <2>2, <2>3 DEF Skip, LoopType, input
<1>2. CASE Pair
  <2>1. /\ restingOrders[next] \in Nat /\ next \in 1 .. Len(restingOrders)
        /\ amount \in Nat /\ amount =< incomingRemaining /\ amount =< restingOrders[next]
    BY <1>2, StepAmount DEF Pair
  <2>2. restingRemaining' \in Seq(Nat) /\ Len(restingRemaining') = next
    <3>1. restingOrders[next] - amount \in Nat
      BY <2>1
    <3>2. QED
      BY <1>2, <2>1, <3>1 DEF Pair, LoopType
  <2>3. next' \in 1 .. Len(restingOrders) + 1
    BY <1>2, <2>1 DEF Pair, LoopType
  <2>4. refused' = FALSE
    <3>1. SelfFunding(amount, profile, amount, profile)
      BY <2>1, PairFunded DEF LoopType
    <3>2. QED
      BY <1>2, <3>1 DEF Pair
  <2>5. incomingRemaining' \in 0 .. incoming
    BY <1>2, <2>1 DEF Pair, LoopType
  <2>6. allocations' \in Seq([order : 1 .. Len(restingOrders), amount : Nat \ {0}])
    <3>1. CASE Pairing
      <4>1. [order |-> next, amount |-> amount]
              \in [order : 1 .. Len(restingOrders), amount : Nat \ {0}]
        BY <2>1, <3>1 DEF Pairing
      <4>2. QED
        BY <1>2, <3>1, <4>1 DEF Pair, LoopType
    <3>2. CASE ~Pairing
      BY <1>2, <3>2 DEF Pair, LoopType
    <3>3. QED
      BY <3>1, <3>2
  <2>7. QED
    BY <1>2, <2>2, <2>3, <2>4, <2>5, <2>6 DEF Pair, LoopType, input
<1>3. CASE UNCHANGED vars
  BY <1>3 DEF LoopType, vars, input
<1> QED
  BY <1>1, <1>2, <1>3 DEF Next

LEMMA LoopTypeCorrect == Spec => []LoopType
<1> QED
  BY LoopTypeInit, LoopTypeStep, PTL DEF Spec

\* On the orders of a profile that can be created, the self-funding check of
\* the matching plan passes for every pair, whatever the amounts.
THEOREM NeverRefusedHolds == Spec => []NeverRefused
<1>1. LoopType => NeverRefused
  BY DEF LoopType, NeverRefused
<1>2. QED
  BY <1>1, LoopTypeCorrect, PTL

-----------------------------------------------------------------------------
(* What a win pays *)

\* The pairings planned are of orders of S and take something.
LEMMA RowFields ==
    ASSUME NEW S, NEW all \in Seq([order : S, amount : Nat \ {0}])
    PROVE  /\ Len(all) \in Nat /\ DOMAIN all = 1 .. Len(all)
           /\ \A i \in DOMAIN all : all[i].order \in S /\ all[i].amount \in Nat \ {0}
<1> DEFINE R == [order : S, amount : Nat \ {0}]
<1>1. \A x \in R : x.order \in S /\ x.amount \in Nat \ {0}
  OBVIOUS
<1> HIDE DEF R
<1>2. Len(all) \in Nat /\ DOMAIN all = 1 .. Len(all)
  OBVIOUS
<1>3. \A i \in 1 .. Len(all) : all[i] \in R
  BY ElementOfSeq DEF R
<1>4. QED
  BY <1>1, <1>2, <1>3

Returns(all, bps) == [i \in DOMAIN all |-> ReturnOf(all[i].amount, bps)]

\* Every pairing adds what it pays.
LEMMA EarnedAdds ==
    ASSUME NEW p, Accepted(p), NEW S,
           NEW all \in Seq([order : S, amount : Nat \ {0}]), NEW r \in S,
           NEW m \in Nat \ {0}
    PROVE  /\ Total(Returns(all, p.commission)) \in Nat
           /\ Total(Returns(Append(all, [order |-> r, amount |-> m]), p.commission))
                = Total(Returns(all, p.commission)) + ReturnOf(m, p.commission)
<1> DEFINE c == p.commission
           D == 1 .. Len(all)
           x == Len(all) + 1
           more == Append(all, [order |-> r, amount |-> m])
           f == Returns(all, c)
           g == Returns(more, c)
<1>1. Len(all) \in Nat /\ DOMAIN all = D /\ \A i \in D : all[i].amount \in Nat
  BY RowFields
<1>2. Len(more) = x /\ DOMAIN more = D \cup {x} /\ more[x] = [order |-> r, amount |-> m]
      /\ \A i \in D : more[i] = all[i]
  BY <1>1
<1>3. \A a \in Nat : ReturnOf(a, c) \in Nat
  BY ReturnBounds
<1>4. f \in AmountsOver(D)
  BY <1>1, <1>3 DEF Returns, AmountsOver
<1>5. g \in AmountsOver(D \cup {x})
  <2>1. ASSUME NEW i \in DOMAIN more PROVE more[i].amount \in Nat
    BY <1>1, <1>2
  <2>2. g = [i \in D \cup {x} |-> ReturnOf(more[i].amount, c)]
    BY <1>2 DEF Returns
  <2>3. \A i \in D \cup {x} : ReturnOf(more[i].amount, c) \in Nat
    BY <1>2, <1>3, <2>1
  <2>4. QED
    BY <2>2, <2>3 DEF AmountsOver
<1>6. \A i \in D : g[i] = f[i]
  BY <1>1, <1>2 DEF Returns
<1>7. g[x] = ReturnOf(m, c)
  BY <1>2 DEF Returns
<1>8. IsFiniteSet(D) /\ x \notin D
  BY <1>1, FS_Interval
<1>9. Total(f) \in Nat
  BY <1>4, <1>8, TotalType
<1>10. Total(g) = Total(f) + g[x]
  BY <1>4, <1>5, <1>6, <1>8, TotalAdd
<1> HIDE DEF f, g, c
<1> QED
  BY <1>7, <1>9, <1>10 DEF f, g, c, more

\* What has been matched of the incoming order.
Taken == incoming - incomingRemaining

\* Before rounding, the pairings pay what the odds promise on what has been
\* matched, and at most a unit more for each of them.
Paid ==
    /\ Earned \in Nat
    /\ Taken * profile.num =< profile.den * Earned
    /\ Exact(profile) =>
          profile.den * Earned =< Taken * profile.num + profile.den * Len(allocations)

LEMMA EarnedIs == Earned = Total(Returns(allocations, profile.commission))
  BY DEF Earned, Returns

LEMMA PaidInit == Init => Paid
<1> SUFFICES ASSUME Init PROVE Paid
  OBVIOUS
<1> DEFINE f == Returns(allocations, profile.commission)
<1>1. allocations = <<>> /\ Len(allocations) = 0 /\ DOMAIN allocations = {}
  BY DEF Init
<1>2. f \in AmountsOver({}) /\ \A x \in {} : f[x] = 0
  BY <1>1 DEF AmountsOver, Returns
<1>3. Earned = 0
  BY <1>2, TotalZero, EarnedIs
<1>4. incoming \in Nat /\ Taken = 0
  BY FifoMatchingAssumption DEF Init, Taken
<1>5. profile.num \in Nat /\ profile.den \in Nat
  BY AcceptedFields DEF Init
<1>6. QED
  BY <1>1, <1>3, <1>4, <1>5 DEF Paid

\* A pairing of m that pays v, over the denominator d of odds w/d.
LEMMA PaidMore ==
    ASSUME NEW w \in Nat, NEW d \in Nat, NEW s \in Nat, NEW e \in Nat, NEW l \in Nat,
           NEW m \in Nat, NEW v \in Nat
    PROVE  /\ s * w =< d * e /\ m * w =< d * v => (s + m) * w =< d * (e + v)
           /\ d * e =< s * w + d * l /\ d * v =< m * w + d
                => d * (e + v) =< (s + m) * w + d * (l + 1)
<1>1. (s + m) * w = s * w + m * w
  OBVIOUS
<1>2. d * (e + v) = d * e + d * v
  OBVIOUS
<1>3. d * (l + 1) = d * l + d
  OBVIOUS
<1>4. /\ s * w \in Nat /\ m * w \in Nat /\ d * e \in Nat /\ d * v \in Nat /\ d * l \in Nat
  OBVIOUS
<1>5. QED
  BY <1>1, <1>2, <1>3, <1>4

LEMMA PaidStep == LoopType /\ Paid /\ [Next]_vars => Paid'
<1> SUFFICES ASSUME LoopType, Paid, [Next]_vars PROVE Paid'
  OBVIOUS
<1>1. CASE UNCHANGED <<incoming, incomingRemaining, allocations, profile>>
  <2>1. Taken' = Taken /\ Earned' = Earned
    BY <1>1 DEF Taken, Earned
  <2>2. QED
    BY <1>1, <2>1 DEF Paid, Exact
<1>2. CASE Pair /\ Pairing
  <2>1. /\ amount \in Nat \ {0} /\ amount =< incomingRemaining
        /\ next \in 1 .. Len(restingOrders)
    BY <1>2, StepAmount DEF Pair, Pairing
  <2>2. /\ incoming \in Nat /\ incomingRemaining \in 0 .. incoming /\ Accepted(profile)
        /\ allocations \in Seq([order : 1 .. Len(restingOrders), amount : Nat \ {0}])
    BY DEF LoopType
  <2>3. /\ allocations' = Append(allocations, [order |-> next, amount |-> amount])
        /\ profile' = profile /\ incoming' = incoming
        /\ incomingRemaining' = incomingRemaining - amount
    BY <1>2 DEF Pair, input
  <2>4. PICK w, d, c, s, e, l, m, v :
            /\ w = profile.num /\ d = profile.den /\ c = profile.commission
            /\ s = Taken /\ e = Earned /\ l = Len(allocations) /\ m = amount
            /\ v = ReturnOf(amount, profile.commission)
    OBVIOUS
  <2>5. /\ w \in Nat /\ d \in Nat /\ l \in Nat /\ e \in Nat /\ s \in Nat /\ m \in Nat /\ v \in Nat
    <3>1. w \in Nat /\ d \in Nat
      BY <2>2, <2>4, AcceptedFields
    <3>2. l \in Nat
      BY <2>2, <2>4
    <3>3. e \in Nat
      BY <2>4 DEF Paid
    <3>4. s \in Nat /\ m \in Nat
      BY <2>1, <2>2, <2>4 DEF Taken
    <3>5. v \in Nat
      BY <2>1, <2>2, <2>4, ReturnBounds
    <3>6. QED
      BY <3>1, <3>2, <3>3, <3>4, <3>5
  <2>6. m * w =< d * v /\ (Exact(profile) => d * v =< m * w + d)
    BY <2>1, <2>2, <2>4, ReturnBounds
  <2>7. s * w =< d * e /\ (Exact(profile) => d * e =< s * w + d * l)
    BY <2>4 DEF Paid
  <2>8. Taken' = s + m
    <3>1. Taken' = incoming - (incomingRemaining - amount)
      BY <2>3 DEF Taken
    <3>2. QED
      BY <2>1, <2>2, <2>4, <3>1 DEF Taken
  <2>9. Earned' = e + v
    <3>1. Earned' = Total(Returns(allocations', profile.commission))
      BY <2>3 DEF Earned, Returns
    <3>2. Earned = Total(Returns(allocations, profile.commission))
      BY EarnedIs
    <3>3. QED
      BY <2>1, <2>2, <2>3, <2>4, <3>1, <3>2, EarnedAdds
  <2>10. Len(allocations') = l + 1
    BY <2>2, <2>3, <2>4
  <2>11. /\ s * w =< d * e /\ m * w =< d * v => (s + m) * w =< d * (e + v)
         /\ d * e =< s * w + d * l /\ d * v =< m * w + d
                => d * (e + v) =< (s + m) * w + d * (l + 1)
    BY <2>5, PaidMore
  <2>12. e + v \in Nat
    BY <2>5
  <2>13. /\ (s + m) * w =< d * (e + v)
         /\ Exact(profile) => d * (e + v) =< (s + m) * w + d * (l + 1)
    BY <2>6, <2>7, <2>11, Zenon
  <2>14. profile'.num = w /\ profile'.den = d /\ (Exact(profile') <=> Exact(profile))
    BY <2>3, <2>4 DEF Exact
  <2>15. QED
    BY <2>8, <2>9, <2>10, <2>12, <2>13, <2>14 DEF Paid
<1>3. CASE Pair /\ ~Pairing
  BY <1>1, <1>3 DEF Pair, input
<1>4. CASE Skip
  BY <1>1, <1>4 DEF Skip, input
<1>5. CASE UNCHANGED vars
  BY <1>1, <1>5 DEF vars, input
<1> QED
  BY <1>2, <1>3, <1>4, <1>5 DEF Next

\* Rounded down, the promise is kept, with a unit a pairing to spare.
LEMMA PromiseKept ==
    ASSUME NEW w \in Nat, NEW d \in Nat \ {0}, NEW s \in Nat, NEW e \in Nat, NEW l \in Nat,
           NEW q \in Nat, d * q =< s * w, s * w < d * q + d
    PROVE  /\ s * w =< d * e => q =< e
           /\ d * e =< s * w + d * l => e =< q + l
<1>1. s * w \in Nat /\ d * e \in Nat /\ d * q \in Nat /\ d * l \in Nat
  OBVIOUS
<1>2. ASSUME q > e PROVE d * q >= d * e + d
  <2>1. d * q >= d * (e + 1)
    BY <1>2
  <2>2. d * (e + 1) = d * e + d
    OBVIOUS
  <2>3. QED
    BY <2>1, <2>2
<1>3. ASSUME s * w =< d * e PROVE q =< e
  <2>1. d * q =< d * e
    BY <1>1, <1>3
  <2>2. ASSUME NEW a \in Nat, NEW b \in Nat, a =< b PROVE ~(a >= b + d)
    BY <2>2
  <2>3. QED
    BY <1>1, <1>2, <2>1, <2>2
<1>4. ASSUME e > q + l PROVE d * e >= d * q + d * l + d
  <2>1. d * e >= d * (q + l + 1)
    BY <1>4
  <2>2. d * (q + l + 1) = d * q + d * l + d
    OBVIOUS
  <2>3. QED
    BY <2>1, <2>2
<1>5. ASSUME d * e =< s * w + d * l PROVE e =< q + l
  <2>1. d * e < d * q + d + d * l
    BY <1>1, <1>5
  <2>2. ASSUME e > q + l PROVE FALSE
    <3>1. d * e >= d * q + d * l + d
      BY <1>4, <2>2
    <3>2. QED
      BY <1>1, <2>1, <3>1
  <2>3. QED
    BY <2>2
<1>6. QED
  BY <1>3, <1>5

LEMMA PromiseFollows == LoopType /\ Paid => ReturnsThePromise
<1> SUFFICES ASSUME LoopType, Paid PROVE ReturnsThePromise
  OBVIOUS
<1>1. PICK w, d, s, e, l, q :
          /\ w = profile.num /\ d = profile.den /\ s = Taken /\ e = Earned
          /\ l = Len(allocations) /\ q = ScaleByRatio(s, w, d)
  OBVIOUS
<1>2. d \in Nat \ {0} /\ w \in Nat
  BY <1>1, AcceptedType DEF LoopType
<1>3. s \in Nat /\ e \in Nat /\ l \in Nat
  BY <1>1 DEF LoopType, Paid, Taken
<1>4. q \in Nat /\ d * q =< s * w /\ s * w < d * q + d
  BY <1>1, <1>2, <1>3, RoundsDown
<1>5. /\ s * w =< d * e => q =< e
      /\ d * e =< s * w + d * l => e =< q + l
  BY <1>2, <1>3, <1>4, PromiseKept
<1>6. s * w =< d * e /\ (Exact(profile) => d * e =< s * w + d * l)
  BY <1>1 DEF Paid
<1>7. q = Exposure(incoming - incomingRemaining, profile)
  BY <1>1 DEF Exposure, Taken
<1>8. q =< e /\ (Exact(profile) => e =< q + l)
  BY <1>5, <1>6, Zenon
<1> QED
  BY <1>1, <1>7, <1>8 DEF ReturnsThePromise, Exact

\* A win pays at least what the odds of the market's profile promise on what
\* was matched, however the loop split it over opponents, and exceeds that by
\* less than a unit for each of them if the fees are all the odds leave.
THEOREM ReturnsThePromiseHolds == Spec => []ReturnsThePromise
<1>1. Init => Paid
  BY PaidInit
<1>2. LoopType /\ Paid /\ [Next]_vars => Paid'
  BY PaidStep
<1>3. LoopType /\ Paid => ReturnsThePromise
  BY PromiseFollows
<1>4. QED
  BY <1>1, <1>2, <1>3, LoopTypeCorrect, PTL DEF Spec

-----------------------------------------------------------------------------
(* The loop plans first-in-first-out matching *)

LEMMA SequenceIsBook ==
    ASSUME NEW book \in Seq(Nat)
    PROVE  IsBook(book, Len(book))
  BY DEF IsBook, AmountsOver

\* What is ahead of the order after k, one past the last included.
LEMMA AheadNext ==
    ASSUME NEW book \in Seq(Nat), NEW k \in 1 .. Len(book)
    PROVE  /\ book[k] \in Nat /\ Ahead(book, k) \in Nat
           /\ Ahead(book, k + 1) = Ahead(book, k) + book[k]
<1>1. IsBook(book, Len(book)) /\ DOMAIN book = 1 .. Len(book) /\ k \in DOMAIN book
  BY SequenceIsBook
<1>2. Total(Part(book, UpTo(book, k))) = Ahead(book, k) + book[k]
  BY <1>1, UpToTotal
<1>3. UpTo(book, k) = {x \in DOMAIN book : x < k + 1}
  BY <1>1 DEF UpTo
<1>4. Ahead(book, k + 1) = Total(Part(book, UpTo(book, k)))
  BY <1>3 DEF Ahead, Part
<1>5. book[k] \in Nat /\ Ahead(book, k) \in Nat
  BY <1>1, BookType
<1>6. QED
  BY <1>2, <1>4, <1>5

LEMMA AheadEnds ==
    ASSUME NEW book \in Seq(Nat)
    PROVE  /\ Ahead(book, 1) = 0
           /\ Ahead(book, Len(book) + 1) = Total(book)
           /\ Total(book) \in Nat
<1>1. IsBook(book, Len(book)) /\ DOMAIN book = 1 .. Len(book) /\ Len(book) \in Nat
  BY SequenceIsBook
<1>2. Total(book) \in Nat
  BY <1>1, BookType
<1>3. Ahead(book, Len(book) + 1) = Total(book)
  <2>1. {x \in DOMAIN book : x < Len(book) + 1} = DOMAIN book
    BY <1>1
  <2>2. [x \in DOMAIN book |-> book[x]] = book
    OBVIOUS
  <2>3. QED
    BY <2>1, <2>2 DEF Ahead
<1>4. Ahead(book, 1) = 0
  <2> DEFINE f == [p \in {x \in DOMAIN book : x < 1} |-> book[p]]
  <2>1. {x \in DOMAIN book : x < 1} = {}
    BY <1>1
  <2>2. f \in AmountsOver({}) /\ \A x \in {} : f[x] = 0
    BY <2>1 DEF AmountsOver
  <2>3. Total(f) = 0
    BY <2>2, TotalZero
  <2>4. QED
    BY <2>3 DEF Ahead
<1>5. QED
  BY <1>2, <1>3, <1>4

\* The pairings planned with the resting order r.
With(all, r) == {j \in DOMAIN all : all[j].order = r}

PlannedIn(all, r) == Total([i \in With(all, r) |-> all[i].amount])

LEMMA PlannedNothing ==
    ASSUME NEW all, NEW r, \A i \in DOMAIN all : all[i].order # r
    PROVE  PlannedIn(all, r) = 0
<1> DEFINE f == [i \in With(all, r) |-> all[i].amount]
<1>1. With(all, r) = {}
  BY DEF With
<1>2. f \in AmountsOver({}) /\ \A x \in {} : f[x] = 0
  BY <1>1 DEF AmountsOver
<1>3. Total(f) = 0
  BY <1>2, TotalZero
<1>4. QED
  BY <1>3 DEF PlannedIn

\* One more pairing changes what is planned with its own order alone.
LEMMA PlannedMore ==
    ASSUME NEW S, NEW all \in Seq([order : S, amount : Nat \ {0}]), NEW r \in S,
           NEW m \in Nat \ {0}
    PROVE  LET more == Append(all, [order |-> r, amount |-> m])
           IN  /\ DOMAIN more = 1 .. Len(all) + 1
               /\ \A i \in DOMAIN more :
                     more[i].order = (IF i =< Len(all) THEN all[i].order ELSE r)
               /\ \A q : q # r => PlannedIn(more, q) = PlannedIn(all, q)
               /\ (\A i \in DOMAIN all : all[i].order # r) => PlannedIn(more, r) = m
<1> DEFINE more == Append(all, [order |-> r, amount |-> m])
           x == Len(all) + 1
<1>1. Len(all) \in Nat /\ DOMAIN all = 1 .. Len(all) /\ DOMAIN more = 1 .. x
  OBVIOUS
<1>2. more[x] = [order |-> r, amount |-> m] /\ \A i \in DOMAIN all : more[i] = all[i]
  OBVIOUS
<1>3. DOMAIN more = DOMAIN all \cup {x} /\ x \notin DOMAIN all
  BY <1>1
<1> HIDE DEF more, x
<1>4. ASSUME NEW q, q # r PROVE PlannedIn(more, q) = PlannedIn(all, q)
  <2>1. With(more, q) = With(all, q)
    BY <1>2, <1>3, <1>4 DEF With
  <2>2. \A i \in With(all, q) : more[i] = all[i]
    BY <1>2 DEF With
  <2>3. [i \in With(more, q) |-> more[i].amount] = [i \in With(all, q) |-> all[i].amount]
    BY <2>1, <2>2
  <2>4. QED
    BY <2>3 DEF PlannedIn
<1>5. ASSUME \A i \in DOMAIN all : all[i].order # r PROVE PlannedIn(more, r) = m
  <2>1. With(more, r) = {x}
    BY <1>2, <1>3, <1>5 DEF With
  <2>2. [i \in With(more, r) |-> more[i].amount] = [i \in {x} |-> m]
    BY <1>2, <2>1
  <2>3. Total([i \in {x} |-> m]) = m
    BY TotalSingle
  <2>4. QED
    BY <2>2, <2>3 DEF PlannedIn
<1>6. \A i \in DOMAIN more :
          more[i].order = (IF i =< Len(all) THEN all[i].order ELSE r)
  BY <1>1, <1>2 DEF x
<1> QED
  BY <1>1, <1>4, <1>5, <1>6 DEF more, x

\* What the loop has done with the orders it has passed, and what it is left with.
Passed ==
    LET plan == FifoPlan(incoming, restingOrders)
    IN  /\ incomingRemaining = Beyond(incoming, Ahead(restingOrders, next))
        /\ \A i \in DOMAIN allocations : allocations[i].order < next
        /\ \A r \in 1 .. next - 1 :
              /\ PlannedIn(allocations, r) = plan[r]
              /\ restingRemaining[r] = restingOrders[r] - plan[r]

LEMMA PassedInit == Init => Passed
<1> SUFFICES ASSUME Init PROVE Passed
  OBVIOUS
<1>1. restingOrders \in Seq(Nat) /\ incoming \in Nat
  BY LoopTypeInit DEF LoopType
<1>2. Ahead(restingOrders, next) = 0
  BY <1>1, AheadEnds DEF Init
<1>3. incomingRemaining = Beyond(incoming, Ahead(restingOrders, next))
  BY <1>1, <1>2 DEF Init, Beyond
<1>4. QED
  BY <1>3 DEF Init, Passed

\* The amount of a step is the plan's, and what it leaves is what is beyond the
\* orders up to the next.
LEMMA StepPlan ==
    ASSUME LoopType, Passed, next =< Len(restingOrders)
    PROVE  /\ amount = FifoPlan(incoming, restingOrders)[next]
           /\ incomingRemaining - amount = Beyond(incoming, Ahead(restingOrders, next + 1))
           /\ amount \in Nat /\ restingOrders[next] \in Nat
           /\ incomingRemaining = 0 => amount = 0
<1>1. /\ incoming \in Nat /\ restingOrders \in Seq(Nat) /\ next \in 1 .. Len(restingOrders)
      /\ amount \in Nat /\ restingOrders[next] \in Nat
      /\ amount =< incomingRemaining /\ incomingRemaining \in Nat
  <2>1. incoming \in Nat /\ incomingRemaining \in Nat /\ restingOrders \in Seq(Nat)
    BY DEF LoopType
  <2>2. QED
    BY <2>1, StepAmount
<1>2. PICK a \in Nat, b \in Nat, c \in Nat :
          a = Ahead(restingOrders, next) /\ b = restingOrders[next]
          /\ c = Ahead(restingOrders, next + 1) /\ c = a + b
  BY <1>1, AheadNext
<1>3. incomingRemaining = Beyond(incoming, a) /\ amount = Smaller(incomingRemaining, b)
  BY <1>2 DEF Passed, amount
<1>4. next \in DOMAIN restingOrders
  BY <1>1
<1>5. FifoPlan(incoming, restingOrders)[next] = Smaller(b, Beyond(incoming, a))
  BY <1>2, <1>4 DEF FifoPlan
<1>6. Smaller(b, Beyond(incoming, a)) = Smaller(Beyond(incoming, a), b)
  BY <1>1 DEF Smaller, Beyond
<1>7. Beyond(incoming, a) - Smaller(Beyond(incoming, a), b) = Beyond(incoming, a + b)
  BY <1>1 DEF Smaller, Beyond
<1>8. incomingRemaining = 0 => amount = 0
  BY <1>1
<1> QED
  BY <1>1, <1>2, <1>3, <1>5, <1>6, <1>7, <1>8

\* The order that a step adds to those passed.
LEMMA PassedMore ==
    ASSUME LoopType, Passed, next =< Len(restingOrders),
           incoming' = incoming, restingOrders' = restingOrders, next' = next + 1,
           incomingRemaining' = incomingRemaining - amount,
           restingRemaining' = Append(restingRemaining, restingOrders[next] - amount),
           \A i \in DOMAIN allocations' : allocations'[i].order < next + 1,
           \A r \in 1 .. next - 1 : PlannedIn(allocations', r) = PlannedIn(allocations, r),
           PlannedIn(allocations', next) = amount
    PROVE  Passed'
<1> DEFINE plan == FifoPlan(incoming, restingOrders)
<1>1. /\ amount = plan[next]
      /\ incomingRemaining - amount = Beyond(incoming, Ahead(restingOrders, next + 1))
  BY StepPlan
<1>2. /\ restingRemaining \in Seq(Nat) /\ Len(restingRemaining) = next - 1
      /\ next \in Nat /\ next >= 1
  BY DEF LoopType
<1>3. /\ \A r \in 1 .. next - 1 : restingRemaining'[r] = restingRemaining[r]
      /\ restingRemaining'[next] = restingOrders[next] - amount
  BY <1>2
<1>4. \A r \in 1 .. next - 1 :
          /\ PlannedIn(allocations, r) = plan[r]
          /\ restingRemaining[r] = restingOrders[r] - plan[r]
  BY DEF Passed
<1> HIDE DEF plan
<1>5. \A r \in 1 .. next' - 1 :
          /\ PlannedIn(allocations', r) = plan[r]
          /\ restingRemaining'[r] = restingOrders[r] - plan[r]
  <2>1. 1 .. next' - 1 = (1 .. next - 1) \cup {next}
    BY <1>2
  <2>2. QED
    BY <1>1, <1>3, <1>4, <2>1
<1> QED
  BY <1>1, <1>5 DEF Passed, plan

LEMMA PassedStep == LoopType /\ Passed /\ [Next]_vars => Passed'
<1> SUFFICES ASSUME LoopType, Passed, [Next]_vars PROVE Passed'
  OBVIOUS
<1>0. /\ next \in Nat
      /\ \A i \in DOMAIN allocations : allocations[i].order # next
      /\ \A i \in DOMAIN allocations : allocations[i].order < next + 1
  <2>1. next \in Nat
    BY DEF LoopType
  <2>2. \A i \in DOMAIN allocations : allocations[i].order \in 1 .. Len(restingOrders)
    BY RowFields DEF LoopType
  <2>3. QED
    BY <2>1, <2>2 DEF Passed
<1>1. CASE Skip
  <2>1. amount = 0 /\ restingOrders[next] \in Nat /\ incomingRemaining \in Nat
    BY <1>1, StepPlan DEF Skip, LoopType
  <2>2. PlannedIn(allocations, next) = 0
    BY <1>0, PlannedNothing
  <2>3. restingOrders[next] - amount = restingOrders[next]
        /\ incomingRemaining - amount = incomingRemaining
    BY <2>1
  <2>4. QED
    BY <1>0, <1>1, <2>1, <2>2, <2>3, PassedMore DEF Skip, input
<1>2. CASE Pair /\ ~Pairing
  <2>1. amount = 0 /\ restingOrders[next] \in Nat /\ incomingRemaining \in Nat
    <3>1. amount \in Nat /\ restingOrders[next] \in Nat /\ ~(amount > 0)
      BY <1>2, StepPlan DEF Pair, Pairing
    <3>2. incomingRemaining \in Nat
      BY DEF LoopType
    <3>3. QED
      BY <3>1, <3>2
  <2>2. PlannedIn(allocations, next) = 0
    BY <1>0, PlannedNothing
  <2>3. incomingRemaining - amount = incomingRemaining
    BY <2>1
  <2>4. QED
    BY <1>0, <1>2, <2>1, <2>2, <2>3, PassedMore DEF Pair, input
<1>3. CASE Pair /\ Pairing
  <2>1. amount \in Nat \ {0}
    BY <1>3, StepPlan DEF Pair, Pairing
  <2>2. /\ next \in 1 .. Len(restingOrders)
        /\ allocations \in Seq([order : 1 .. Len(restingOrders), amount : Nat \ {0}])
    BY <1>3 DEF Pair, LoopType
  <2>3. allocations' = Append(allocations, [order |-> next, amount |-> amount])
    BY <1>3 DEF Pair
  <2>4. /\ DOMAIN allocations' = 1 .. Len(allocations) + 1
        /\ \A i \in DOMAIN allocations' :
              allocations'[i].order
                = (IF i =< Len(allocations) THEN allocations[i].order ELSE next)
        /\ \A q : q # next => PlannedIn(allocations', q) = PlannedIn(allocations, q)
        /\ PlannedIn(allocations', next) = amount
    <3>1. \A i \in DOMAIN allocations : allocations[i].order # next
      BY <1>0
    <3> DEFINE S == 1 .. Len(restingOrders)
               R == [order : S, amount : Nat \ {0}]
    <3>2. next \in S /\ allocations \in Seq(R)
      BY <2>2
    <3>3. \A all \in Seq(R) : \A r \in S, m \in Nat \ {0} :
            LET more == Append(all, [order |-> r, amount |-> m])
            IN  /\ DOMAIN more = 1 .. Len(all) + 1
                /\ \A i \in DOMAIN more :
                      more[i].order = (IF i =< Len(all) THEN all[i].order ELSE r)
                /\ \A q : q # r => PlannedIn(more, q) = PlannedIn(all, q)
                /\ (\A i \in DOMAIN all : all[i].order # r) => PlannedIn(more, r) = m
      BY PlannedMore
    <3> HIDE DEF S, R
    <3>4. QED
      BY <2>1, <2>3, <3>1, <3>2, <3>3
  <2>5. \A i \in DOMAIN allocations' : allocations'[i].order < next + 1
    <3>1. DOMAIN allocations = 1 .. Len(allocations) /\ Len(allocations) \in Nat
      BY <2>2
    <3>2. QED
      BY <1>0, <2>4, <3>1
  <2>6. \A r \in 1 .. next - 1 : PlannedIn(allocations', r) = PlannedIn(allocations, r)
    BY <1>0, <2>4
  <2>7. QED
    BY <1>3, <2>4, <2>5, <2>6, PassedMore DEF Pair, input
<1>4. CASE UNCHANGED vars
  BY <1>4 DEF Passed, vars, input
<1> QED
  BY <1>1, <1>2, <1>3, <1>4 DEF Next

LEMMA PassedIsFifo == LoopType /\ Passed => LoopIsFifo
<1> SUFFICES ASSUME LoopType, Passed, Done PROVE LoopIsFifo
  BY DEF LoopIsFifo
<1> DEFINE plan == FifoPlan(incoming, restingOrders)
<1>1. /\ next = Len(restingOrders) + 1 /\ restingOrders \in Seq(Nat) /\ incoming \in Nat
      /\ DOMAIN restingOrders = 1 .. next - 1
  BY DEF Done, LoopType
<1>2. \A r : Planned(r) = PlannedIn(allocations, r)
  BY DEF Planned, PlannedIn, With
<1>3. incomingRemaining = incoming - FifoFilled(incoming, restingOrders)
  <2>1. incomingRemaining = Beyond(incoming, Total(restingOrders))
    BY <1>1, AheadEnds DEF Passed
  <2>2. Total(restingOrders) \in Nat
    BY <1>1, AheadEnds
  <2>3. QED
    BY <1>1, <2>1, <2>2 DEF Beyond, FifoFilled, Smaller
<1>4. \A i \in DOMAIN allocations : allocations[i].amount > 0
  <2>1. \A i \in DOMAIN allocations : allocations[i].amount \in Nat \ {0}
    BY RowFields DEF LoopType
  <2>2. \A m \in Nat \ {0} : m > 0
    OBVIOUS
  <2>3. QED
    BY <2>1, <2>2, Zenon
<1>5. \A r \in DOMAIN restingOrders :
          /\ PlannedIn(allocations, r) = plan[r]
          /\ restingRemaining[r] = restingOrders[r] - plan[r]
  BY <1>1 DEF Passed
<1> QED
  BY <1>2, <1>3, <1>4, <1>5 DEF LoopIsFifo

\* The loop computes first-in-first-out matching, for a book of any length and
\* any amounts: what holds of the plan of module Fifo holds of the code's.
THEOREM LoopIsFifoHolds == Spec => []LoopIsFifo
<1>1. Init => Passed
  BY PassedInit
<1>2. LoopType /\ Passed /\ [Next]_vars => Passed'
  BY PassedStep
<1>3. LoopType /\ Passed => LoopIsFifo
  BY PassedIsFifo
<1>4. QED
  BY <1>1, <1>2, <1>3, LoopTypeCorrect, PTL DEF Spec
=============================================================================
