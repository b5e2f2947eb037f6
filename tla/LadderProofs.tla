---------------------------- MODULE LadderProofs ----------------------------
(***************************************************************************)
(* Theorems on the locks, for any markets, users, orders, number of        *)
(* transactions and attempts: what the locks keep valid, and what a        *)
(* deadlock can be made of.                                                *)
(***************************************************************************)
EXTENDS LockLadder, TotalsProofs, SequenceTheorems

-----------------------------------------------------------------------------
(* Sequences of orders and of locks *)

\* The elements of a sequence are in its range, and nothing else is.
LEMMA SeqRange ==
    ASSUME NEW S, NEW s \in Seq(S)
    PROVE  /\ Range(s) \subseteq S
           /\ \A i \in 1 .. Len(s) : s[i] \in Range(s)
           /\ \A x \in Range(s) : \E i \in 1 .. Len(s) : x = s[i]
  BY LenProperties DEF Range

\* Orders that come in sequence are each in their place, and nothing is left out.
LEMMA InOrderFacts ==
    ASSUME NEW S \in SUBSET Orders
    PROVE  /\ InOrder(S) \in Seq(S)
           /\ Range(InOrder(S)) = S
           /\ \A i, j \in 1 .. Len(InOrder(S)) :
                 i < j => InOrder(S)[i].seq < InOrder(S)[j].seq
<1> DEFINE n == Cardinality(S)
           before(o) == {p \in S : p.seq < o.seq}
           rank == [o \in S |-> Cardinality(before(o))]
           nth == [i \in 1 .. n |-> CHOOSE o \in S : Cardinality(before(o)) = i - 1]
<1>1. /\ IsFiniteSet(S) /\ n \in Nat
      /\ \A o \in S : o.seq \in Nat
      /\ \A o, p \in S : o.seq = p.seq => o = p
  BY LockLadderAssumption, FS_Subset, FS_CardinalityType
<1>2. ASSUME NEW o \in S
      PROVE  /\ IsFiniteSet(before(o)) /\ rank[o] \in 0 .. n - 1
             /\ rank[o] = Cardinality(before(o))
  <2>1. before(o) \in SUBSET (S \ {o})
    BY <1>1
  <2>2. IsFiniteSet(S \ {o}) /\ Cardinality(S \ {o}) = n - 1
    BY <1>1, FS_RemoveElement
  <2>3. IsFiniteSet(before(o)) /\ Cardinality(before(o)) <= n - 1
    BY <2>1, <2>2, FS_Subset
  <2>4. Cardinality(before(o)) \in Nat
    BY <2>3, FS_CardinalityType
  <2> QED
    BY <1>1, <2>3, <2>4
<1>3. ASSUME NEW o \in S, NEW p \in S, o.seq < p.seq PROVE rank[o] < rank[p]
  <2>1. before(o) \in SUBSET (before(p) \ {o}) /\ o \in before(p)
    BY <1>1, <1>3
  <2>2. /\ IsFiniteSet(before(p) \ {o})
        /\ Cardinality(before(p) \ {o}) = Cardinality(before(p)) - 1
    BY <1>2, <2>1, FS_RemoveElement
  <2>3. Cardinality(before(o)) <= Cardinality(before(p) \ {o})
    BY <2>1, <2>2, FS_Subset
  <2>4. /\ rank[o] = Cardinality(before(o)) /\ rank[p] = Cardinality(before(p))
        /\ rank[o] \in 0 .. n - 1 /\ rank[p] \in 0 .. n - 1
    BY <1>2
  <2> HIDE DEF rank, before, n
  <2> QED
    BY <2>2, <2>3, <2>4
<1>4. rank \in Injection(S, 0 .. n - 1)
  <2>1. rank \in [S -> 0 .. n - 1]
    BY <1>2
  <2>2. ASSUME NEW o \in S, NEW p \in S, rank[o] = rank[p] PROVE o = p
    <3>1. o.seq < p.seq \/ p.seq < o.seq \/ o.seq = p.seq
      BY <1>1
    <3>2. rank[o] \in 0 .. n - 1 /\ rank[p] \in 0 .. n - 1
      BY <1>2
    <3> HIDE DEF rank, n
    <3> QED
      BY <1>1, <1>3, <2>2, <3>1, <3>2
  <2> HIDE DEF rank
  <2> QED
    BY <2>1, <2>2 DEF Injection, IsInjective
<1>5. rank \in Surjection(S, 0 .. n - 1)
  <2>1. IsFiniteSet(0 .. n - 1) /\ Cardinality(0 .. n - 1) = n
    BY <1>1, FS_Interval
  <2> HIDE DEF rank
  <2> QED
    BY <1>4, <2>1, FS_Injection
<1>6. ASSUME NEW i \in 1 .. n
      PROVE  nth[i] \in S /\ rank[nth[i]] = i - 1
  <2>1. i - 1 \in 0 .. n - 1
    BY <1>1
  <2>2. \E o \in S : rank[o] = i - 1
    <3> HIDE DEF rank
    <3> QED
      BY <1>5, <2>1 DEF Surjection
  <2>3. \E o \in S : Cardinality(before(o)) = i - 1
    BY <2>2
  <2>4. nth[i] \in S /\ Cardinality(before(nth[i])) = i - 1
    BY <2>3
  <2> QED
    BY <2>4
<1>7. InOrder(S) = nth
  BY DEF InOrder
<1>8. \A i \in 1 .. n : nth[i] \in S /\ rank[nth[i]] = i - 1
  BY <1>6
<1>9. nth \in [1 .. n -> S]
  <2> HIDE DEF rank, before, n
  <2> QED
    BY <1>8
<1>10. \A o \in S : rank[o] + 1 \in 1 .. n /\ nth[rank[o] + 1] = o
  <2> SUFFICES ASSUME NEW o \in S PROVE rank[o] + 1 \in 1 .. n /\ nth[rank[o] + 1] = o
    OBVIOUS
  <2>1. rank[o] \in 0 .. n - 1
    BY <1>2
  <2> HIDE DEF rank, nth
  <2>2. rank[o] + 1 \in 1 .. n /\ rank[o] \in Int
    BY <1>1, <2>1
  <2>3. nth[rank[o] + 1] \in S /\ rank[nth[rank[o] + 1]] = rank[o]
    BY <1>8, <2>2
  <2> QED
    BY <1>4, <2>2, <2>3 DEF Injection, IsInjective
<1>11. ASSUME NEW i \in 1 .. n, NEW j \in 1 .. n, i < j PROVE nth[i].seq < nth[j].seq
  <2>1. /\ nth[i] \in S /\ nth[j] \in S /\ rank[nth[i]] = i - 1 /\ rank[nth[j]] = j - 1
        /\ i \in Int /\ j \in Int
    <3> HIDE DEF rank, nth, n
    <3> QED
      BY <1>1, <1>8
  <2> HIDE DEF rank, nth, before
  <2>2. nth[i].seq \in Nat /\ nth[j].seq \in Nat
    BY <1>1, <2>1
  <2>3. nth[i].seq # nth[j].seq
    BY <1>1, <1>11, <2>1
  <2>4. ~ (nth[j].seq < nth[i].seq)
    BY <1>3, <1>11, <2>1
  <2> QED
    BY <2>2, <2>3, <2>4
<1> HIDE DEF nth, rank, before
<1>12. nth \in Seq(S) /\ Len(nth) = n
  BY <1>1, <1>9
<1>13. Range(nth) = S
  <2>1. DOMAIN nth = 1 .. n
    BY <1>9
  <2> QED
    BY <1>8, <1>10, <2>1 DEF Range
<1> QED
  BY <1>7, <1>11, <1>12, <1>13

\* A sequence that is put together from others has nothing that they have not.
LEMMA FlattenType ==
    ASSUME NEW W, NEW ss \in Seq(Seq(W))
    PROVE  FlattenSeq(ss) \in Seq(W)
<1> DEFINE n == Len(ss)
           Flat(f, k) == f = [i \in 1 .. k |-> IF i = 1 THEN ss[i] ELSE f[i - 1] \o ss[i]]
           Missing == {k \in 0 .. n : ~ \E f : Flat(f, k)}
           flatten == CHOOSE f : Flat(f, n)
<1>1. n \in Nat /\ \A i \in 1 .. n : ss[i] \in Seq(W)
  BY LenProperties
<1>2. Missing = {}
  <2> SUFFICES ASSUME Missing # {} PROVE FALSE
    OBVIOUS
  <2>1. Missing \subseteq Nat
    <3> HIDE DEF Flat, n
    <3> QED
      BY <1>1
  <2>2. PICK k \in Missing : \A j \in Missing : k <= j
    <3> HIDE DEF Missing
    <3> QED
      BY <2>1, LeastExists
  <2>3. k \in 0 .. n /\ ~ \E f : Flat(f, k)
    <3> HIDE DEF Flat, n
    <3> QED
      OBVIOUS
  <2>4. CASE k = 0
    <3>1. Flat(<<>>, 0)
      OBVIOUS
    <3> QED
      BY <2>3, <2>4, <3>1
  <2>5. CASE k # 0
    <3>1. k - 1 \in 0 .. n /\ k - 1 \notin Missing
      <4> HIDE DEF Missing, n
      <4> QED
        BY <1>1, <2>1, <2>2, <2>3, <2>5
    <3>2. PICK f : Flat(f, k - 1)
      <4> HIDE DEF Flat, n
      <4> QED
        BY <3>1
    <3> DEFINE g == [i \in 1 .. k |-> IF i = k THEN (IF k = 1 THEN ss[k] ELSE f[k - 1] \o ss[k])
                                               ELSE f[i]]
    <3>3. Flat(g, k)
      <4>1. ASSUME NEW i \in 1 .. k
            PROVE  g[i] = IF i = 1 THEN ss[i] ELSE g[i - 1] \o ss[i]
        <5>1. CASE i = k
          BY <1>1, <2>3, <5>1
        <5>2. CASE i # k
          <6>1. /\ i \in 1 .. k - 1 /\ g[i] = f[i]
                /\ i # 1 => i - 1 \in 1 .. k /\ i - 1 # k
            BY <1>1, <2>3, <5>2
          <6>2. f[i] = IF i = 1 THEN ss[i] ELSE f[i - 1] \o ss[i]
            BY <3>2, <6>1
          <6>3. i # 1 => g[i - 1] = f[i - 1]
            BY <6>1
          <6> QED
            BY <6>1, <6>2, <6>3
        <5> QED
          BY <5>1, <5>2
      <4>2. g = [i \in 1 .. k |-> g[i]]
        OBVIOUS
      <4> HIDE DEF g
      <4> QED
        BY <4>1, <4>2
    <3> QED
      BY <2>3, <3>3
  <2> QED
    BY <2>4, <2>5
<1>3. Flat(flatten, n)
  <2>1. n \notin Missing /\ n \in 0 .. n
    <3> HIDE DEF Missing, n
    <3> QED
      BY <1>1, <1>2
  <2>2. \E f : Flat(f, n)
    <3> HIDE DEF Flat, n
    <3> QED
      BY <2>1
  <2> QED
    BY <2>2
<1>4. FlattenSeq(ss) = IF n = 0 THEN ss ELSE flatten[n]
  BY DEF FlattenSeq
<1>5. n = 0 => ss \in Seq(W)
  OBVIOUS
<1>6. \A i \in 1 .. n : flatten[i] = IF i = 1 THEN ss[i] ELSE flatten[i - 1] \o ss[i]
  <2> HIDE DEF flatten
  <2> QED
    BY <1>3
<1> HIDE DEF flatten, Missing
<1>7. \A i \in 1 .. n : flatten[i] \in Seq(W)
  <2> DEFINE Bad == {i \in 1 .. n : flatten[i] \notin Seq(W)}
  <2> SUFFICES ASSUME Bad # {} PROVE FALSE
    OBVIOUS
  <2>1. Bad \subseteq Nat
    BY <1>1
  <2>2. PICK i \in Bad : \A j \in Bad : i <= j
    <3> HIDE DEF Bad
    <3> QED
      BY <2>1, LeastExists
  <2>3. i \in 1 .. n /\ flatten[i] \notin Seq(W)
    OBVIOUS
  <2>4. i # 1 /\ i - 1 \in 1 .. n /\ i - 1 \notin Bad
    BY <1>1, <1>6, <2>1, <2>2, <2>3
  <2>5. flatten[i - 1] \in Seq(W) /\ flatten[i] = flatten[i - 1] \o ss[i]
    BY <1>6, <2>3, <2>4
  <2> QED
    BY <1>1, <2>3, <2>5
<1> QED
  BY <1>1, <1>4, <1>5, <1>7
-----------------------------------------------------------------------------
(* The inductive invariant *)

\* What can be left of the steps of op.
Remainders(op) ==
    CASE op = "place"  -> {<<"wallet", "advisory", "book", "match">>,
                           <<"advisory", "book", "match">>, <<"book", "match">>, <<"match">>, <<>>}
      [] op = "cancel" -> {<<"order", "refund">>, <<"refund">>, <<>>}
      [] op = "close"  -> {<<"row", "open", "release">>, <<"open", "release">>, <<"release">>, <<>>}
      [] OTHER         -> {<<"advisory", "row", "open", "release", "rows", "pay">>,
                           <<"row", "open", "release", "rows", "pay">>,
                           <<"open", "release", "rows", "pay">>, <<"release", "rows", "pay">>,
                           <<"rows", "pay">>, <<"pay">>, <<>>}

Run ==
    [op : Op, on : Orders \cup Markets, attempt : 1 .. Attempts,
     left : UNION {Remainders(op) : op \in Op}, need : Seq(Locks), found : Seq(Orders)]

\* x is a run of its operation, on an order or on a market.
Proper(x) ==
    /\ x \in Run
    /\ x.on \in (IF x.op \in {"place", "cancel"} THEN Orders ELSE Markets)
    /\ x.left \in Remainders(x.op)

\* The steps that x has entered, and the last of them.
Passed(x) == Range(Steps(x.op)) \ Range(x.left)

Now(x) ==
    LET n == Len(Steps(x.op)) - Len(x.left) IN IF n = 0 THEN "begin" ELSE Steps(x.op)[n]

\* The kind of the locks that a step acquires.
Kind(s) ==
    CASE s \in {"wallet", "refund", "match", "release", "pay"} -> "wallet"
      [] s \in {"order", "book", "open", "rows"} -> "order"
      [] OTHER -> s

Held(t) == {k \in Locks : holder[k] = t}

\* The locks that x has when it holds H, or will have before it goes on.
Keys(x, H) == H \cup Range(x.need)

\* A lock is acquired by a step for it, in the transaction's own market, and a
\* cancellation acquires those of its order only.
Fits(x, k) ==
    /\ \E s \in Passed(x) : k.kind = Kind(s)
    /\ k.kind \in {"advisory", "row"} => k.market = MarketOf(x)
    /\ k.kind = "order" => k.order.market = MarketOf(x)
    /\ x.op = "cancel" => k \in {OrderRow(x.on), Wallet(x.on.user)}

\* What x has entered a step for, it has: its market, its order, the orders
\* that it has found.
Secures(x, H) ==
    /\ "advisory" \in Passed(x) => Advisory(MarketOf(x)) \in Keys(x, H)
    /\ "row" \in Passed(x) => Row(MarketOf(x)) \in Keys(x, H)
    /\ "order" \in Passed(x) => OrderRow(x.on) \in Keys(x, H)
    /\ \A o \in Range(x.found) : OrderRow(o) \in Keys(x, H)

\* Placements and closings take the rows of the orders in the orders' sequence.
Ascends(x, H) ==
    x.op \in {"place", "close"} =>
        \A j \in 1 .. Len(x.need) : x.need[j].kind = "order" =>
            /\ \A i \in 1 .. j - 1 : x.need[i].order.seq < x.need[j].order.seq
            /\ \A k \in H : k.kind = "order" => k.order.seq < x.need[j].order.seq

Lawful(x, H) ==
    /\ Proper(x)
    /\ \A k \in Range(x.need) : k.kind = Kind(Now(x))
    /\ \A k \in Keys(x, H) : Fits(x, k)
    /\ Secures(x, H)
    /\ Ascends(x, H)

LocksInv ==
    \A t \in Txns :
        /\ txn[t] = Idle => Held(t) = {}
        /\ txn[t] # Idle => /\ Lawful(txn[t], Held(t))
                            /\ Range(txn[t].found) \subseteq In(MarketOf(txn[t]), placed)

BaseInv ==
    /\ open \subseteq placed
    /\ placed \subseteq Orders
    /\ status \in [Markets -> {"OPEN", "CLOSED", "SETTLED", "VOID"}]
    /\ settled \subseteq Markets
    /\ DOMAIN pairs = Markets
    /\ \A m \in Markets : pairs[m] \in Seq(In(m, placed) \X In(m, placed))
    /\ holder \in [Locks -> Txns \cup {Nobody}]
    /\ DOMAIN txn = Txns

\* A settlement or a voiding runs on t, which has entered the step s.
Final(t, s) == Running(t) /\ txn[t].op \in {"settle", "void"} /\ s \in Passed(txn[t])

\* A cancellation runs on t, and has found its order open.
Refunds(t) == Running(t) /\ txn[t].op = "cancel" /\ txn[t].left = <<>>

\* A cancellation's order stays open, as its row is locked.
RefundsStayValid == \A t \in Txns : Refunds(t) => txn[t].on \in open

\* A market is not open any more once its settlement has its row.
FinalsNotOpen ==
    \A t \in Txns : Final(t, "row") => status[MarketOf(txn[t])] # "OPEN"

\* A settlement that has locked the open orders has them all, as no placement
\* can commit while it has the market.
FinalsHaveAll ==
    \A t \in Txns :
        Final(t, "open") /\ ~ Final(t, "release") =>
            In(MarketOf(txn[t]), open) \subseteq Range(txn[t].found)

\* A cancellation and a settlement that has locked the open orders exclude
\* each other.
FinalsAlone ==
    \A t, u \in Txns :
        Final(t, "release") /\ Refunds(u) => MarketOf(txn[u]) # MarketOf(txn[t])

IInv ==
    /\ BaseInv
    /\ LocksInv
    /\ PlansStayValid
    /\ RefundsStayValid
    /\ FinalsNotOpen
    /\ FinalsHaveAll
    /\ FinalsAlone
-----------------------------------------------------------------------------
(* Steps *)

\* A placement has entered the steps that are not left, the last of them just now.
LEMMA PlaceStages ==
    ASSUME NEW x, x.op \in {"place"}, x.left \in Remainders(x.op)
    PROVE  \/ Passed(x) = {} /\ x.left # <<>> /\ Head(x.left) = "wallet"
           \/ /\ Passed(x) = {"wallet"} /\ Now(x) = "wallet"
              /\ x.left # <<>> /\ Head(x.left) = "advisory"
           \/ /\ Passed(x) = {"wallet", "advisory"} /\ Now(x) = "advisory"
              /\ x.left # <<>> /\ Head(x.left) = "book"
           \/ /\ Passed(x) = {"wallet", "advisory", "book"} /\ Now(x) = "book"
              /\ x.left # <<>> /\ Head(x.left) = "match"
           \/ /\ Passed(x) = {"wallet", "advisory", "book", "match"} /\ Now(x) = "match"
              /\ x.left = <<>>
<1>1. Steps(x.op) = <<"wallet", "advisory", "book", "match">>
  BY DEF Steps
<1>2. \/ x.left = <<"wallet", "advisory", "book", "match">>
      \/ x.left = <<"advisory", "book", "match">>
      \/ x.left = <<"book", "match">>
      \/ x.left = <<"match">>
      \/ x.left = <<>>
  BY DEF Remainders
<1>3. CASE x.left = <<"wallet", "advisory", "book", "match">>
  <2>1. Passed(x) = {}
    BY <1>1, <1>3 DEF Passed, Range
  <2>2. x.left # <<>> /\ Head(x.left) = "wallet"
    BY <1>1, <1>3 DEF Now
  <2> QED
    BY <2>1, <2>2
<1>4. CASE x.left = <<"advisory", "book", "match">>
  <2>1. Passed(x) = {"wallet"}
    BY <1>1, <1>4 DEF Passed, Range
  <2>2. Now(x) = "wallet" /\ x.left # <<>> /\ Head(x.left) = "advisory"
    BY <1>1, <1>4 DEF Now
  <2> QED
    BY <2>1, <2>2
<1>5. CASE x.left = <<"book", "match">>
  <2>1. Passed(x) = {"wallet", "advisory"}
    BY <1>1, <1>5 DEF Passed, Range
  <2>2. Now(x) = "advisory" /\ x.left # <<>> /\ Head(x.left) = "book"
    BY <1>1, <1>5 DEF Now
  <2> QED
    BY <2>1, <2>2
<1>6. CASE x.left = <<"match">>
  <2>1. Passed(x) = {"wallet", "advisory", "book"}
    BY <1>1, <1>6 DEF Passed, Range
  <2>2. Now(x) = "book" /\ x.left # <<>> /\ Head(x.left) = "match"
    BY <1>1, <1>6 DEF Now
  <2> QED
    BY <2>1, <2>2
<1>7. CASE x.left = <<>>
  <2>1. Passed(x) = {"wallet", "advisory", "book", "match"}
    BY <1>1, <1>7 DEF Passed, Range
  <2>2. Now(x) = "match" /\ x.left = <<>>
    BY <1>1, <1>7 DEF Now
  <2> QED
    BY <2>1, <2>2
<1> QED
  BY <1>2, <1>3, <1>4, <1>5, <1>6, <1>7

\* So has a cancellation.
LEMMA CancelStages ==
    ASSUME NEW x, x.op \in {"cancel"}, x.left \in Remainders(x.op)
    PROVE  \/ Passed(x) = {} /\ x.left # <<>> /\ Head(x.left) = "order"
           \/ /\ Passed(x) = {"order"} /\ Now(x) = "order"
              /\ x.left # <<>> /\ Head(x.left) = "refund"
           \/ Passed(x) = {"order", "refund"} /\ Now(x) = "refund" /\ x.left = <<>>
<1>1. Steps(x.op) = <<"order", "refund">>
  BY DEF Steps
<1>2. \/ x.left = <<"order", "refund">>
      \/ x.left = <<"refund">>
      \/ x.left = <<>>
  BY DEF Remainders
<1>3. CASE x.left = <<"order", "refund">>
  <2>1. Passed(x) = {}
    BY <1>1, <1>3 DEF Passed, Range
  <2>2. x.left # <<>> /\ Head(x.left) = "order"
    BY <1>1, <1>3 DEF Now
  <2> QED
    BY <2>1, <2>2
<1>4. CASE x.left = <<"refund">>
  <2>1. Passed(x) = {"order"}
    BY <1>1, <1>4 DEF Passed, Range
  <2>2. Now(x) = "order" /\ x.left # <<>> /\ Head(x.left) = "refund"
    BY <1>1, <1>4 DEF Now
  <2> QED
    BY <2>1, <2>2
<1>5. CASE x.left = <<>>
  <2>1. Passed(x) = {"order", "refund"}
    BY <1>1, <1>5 DEF Passed, Range
  <2>2. Now(x) = "refund" /\ x.left = <<>>
    BY <1>1, <1>5 DEF Now
  <2> QED
    BY <2>1, <2>2
<1> QED
  BY <1>2, <1>3, <1>4, <1>5

\* So has a closing.
LEMMA CloseStages ==
    ASSUME NEW x, x.op \in {"close"}, x.left \in Remainders(x.op)
    PROVE  \/ Passed(x) = {} /\ x.left # <<>> /\ Head(x.left) = "row"
           \/ Passed(x) = {"row"} /\ Now(x) = "row" /\ x.left # <<>> /\ Head(x.left) = "open"
           \/ /\ Passed(x) = {"row", "open"} /\ Now(x) = "open"
              /\ x.left # <<>> /\ Head(x.left) = "release"
           \/ Passed(x) = {"row", "open", "release"} /\ Now(x) = "release" /\ x.left = <<>>
<1>1. Steps(x.op) = <<"row", "open", "release">>
  BY DEF Steps
<1>2. \/ x.left = <<"row", "open", "release">>
      \/ x.left = <<"open", "release">>
      \/ x.left = <<"release">>
      \/ x.left = <<>>
  BY DEF Remainders
<1>3. CASE x.left = <<"row", "open", "release">>
  <2>1. Passed(x) = {}
    BY <1>1, <1>3 DEF Passed, Range
  <2>2. x.left # <<>> /\ Head(x.left) = "row"
    BY <1>1, <1>3 DEF Now
  <2> QED
    BY <2>1, <2>2
<1>4. CASE x.left = <<"open", "release">>
  <2>1. Passed(x) = {"row"}
    BY <1>1, <1>4 DEF Passed, Range
  <2>2. Now(x) = "row" /\ x.left # <<>> /\ Head(x.left) = "open"
    BY <1>1, <1>4 DEF Now
  <2> QED
    BY <2>1, <2>2
<1>5. CASE x.left = <<"release">>
  <2>1. Passed(x) = {"row", "open"}
    BY <1>1, <1>5 DEF Passed, Range
  <2>2. Now(x) = "open" /\ x.left # <<>> /\ Head(x.left) = "release"
    BY <1>1, <1>5 DEF Now
  <2> QED
    BY <2>1, <2>2
<1>6. CASE x.left = <<>>
  <2>1. Passed(x) = {"row", "open", "release"}
    BY <1>1, <1>6 DEF Passed, Range
  <2>2. Now(x) = "release" /\ x.left = <<>>
    BY <1>1, <1>6 DEF Now
  <2> QED
    BY <2>1, <2>2
<1> QED
  BY <1>2, <1>3, <1>4, <1>5, <1>6

\* So have a settlement and a voiding.
LEMMA FinalStages ==
    ASSUME NEW x, x.op \in {"settle", "void"}, x.left \in Remainders(x.op)
    PROVE  \/ Passed(x) = {} /\ x.left # <<>> /\ Head(x.left) = "advisory"
           \/ /\ Passed(x) = {"advisory"} /\ Now(x) = "advisory"
              /\ x.left # <<>> /\ Head(x.left) = "row"
           \/ /\ Passed(x) = {"advisory", "row"} /\ Now(x) = "row"
              /\ x.left # <<>> /\ Head(x.left) = "open"
           \/ /\ Passed(x) = {"advisory", "row", "open"} /\ Now(x) = "open"
              /\ x.left # <<>> /\ Head(x.left) = "release"
           \/ /\ Passed(x) = {"advisory", "row", "open", "release"} /\ Now(x) = "release"
              /\ x.left # <<>> /\ Head(x.left) = "rows"
           \/ /\ Passed(x) = {"advisory", "row", "open", "release", "rows"} /\ Now(x) = "rows"
              /\ x.left # <<>> /\ Head(x.left) = "pay"
           \/ /\ Passed(x) = {"advisory", "row", "open", "release", "rows", "pay"} /\ Now(x) = "pay"
              /\ x.left = <<>>
<1>1. Steps(x.op) = <<"advisory", "row", "open", "release", "rows", "pay">>
  BY DEF Steps
<1>2. \/ x.left = <<"advisory", "row", "open", "release", "rows", "pay">>
      \/ x.left = <<"row", "open", "release", "rows", "pay">>
      \/ x.left = <<"open", "release", "rows", "pay">>
      \/ x.left = <<"release", "rows", "pay">>
      \/ x.left = <<"rows", "pay">>
      \/ x.left = <<"pay">>
      \/ x.left = <<>>
  BY DEF Remainders
<1>3. CASE x.left = <<"advisory", "row", "open", "release", "rows", "pay">>
  <2>1. Passed(x) = {}
    BY <1>1, <1>3 DEF Passed, Range
  <2>2. x.left # <<>> /\ Head(x.left) = "advisory"
    BY <1>1, <1>3 DEF Now
  <2> QED
    BY <2>1, <2>2
<1>4. CASE x.left = <<"row", "open", "release", "rows", "pay">>
  <2>1. Passed(x) = {"advisory"}
    BY <1>1, <1>4 DEF Passed, Range
  <2>2. Now(x) = "advisory" /\ x.left # <<>> /\ Head(x.left) = "row"
    BY <1>1, <1>4 DEF Now
  <2> QED
    BY <2>1, <2>2
<1>5. CASE x.left = <<"open", "release", "rows", "pay">>
  <2>1. Passed(x) = {"advisory", "row"}
    BY <1>1, <1>5 DEF Passed, Range
  <2>2. Now(x) = "row" /\ x.left # <<>> /\ Head(x.left) = "open"
    BY <1>1, <1>5 DEF Now
  <2> QED
    BY <2>1, <2>2
<1>6. CASE x.left = <<"release", "rows", "pay">>
  <2>1. Passed(x) = {"advisory", "row", "open"}
    BY <1>1, <1>6 DEF Passed, Range
  <2>2. Now(x) = "open" /\ x.left # <<>> /\ Head(x.left) = "release"
    BY <1>1, <1>6 DEF Now
  <2> QED
    BY <2>1, <2>2
<1>7. CASE x.left = <<"rows", "pay">>
  <2>1. Passed(x) = {"advisory", "row", "open", "release"}
    BY <1>1, <1>7 DEF Passed, Range
  <2>2. Now(x) = "release" /\ x.left # <<>> /\ Head(x.left) = "rows"
    BY <1>1, <1>7 DEF Now
  <2> QED
    BY <2>1, <2>2
<1>8. CASE x.left = <<"pay">>
  <2>1. Passed(x) = {"advisory", "row", "open", "release", "rows"}
    BY <1>1, <1>8 DEF Passed, Range
  <2>2. Now(x) = "rows" /\ x.left # <<>> /\ Head(x.left) = "pay"
    BY <1>1, <1>8 DEF Now
  <2> QED
    BY <2>1, <2>2
<1>9. CASE x.left = <<>>
  <2>1. Passed(x) = {"advisory", "row", "open", "release", "rows", "pay"}
    BY <1>1, <1>9 DEF Passed, Range
  <2>2. Now(x) = "pay" /\ x.left = <<>>
    BY <1>1, <1>9 DEF Now
  <2> QED
    BY <2>1, <2>2
<1> QED
  BY <1>2, <1>3, <1>4, <1>5, <1>6, <1>7, <1>8, <1>9

\* Entering a step moves it from what is left to what is passed.
LEMMA StepEntered ==
    ASSUME NEW x, x.op \in Op, x.left \in Remainders(x.op), x.left # <<>>,
           NEW y, y.op = x.op, y.left = Tail(x.left)
    PROVE  /\ y.left \in Remainders(y.op)
           /\ Passed(y) = Passed(x) \cup {Head(x.left)}
           /\ Now(y) = Head(x.left)
<1>1. CASE x.op = "place"
  <2>1. Steps(x.op) = <<"wallet", "advisory", "book", "match">>
    BY <1>1 DEF Steps
  <2>2. Remainders(x.op) =
            {<<"wallet", "advisory", "book", "match">>, <<"advisory", "book", "match">>,
             <<"book", "match">>, <<"match">>, <<>>}
    BY <1>1 DEF Remainders
  <2>3. CASE x.left = <<"wallet", "advisory", "book", "match">>
    BY <2>1, <2>2, <2>3 DEF Passed, Now, Range
  <2>4. CASE x.left = <<"advisory", "book", "match">>
    BY <2>1, <2>2, <2>4 DEF Passed, Now, Range
  <2>5. CASE x.left = <<"book", "match">>
    BY <2>1, <2>2, <2>5 DEF Passed, Now, Range
  <2>6. CASE x.left = <<"match">>
    BY <2>1, <2>2, <2>6 DEF Passed, Now, Range
  <2> QED
    BY <2>2, <2>3, <2>4, <2>5, <2>6
<1>2. CASE x.op = "cancel"
  <2>1. /\ Steps(x.op) = <<"order", "refund">>
        /\ Remainders(x.op) = {<<"order", "refund">>, <<"refund">>, <<>>}
    BY <1>2 DEF Steps, Remainders
  <2>2. CASE x.left = <<"order", "refund">>
    BY <2>1, <2>2 DEF Passed, Now, Range
  <2>3. CASE x.left = <<"refund">>
    BY <2>1, <2>3 DEF Passed, Now, Range
  <2> QED
    BY <2>1, <2>2, <2>3
<1>3. CASE x.op = "close"
  <2>1. /\ Steps(x.op) = <<"row", "open", "release">>
        /\ Remainders(x.op) =
              {<<"row", "open", "release">>, <<"open", "release">>, <<"release">>, <<>>}
    BY <1>3 DEF Steps, Remainders
  <2>2. CASE x.left = <<"row", "open", "release">>
    BY <2>1, <2>2 DEF Passed, Now, Range
  <2>3. CASE x.left = <<"open", "release">>
    BY <2>1, <2>3 DEF Passed, Now, Range
  <2>4. CASE x.left = <<"release">>
    BY <2>1, <2>4 DEF Passed, Now, Range
  <2> QED
    BY <2>1, <2>2, <2>3, <2>4
<1>4. CASE x.op \in {"settle", "void"}
  <2>1. Steps(x.op) = <<"advisory", "row", "open", "release", "rows", "pay">>
    BY <1>4 DEF Steps
  <2>2. Remainders(x.op) =
            {<<"advisory", "row", "open", "release", "rows", "pay">>,
             <<"row", "open", "release", "rows", "pay">>,
             <<"open", "release", "rows", "pay">>, <<"release", "rows", "pay">>,
             <<"rows", "pay">>, <<"pay">>, <<>>}
    BY <1>4 DEF Remainders
  <2>3. CASE x.left = <<"advisory", "row", "open", "release", "rows", "pay">>
    BY <2>1, <2>2, <2>3 DEF Passed, Now, Range
  <2>4. CASE x.left = <<"row", "open", "release", "rows", "pay">>
    BY <2>1, <2>2, <2>4 DEF Passed, Now, Range
  <2>5. CASE x.left = <<"open", "release", "rows", "pay">>
    BY <2>1, <2>2, <2>5 DEF Passed, Now, Range
  <2>6. CASE x.left = <<"release", "rows", "pay">>
    BY <2>1, <2>2, <2>6 DEF Passed, Now, Range
  <2>7. CASE x.left = <<"rows", "pay">>
    BY <2>1, <2>2, <2>7 DEF Passed, Now, Range
  <2>8. CASE x.left = <<"pay">>
    BY <2>1, <2>2, <2>8 DEF Passed, Now, Range
  <2> QED
    BY <2>2, <2>3, <2>4, <2>5, <2>6, <2>7, <2>8
<1> QED
  BY <1>1, <1>2, <1>3, <1>4 DEF Op

\* What is left of the steps is of them.
LEMMA LeftRange ==
    ASSUME NEW op \in Op, NEW l \in Remainders(op)
    PROVE  Range(l) \subseteq Range(Steps(op))
<1>1. CASE op \in {"place"}
  BY <1>1 DEF Remainders, Steps, Range
<1>2. CASE op \in {"cancel"}
  BY <1>2 DEF Remainders, Steps, Range
<1>3. CASE op \in {"close"}
  BY <1>3 DEF Remainders, Steps, Range
<1>4. CASE op \in {"settle", "void"}
  BY <1>4 DEF Remainders, Steps, Range
<1> QED
  BY <1>1, <1>2, <1>3, <1>4 DEF Op

\* Which transactions take a step.
LEMMA StepOwners ==
    ASSUME NEW x, Proper(x), x.left # <<>>
    PROVE  /\ Head(x.left) \in {"wallet", "book", "match"} => x.op = "place"
           /\ Head(x.left) \in {"order", "refund"} => x.op = "cancel"
           /\ Head(x.left) \in {"open", "release", "row"} => x.op \in {"close", "settle", "void"}
           /\ Head(x.left) = "advisory" => x.op \in {"place", "settle", "void"}
           /\ Head(x.left) \in {"rows", "pay"} => x.op \in {"settle", "void"}
           /\ Head(x.left) \in {"wallet", "book", "match", "order", "refund", "open", "release",
                                "row", "advisory", "rows", "pay"}
<1>1. x.op \in Op /\ x.left \in Remainders(x.op)
  BY DEF Proper, Run
<1>2. CASE x.op \in {"place"}
  <2>1. Head(x.left) \in {"wallet", "advisory", "book", "match"}
    BY <1>1, <1>2, PlaceStages
  <2> QED
    BY <1>2, <2>1
<1>3. CASE x.op \in {"cancel"}
  <2>1. Head(x.left) \in {"order", "refund"}
    BY <1>1, <1>3, CancelStages
  <2> QED
    BY <1>3, <2>1
<1>4. CASE x.op \in {"close"}
  <2>1. Head(x.left) \in {"row", "open", "release"}
    BY <1>1, <1>4, CloseStages
  <2> QED
    BY <1>4, <2>1
<1>5. CASE x.op \in {"settle", "void"}
  <2>1. Head(x.left) \in {"advisory", "row", "open", "release", "rows", "pay"}
    BY <1>1, <1>5, FinalStages
  <2> QED
    BY <1>5, <2>1
<1> QED
  BY <1>1, <1>2, <1>3, <1>4, <1>5 DEF Op

-----------------------------------------------------------------------------
(* Locks *)

\* There are four kinds of locks, and each is the lock of one thing.
LEMMA LockKinds ==
    /\ \A k \in Locks :
          /\ k.kind \in {"advisory", "row", "wallet", "order"}
          /\ k.kind = "advisory" => k.market \in Markets /\ k = Advisory(k.market)
          /\ k.kind = "row" => k.market \in Markets /\ k = Row(k.market)
          /\ k.kind = "wallet" => k.user \in Users /\ k = Wallet(k.user)
          /\ k.kind = "order" => k.order \in Orders /\ k = OrderRow(k.order)
    /\ \A m \in Markets :
          /\ Advisory(m) \in Locks /\ Advisory(m).kind = "advisory" /\ Advisory(m).market = m
          /\ Row(m) \in Locks /\ Row(m).kind = "row" /\ Row(m).market = m
    /\ \A u \in Users : Wallet(u) \in Locks /\ Wallet(u).kind = "wallet"
    /\ \A o \in Orders :
          OrderRow(o) \in Locks /\ OrderRow(o).kind = "order" /\ OrderRow(o).order = o
<1>1. ASSUME NEW k \in Locks
      PROVE  /\ k.kind \in {"advisory", "row", "wallet", "order"}
             /\ k.kind = "advisory" => k.market \in Markets /\ k = Advisory(k.market)
             /\ k.kind = "row" => k.market \in Markets /\ k = Row(k.market)
             /\ k.kind = "wallet" => k.user \in Users /\ k = Wallet(k.user)
             /\ k.kind = "order" => k.order \in Orders /\ k = OrderRow(k.order)
  <2>1. CASE \E m \in Markets : k = Advisory(m)
    BY <2>1 DEF Advisory
  <2>2. CASE \E m \in Markets : k = Row(m)
    BY <2>2 DEF Row
  <2>3. CASE \E u \in Users : k = Wallet(u)
    BY <2>3 DEF Wallet
  <2>4. CASE \E o \in Orders : k = OrderRow(o)
    BY <2>4 DEF OrderRow
  <2> QED
    BY <2>1, <2>2, <2>3, <2>4 DEF Locks
<1>2. \A m \in Markets :
          /\ Advisory(m) \in Locks /\ Advisory(m).kind = "advisory" /\ Advisory(m).market = m
          /\ Row(m) \in Locks /\ Row(m).kind = "row" /\ Row(m).market = m
  BY DEF Locks, Advisory, Row
<1>3. \A u \in Users : Wallet(u) \in Locks /\ Wallet(u).kind = "wallet"
  BY DEF Locks, Wallet
<1>4. \A o \in Orders :
          OrderRow(o) \in Locks /\ OrderRow(o).kind = "order" /\ OrderRow(o).order = o
  BY DEF Locks, OrderRow
<1> QED
  BY <1>1, <1>2, <1>3, <1>4

Wallets == {k \in Locks : k.kind = "wallet"}

\* The wallets of a posting are wallets of users.
LEMMA WalletSeqs ==
    /\ \A u, v \in Users : Both(u, v) \in Seq(Wallets)
    /\ \A s \in Seq(Orders) : Owners(s) \in Seq(Wallets)
<1>1. \A u \in Users : Wallet(u) \in Wallets
  BY LockKinds DEF Wallets
<1>2. \A u, v \in Users : Both(u, v) \in Seq(Wallets)
  BY <1>1 DEF Both
<1>3. ASSUME NEW s \in Seq(Orders) PROVE Owners(s) \in Seq(Wallets)
  <2>1. Len(s) \in Nat /\ \A i \in 1 .. Len(s) : s[i] \in Orders
    BY LenProperties
  <2>2. \A i \in 1 .. Len(s) : Wallet(s[i].user) \in Wallets
    BY <1>1, <2>1, LockLadderAssumption
  <2> QED
    BY <2>1, <2>2 DEF Owners
<1> QED
  BY <1>2, <1>3

\* A transaction has its market and, if it is about an order, the order's owner.
LEMMA RunMarket ==
    ASSUME NEW x, Proper(x)
    PROVE  /\ MarketOf(x) \in Markets
           /\ x.op \in {"place", "cancel"} =>
                x.on \in Orders /\ x.on.user \in Users /\ MarketOf(x) = x.on.market
           /\ x.op \in {"close", "settle", "void"} => x.on \in Markets /\ MarketOf(x) = x.on
<1>1. /\ x.op \in Op
      /\ x.op \in {"place", "cancel"} => x.on \in Orders
      /\ x.op \in {"close", "settle", "void"} => x.on \in Markets
  BY DEF Proper, Run, Op
<1>2. x.on \in Orders => x.on.user \in Users /\ x.on.market \in Markets
  BY LockLadderAssumption
<1> QED
  BY <1>1, <1>2 DEF MarketOf, Op

\* What a step finds are orders of the market, in their sequence when it locks
\* them, and after that those that are open of the orders found before.
LEMMA FoundFacts ==
    ASSUME BaseInv, NEW x, Proper(x), Range(x.found) \subseteq In(MarketOf(x), placed),
           x.left # <<>>, NEW f \in Found(x, Head(x.left))
    PROVE  /\ f \in Seq(Orders)
           /\ Range(f) \subseteq In(MarketOf(x), placed)
           /\ Head(x.left) \in {"match", "release"} => Range(f) \subseteq Range(x.found) \cap open
           /\ Head(x.left) = "open" => Range(f) = In(MarketOf(x), open)
           /\ Head(x.left) \notin {"book", "open", "rows", "match", "release"} => Range(f) = {}
           /\ Head(x.left) \in {"book", "open"} =>
                \A i, j \in 1 .. Len(f) : i < j => f[i].seq < f[j].seq
<1> DEFINE s == Head(x.left)
           m == MarketOf(x)
           live == Live(x.found)
<1>1. /\ open \subseteq placed /\ placed \subseteq Orders
      /\ In(m, open) \in SUBSET Orders /\ In(m, placed) \in SUBSET Orders
      /\ Resting(x.on) \in SUBSET Orders
      /\ Range(x.found) \cap open \in SUBSET Orders
      /\ In(m, open) \subseteq In(m, placed)
  BY DEF BaseInv, In, Resting
<1>2. live \in Seq(Orders) /\ Range(live) = Range(x.found) \cap open
  <2>1. live \in Seq(Range(x.found) \cap open) /\ Range(live) = Range(x.found) \cap open
    BY <1>1, InOrderFacts DEF Live
  <2> QED
    BY <1>1, <2>1, LenProperties
<1>3. CASE s = "book"
  <2>1. x.op = "place" /\ m = x.on.market
    BY <1>3, StepOwners, RunMarket
  <2>2. f = InOrder(Resting(x.on))
    BY <1>3 DEF Found, Book
  <2>3. f \in Seq(Resting(x.on)) /\ Range(f) = Resting(x.on)
        /\ \A i, j \in 1 .. Len(f) : i < j => f[i].seq < f[j].seq
    BY <1>1, <2>2, InOrderFacts
  <2>4. f \in Seq(Orders)
    BY <1>1, <2>3, LenProperties
  <2>5. Resting(x.on) \subseteq In(m, placed)
    BY <1>1, <2>1 DEF Resting, In
  <2> QED
    BY <1>3, <2>3, <2>4, <2>5
<1>4. CASE s = "open"
  <2>1. f = InOrder(In(m, open))
    BY <1>4 DEF Found
  <2>2. f \in Seq(In(m, open)) /\ Range(f) = In(m, open)
        /\ \A i, j \in 1 .. Len(f) : i < j => f[i].seq < f[j].seq
    BY <1>1, <2>1, InOrderFacts
  <2>3. f \in Seq(Orders)
    BY <1>1, <2>2, LenProperties
  <2> QED
    BY <1>1, <1>4, <2>2, <2>3
<1>5. CASE s = "rows"
  <2>1. f = InOrder(In(m, placed))
    BY <1>5 DEF Found
  <2>2. f \in Seq(In(m, placed)) /\ Range(f) = In(m, placed)
    BY <1>1, <2>1, InOrderFacts
  <2>3. f \in Seq(Orders)
    BY <1>1, <2>2, LenProperties
  <2> QED
    BY <1>1, <1>5, <2>2, <2>3
<1>6. CASE s = "match"
  <2>1. PICK n \in 0 .. Len(live) : f = SubSeq(live, 1, n)
    BY <1>6 DEF Found
  <2>2. f \in Seq(Orders) /\ Len(f) = n /\ \A i \in 1 .. n : f[i] = live[i]
    BY <1>2, <2>1, LenProperties
  <2>3. Range(f) \subseteq Range(live)
    BY <1>2, <2>2, SeqRange
  <2> QED
    BY <1>1, <1>2, <1>6, <2>2, <2>3
<1>7. CASE s = "release"
  BY <1>1, <1>2, <1>7 DEF Found
<1>8. CASE s \notin {"book", "open", "rows", "match", "release"}
  <2>1. f = <<>>
    BY <1>8 DEF Found
  <2>2. Range(f) = {}
    BY <2>1 DEF Range
  <2> QED
    BY <1>8, <2>1, <2>2
<1> QED
  BY <1>3, <1>4, <1>5, <1>6, <1>7, <1>8

\* The rows of orders are locked in the orders' sequence.
LEMMA RowsOfFacts ==
    ASSUME NEW f \in Seq(Orders)
    PROVE  /\ RowsOf(f) \in Seq(Locks) /\ Len(RowsOf(f)) = Len(f)
           /\ \A i \in 1 .. Len(f) : RowsOf(f)[i] = OrderRow(f[i])
           /\ \A k \in Range(RowsOf(f)) : \E o \in Range(f) : k = OrderRow(o)
           /\ \A o \in Range(f) : OrderRow(o) \in Range(RowsOf(f))
<1>1. Len(f) \in Nat /\ \A i \in 1 .. Len(f) : f[i] \in Orders
  BY LenProperties
<1>2. \A i \in 1 .. Len(f) : OrderRow(f[i]) \in Locks
  BY <1>1, LockKinds
<1>3. /\ RowsOf(f) \in Seq(Locks) /\ Len(RowsOf(f)) = Len(f)
      /\ \A i \in 1 .. Len(f) : RowsOf(f)[i] = OrderRow(f[i])
  BY <1>1, <1>2 DEF RowsOf
<1>4. \A k \in Range(RowsOf(f)) : \E o \in Range(f) : k = OrderRow(o)
  <2> SUFFICES ASSUME NEW k \in Range(RowsOf(f)) PROVE \E o \in Range(f) : k = OrderRow(o)
    OBVIOUS
  <2>1. PICK i \in 1 .. Len(f) : k = RowsOf(f)[i]
    BY <1>3, SeqRange
  <2>2. k = OrderRow(f[i]) /\ f[i] \in Range(f)
    BY <1>3, <2>1, SeqRange
  <2> QED
    BY <2>2
<1>5. \A o \in Range(f) : OrderRow(o) \in Range(RowsOf(f))
  <2> SUFFICES ASSUME NEW o \in Range(f) PROVE OrderRow(o) \in Range(RowsOf(f))
    OBVIOUS
  <2>1. PICK i \in 1 .. Len(f) : o = f[i]
    BY SeqRange
  <2>2. OrderRow(o) = RowsOf(f)[i] /\ i \in 1 .. Len(RowsOf(f))
    BY <1>3, <2>1
  <2> QED
    BY <1>3, <2>2, SeqRange
<1> QED
  BY <1>3, <1>4, <1>5

\* The wallets that a placement, a settlement or a voiding posts to.
LEMMA PostingFacts ==
    ASSUME BaseInv, NEW m \in Markets
    PROVE  /\ \A u \in Users : \A f \in Seq(Orders) :
                FlattenSeq([i \in 1 .. Len(f) |-> Both(u, f[i].user)]) \in Seq(Wallets)
           /\ \A c : Owners(Winners(m, c)) \in Seq(Wallets)
           /\ FlattenSeq([i \in 1 .. Len(pairs[m]) |->
                  Both(pairs[m][i][1].user, pairs[m][i][2].user)]) \in Seq(Wallets)
<1>1. /\ \A o \in Orders : o.user \in Users
      /\ In(m, placed) \subseteq Orders
  BY LockLadderAssumption DEF BaseInv, In
<1>2. /\ Len(pairs[m]) \in Nat
      /\ \A i \in 1 .. Len(pairs[m]) : pairs[m][i] \in In(m, placed) \X In(m, placed)
  <2> DEFINE P == In(m, placed) \X In(m, placed)
  <2>1. pairs[m] \in Seq(P)
    BY DEF BaseInv
  <2> HIDE DEF P
  <2>2. Len(pairs[m]) \in Nat /\ \A i \in 1 .. Len(pairs[m]) : pairs[m][i] \in P
    BY <2>1, LenProperties
  <2> QED
    BY <2>2 DEF P
<1>3. \A i \in 1 .. Len(pairs[m]) : pairs[m][i][1] \in Orders /\ pairs[m][i][2] \in Orders
  BY <1>1, <1>2
<1>4. ASSUME NEW u \in Users, NEW f \in Seq(Orders)
      PROVE  FlattenSeq([i \in 1 .. Len(f) |-> Both(u, f[i].user)]) \in Seq(Wallets)
  <2>1. Len(f) \in Nat /\ \A i \in 1 .. Len(f) : f[i].user \in Users
    BY <1>1, LenProperties
  <2>2. \A i \in 1 .. Len(f) : Both(u, f[i].user) \in Seq(Wallets)
    BY <2>1, WalletSeqs
  <2>3. [i \in 1 .. Len(f) |-> Both(u, f[i].user)] \in Seq(Seq(Wallets))
    BY <2>1, <2>2
  <2> QED
    BY <2>3, FlattenType
<1>5. ASSUME NEW c PROVE Owners(Winners(m, c)) \in Seq(Wallets)
  <2>1. Winners(m, c) \in Seq(Orders)
    BY <1>2, <1>3 DEF Winners
  <2> QED
    BY <2>1, WalletSeqs
<1>6. FlattenSeq([i \in 1 .. Len(pairs[m]) |->
          Both(pairs[m][i][1].user, pairs[m][i][2].user)]) \in Seq(Wallets)
  <2>1. \A i \in 1 .. Len(pairs[m]) :
            Both(pairs[m][i][1].user, pairs[m][i][2].user) \in Seq(Wallets)
    BY <1>1, <1>3, WalletSeqs
  <2>2. [i \in 1 .. Len(pairs[m]) |-> Both(pairs[m][i][1].user, pairs[m][i][2].user)]
            \in Seq(Seq(Wallets))
    BY <1>2, <2>1
  <2> QED
    BY <2>2, FlattenType
<1> QED
  BY <1>4, <1>5, <1>6

\* A step acquires locks of its kind, in its market, and those that it is for.
LEMMA NeedFacts ==
    ASSUME BaseInv, NEW x, Proper(x), x.left # <<>>,
           NEW f \in Seq(Orders), Range(f) \subseteq In(MarketOf(x), placed),
           NEW n \in Needs(x, Head(x.left), f)
    PROVE  /\ n \in Seq(Locks)
           /\ \A k \in Range(n) :
                /\ k \in Locks /\ k.kind = Kind(Head(x.left))
                /\ k.kind \in {"advisory", "row"} => k.market = MarketOf(x)
                /\ k.kind = "order" => k.order.market = MarketOf(x)
                /\ x.op = "cancel" => k \in {OrderRow(x.on), Wallet(x.on.user)}
           /\ Head(x.left) = "advisory" => Advisory(MarketOf(x)) \in Range(n)
           /\ Head(x.left) = "row" => Row(MarketOf(x)) \in Range(n)
           /\ Head(x.left) = "order" => OrderRow(x.on) \in Range(n)
           /\ Head(x.left) \in {"book", "open", "rows"} => n = RowsOf(f)
<1> DEFINE s == Head(x.left)
           m == MarketOf(x)
<1>1. m \in Markets
  BY RunMarket
<1>2. \A k : Range(<<k>>) = {k}
  BY DEF Range
<1>3. CASE s \in {"wallet", "refund"}
  <2>1. x.op \in {"place", "cancel"} /\ n = <<Wallet(x.on.user)>> /\ x.on.user \in Users
    BY <1>3, StepOwners, RunMarket DEF Needs
  <2> QED
    BY <1>2, <1>3, <2>1, LockKinds DEF Kind
<1>4. CASE s = "order"
  <2>1. x.op = "cancel" /\ n = <<OrderRow(x.on)>> /\ x.on \in Orders /\ m = x.on.market
    BY <1>4, StepOwners, RunMarket DEF Needs
  <2> QED
    BY <1>2, <1>4, <2>1, LockKinds DEF Kind
<1>5. CASE s = "advisory"
  <2>1. x.op # "cancel" /\ n = <<Advisory(m)>>
    BY <1>5, StepOwners DEF Needs
  <2> QED
    BY <1>1, <1>2, <1>5, <2>1, LockKinds DEF Kind
<1>6. CASE s = "row"
  <2>1. x.op # "cancel" /\ n = <<Row(m)>>
    BY <1>6, StepOwners DEF Needs
  <2> QED
    BY <1>1, <1>2, <1>6, <2>1, LockKinds DEF Kind
<1>7. CASE s \in {"book", "open", "rows"}
  <2>1. x.op # "cancel" /\ n = RowsOf(f)
    BY <1>7, StepOwners DEF Needs
  <2>2. Range(f) \subseteq Orders /\ \A o \in Range(f) : o.market = m
    BY SeqRange DEF In
  <2>3. n \in Seq(Locks) /\ \A k \in Range(n) : \E o \in Range(f) : k = OrderRow(o)
    BY <2>1, RowsOfFacts
  <2>4. Kind(s) = "order"
    BY <1>7 DEF Kind
  <2>5. \A k \in Range(n) : k \in Locks /\ k.kind = "order" /\ k.order.market = m
    BY <2>2, <2>3, LockKinds
  <2> QED
    BY <1>7, <2>1, <2>3, <2>4, <2>5
<1>8. CASE s \in {"match", "release", "pay"}
  <2>1. x.op # "cancel"
    BY <1>8, StepOwners
  <2>2. n \in Seq(Wallets)
    <3>1. CASE s = "match"
      <4>1. x.on.user \in Users
        BY <3>1, StepOwners, RunMarket
      <4> QED
        BY <1>1, <3>1, <4>1, PostingFacts DEF Needs
    <3>2. CASE s = "release"
      BY <3>2, WalletSeqs DEF Needs
    <3>3. CASE s = "pay" /\ x.op = "settle"
      <4>1. \E c : n = Owners(Winners(m, c))
        BY <3>3 DEF Needs
      <4> QED
        BY <1>1, <4>1, PostingFacts
    <3>4. CASE s = "pay" /\ x.op # "settle"
      BY <1>1, <3>4, PostingFacts DEF Needs
    <3> QED
      BY <1>8, <3>1, <3>2, <3>3, <3>4
  <2>3. Range(n) \subseteq Wallets
    BY <2>2, SeqRange
  <2>4. n \in Seq(Locks)
    BY <2>2, LenProperties DEF Wallets
  <2>5. Kind(s) = "wallet"
    BY <1>8 DEF Kind
  <2> QED
    BY <1>8, <2>1, <2>3, <2>4, <2>5 DEF Wallets
<1> QED
  BY <1>3, <1>4, <1>5, <1>6, <1>7, <1>8, StepOwners
-----------------------------------------------------------------------------
(* What each transaction has *)

Has(t, k) == k \in Keys(txn[t], Held(t))

\* A lock is held by one transaction.
LEMMA HeldByOne ==
    ASSUME NEW t, NEW u, NEW k, k \in Held(t), k \in Held(u)
    PROVE  t = u
  BY DEF Held

\* When a step is entered, what the transaction has it holds, and it adds what
\* the step acquires.
LEMMA EnterKeepsLaw ==
    ASSUME BaseInv, NEW x, NEW H, Lawful(x, H), Range(x.found) \subseteq In(MarketOf(x), placed),
           H \subseteq Locks, x.need = <<>>, x.left # <<>>,
           NEW f \in Found(x, Head(x.left)), NEW n \in Needs(x, Head(x.left), f),
           NEW y, y = [x EXCEPT !.left = Tail(@), !.need = n, !.found = f]
    PROVE  /\ Lawful(y, H)
           /\ Range(y.found) \subseteq In(MarketOf(y), placed)
<1> DEFINE s == Head(x.left)
           m == MarketOf(x)
<1>1. /\ Proper(x) /\ x \in Run /\ x.op \in Op /\ x.left \in Remainders(x.op)
      /\ x.on \in (IF x.op \in {"place", "cancel"} THEN Orders ELSE Markets)
  BY DEF Lawful, Proper, Run
<1>2. /\ f \in Seq(Orders)
      /\ Range(f) \subseteq In(m, placed)
      /\ s \in {"match", "release"} => Range(f) \subseteq Range(x.found)
      /\ s \notin {"book", "open", "rows", "match", "release"} => Range(f) = {}
      /\ s \in {"book", "open"} => \A i, j \in 1 .. Len(f) : i < j => f[i].seq < f[j].seq
  BY <1>1, FoundFacts
<1>3. /\ n \in Seq(Locks)
      /\ \A k \in Range(n) :
            /\ k \in Locks /\ k.kind = Kind(s)
            /\ k.kind \in {"advisory", "row"} => k.market = m
            /\ k.kind = "order" => k.order.market = m
            /\ x.op = "cancel" => k \in {OrderRow(x.on), Wallet(x.on.user)}
      /\ s = "advisory" => Advisory(m) \in Range(n)
      /\ s = "row" => Row(m) \in Range(n)
      /\ s = "order" => OrderRow(x.on) \in Range(n)
      /\ s \in {"book", "open", "rows"} => n = RowsOf(f)
  BY <1>1, <1>2, NeedFacts
<1>4. /\ y.op = x.op /\ y.on = x.on /\ y.attempt = x.attempt
      /\ y.left = Tail(x.left) /\ y.need = n /\ y.found = f
      /\ y = [op |-> x.op, on |-> x.on, attempt |-> x.attempt,
              left |-> y.left, need |-> n, found |-> f]
  BY <1>1 DEF Run
<1>5. /\ y.left \in Remainders(y.op)
      /\ Passed(y) = Passed(x) \cup {s}
      /\ Now(y) = s
  BY <1>1, <1>4, StepEntered
<1>6. MarketOf(y) = m
  BY <1>4 DEF MarketOf
<1>7. Keys(x, H) = H /\ Keys(y, H) = H \cup Range(n)
  BY <1>4 DEF Keys, Range
<1>8. Proper(y)
  <2>1. x.attempt \in 1 .. Attempts /\ x.on \in Orders \cup Markets
    BY <1>1 DEF Run
  <2>2. y.left \in UNION {Remainders(op) : op \in Op}
    BY <1>1, <1>4, <1>5
  <2>3. y \in Run
    BY <1>1, <1>2, <1>3, <1>4, <2>1, <2>2 DEF Run
  <2> QED
    BY <1>1, <1>4, <1>5, <2>3 DEF Proper
<1>9. \A k \in Range(y.need) : k.kind = Kind(Now(y))
  BY <1>3, <1>4, <1>5
<1>10. \A k \in Keys(y, H) : Fits(y, k)
  <2>1. \A k \in H : Fits(x, k)
    BY <1>7 DEF Lawful
  <2> QED
    BY <1>3, <1>4, <1>5, <1>6, <1>7, <2>1 DEF Fits
<1>11. Secures(y, H)
  <2>1. Secures(x, H)
    BY DEF Lawful
  <2>2. ASSUME NEW o \in Range(f) PROVE OrderRow(o) \in H \cup Range(n)
    <3>1. CASE s \in {"match", "release"}
      BY <1>2, <1>7, <2>1, <3>1 DEF Secures
    <3>2. CASE s \in {"book", "open", "rows"}
      BY <1>2, <1>3, <3>2, RowsOfFacts
    <3> QED
      BY <1>2, <3>1, <3>2
  <2>3. /\ "advisory" \in Passed(y) => Advisory(m) \in H \cup Range(n)
        /\ "row" \in Passed(y) => Row(m) \in H \cup Range(n)
        /\ "order" \in Passed(y) => OrderRow(x.on) \in H \cup Range(n)
    BY <1>3, <1>5, <1>7, <2>1 DEF Secures
  <2> QED
    BY <1>4, <1>6, <1>7, <2>2, <2>3 DEF Secures
<1>12. Ascends(y, H)
  <2> SUFFICES ASSUME x.op \in {"place", "close"},
                      NEW j \in 1 .. Len(n), n[j].kind = "order"
               PROVE  /\ \A i \in 1 .. j - 1 : n[i].order.seq < n[j].order.seq
                      /\ \A k \in H : k.kind = "order" => k.order.seq < n[j].order.seq
    BY <1>4 DEF Ascends
  <2>1. Kind(s) = "order"
    BY <1>3, SeqRange
  <2>2. s \in {"book", "open"}
    BY <1>1, <2>1, StepOwners DEF Kind
  <2>3. \A k \in H : k.kind # "order"
    <3>1. Passed(x) \subseteq {"wallet", "advisory", "row"}
      <4>1. CASE x.op \in {"place"}
        BY <1>1, <2>2, <4>1, PlaceStages
      <4>2. CASE x.op \in {"close"}
        BY <1>1, <2>2, <4>2, CloseStages
      <4> QED
        BY <4>1, <4>2
    <3>2. \A k \in H : \E p \in Passed(x) : k.kind = Kind(p)
      BY <1>7 DEF Lawful, Fits
    <3> QED
      BY <3>1, <3>2 DEF Kind
  <2>4. /\ Len(n) = Len(f) /\ \A i \in 1 .. Len(f) : n[i] = OrderRow(f[i])
        /\ \A i \in 1 .. Len(f) : f[i] \in Orders
        /\ Len(f) \in Nat
    BY <1>2, <1>3, <2>2, RowsOfFacts, LenProperties
  <2>5. \A i \in 1 .. Len(f) : n[i].order = f[i]
    BY <2>4, LockKinds
  <2>6. \A i \in 1 .. j - 1 : i \in 1 .. Len(f) /\ i < j
    BY <2>4
  <2> QED
    BY <1>2, <2>2, <2>3, <2>4, <2>5, <2>6
<1> QED
  BY <1>2, <1>4, <1>6, <1>8, <1>9, <1>10, <1>11, <1>12 DEF Lawful

\* A lock that is granted moves from what the transaction needs to what it holds.
LEMMA AcquireKeepsLaw ==
    ASSUME NEW x, NEW H, Lawful(x, H), x.need # <<>>,
           NEW y, y = [x EXCEPT !.need = Tail(@)]
    PROVE  /\ Lawful(y, H \cup {Head(x.need)})
           /\ MarketOf(y) = MarketOf(x) /\ y.found = x.found
<1> DEFINE k0 == Head(x.need)
<1>1. /\ Proper(x) /\ x \in Run /\ x.op \in Op /\ x.left \in Remainders(x.op)
      /\ x.need \in Seq(Locks)
      /\ x.on \in (IF x.op \in {"place", "cancel"} THEN Orders ELSE Markets)
  BY DEF Lawful, Proper, Run
<1>2. /\ Len(x.need) \in Nat \ {0} /\ k0 = x.need[1] /\ Tail(x.need) \in Seq(Locks)
      /\ Len(Tail(x.need)) = Len(x.need) - 1
      /\ \A i \in 1 .. Len(Tail(x.need)) : Tail(x.need)[i] = x.need[i + 1]
  BY <1>1, LenProperties, HeadTailProperties
<1>3. Range(x.need) = {k0} \cup Range(Tail(x.need))
  <2>1. /\ \A i \in 1 .. Len(x.need) : x.need[i] \in Range(x.need)
        /\ \A k \in Range(x.need) : \E i \in 1 .. Len(x.need) : k = x.need[i]
        /\ \A i \in 1 .. Len(Tail(x.need)) : Tail(x.need)[i] \in Range(Tail(x.need))
        /\ \A k \in Range(Tail(x.need)) : \E i \in 1 .. Len(Tail(x.need)) : k = Tail(x.need)[i]
    BY <1>1, <1>2, SeqRange
  <2>2. k0 \in Range(x.need)
    BY <1>2, <2>1
  <2>3. ASSUME NEW k \in Range(Tail(x.need)) PROVE k \in Range(x.need)
    <3>1. PICK i \in 1 .. Len(Tail(x.need)) : k = Tail(x.need)[i]
      BY <2>1
    <3>2. i + 1 \in 1 .. Len(x.need) /\ k = x.need[i + 1]
      BY <1>2, <3>1
    <3> QED
      BY <2>1, <3>2
  <2>4. ASSUME NEW k \in Range(x.need), k # k0 PROVE k \in Range(Tail(x.need))
    <3>1. PICK i \in 1 .. Len(x.need) : k = x.need[i]
      BY <2>1
    <3>2. i - 1 \in 1 .. Len(Tail(x.need)) /\ Tail(x.need)[i - 1] = x.need[(i - 1) + 1]
          /\ (i - 1) + 1 = i
      BY <1>2, <2>4, <3>1
    <3> QED
      BY <2>1, <3>1, <3>2
  <2> QED
    BY <2>2, <2>3, <2>4
<1>4. /\ y.op = x.op /\ y.on = x.on /\ y.attempt = x.attempt
      /\ y.left = x.left /\ y.need = Tail(x.need) /\ y.found = x.found
  BY <1>1 DEF Run
<1>5. Passed(y) = Passed(x) /\ Now(y) = Now(x) /\ MarketOf(y) = MarketOf(x)
  BY <1>4 DEF Passed, Now, MarketOf
<1>6. Keys(y, H \cup {k0}) = Keys(x, H)
  BY <1>3, <1>4 DEF Keys
<1>7. Proper(y)
  <2>1. y \in Run
    BY <1>1, <1>2 DEF Run
  <2> QED
    BY <1>1, <1>4, <2>1 DEF Proper
<1>8. \A k \in Range(y.need) : k.kind = Kind(Now(y))
  BY <1>3, <1>4, <1>5 DEF Lawful
<1>9. \A k \in Keys(y, H \cup {k0}) : Fits(y, k)
  BY <1>4, <1>5, <1>6 DEF Lawful, Fits
<1>10. Secures(y, H \cup {k0})
  BY <1>4, <1>5, <1>6 DEF Lawful, Secures
<1>11. Ascends(y, H \cup {k0})
  <2> SUFFICES ASSUME x.op \in {"place", "close"},
                      NEW j \in 1 .. Len(Tail(x.need)), Tail(x.need)[j].kind = "order"
               PROVE  /\ \A i \in 1 .. j - 1 : Tail(x.need)[i].order.seq < Tail(x.need)[j].order.seq
                      /\ \A k \in H \cup {k0} :
                            k.kind = "order" => k.order.seq < Tail(x.need)[j].order.seq
    BY <1>4 DEF Ascends
  <2>1. j + 1 \in 1 .. Len(x.need) /\ Tail(x.need)[j] = x.need[j + 1]
    BY <1>2
  <2>2. /\ \A i \in 1 .. j : x.need[i].order.seq < x.need[j + 1].order.seq
        /\ \A k \in H : k.kind = "order" => k.order.seq < x.need[j + 1].order.seq
    <3>1. /\ \A i \in 1 .. (j + 1) - 1 : x.need[i].order.seq < x.need[j + 1].order.seq
          /\ \A k \in H : k.kind = "order" => k.order.seq < x.need[j + 1].order.seq
      BY <2>1 DEF Lawful, Ascends
    <3> QED
      BY <3>1
  <2>3. 1 \in 1 .. j /\ \A i \in 1 .. j - 1 : i + 1 \in 1 .. j /\ Tail(x.need)[i] = x.need[i + 1]
    BY <1>2
  <2> QED
    BY <1>2, <2>1, <2>2, <2>3
<1> QED
  BY <1>4, <1>5, <1>7, <1>8, <1>9, <1>10, <1>11 DEF Lawful
-----------------------------------------------------------------------------
(* What a step leaves alone *)

Step(t) == Begin(t) \/ Acquire(t) \/ Enter(t) \/ Refuse(t) \/ Commit(t) \/ Victim(t)

\* A step that changes neither the orders nor the markets.
Quiet == UNCHANGED <<placed, open, status, settled, pairs>>

\* A transaction that releases its locks holds none, and the others keep theirs.
LEMMA ReleasedHeld ==
    ASSUME BaseInv, NEW t \in Txns, holder' = Released(t)
    PROVE  /\ Held(t)' = {}
           /\ \A u \in Txns \ {t} : Held(u)' = Held(u)
           /\ holder' \in [Locks -> Txns \cup {Nobody}]
<1>1. /\ holder' = [k \in Locks |-> IF holder[k] = t THEN Nobody ELSE holder[k]]
      /\ holder \in [Locks -> Txns \cup {Nobody}]
      /\ Nobody \notin Txns
  BY LockLadderAssumption DEF BaseInv, Released
<1>2. \A k \in Locks : holder'[k] = IF holder[k] = t THEN Nobody ELSE holder[k]
  BY <1>1
<1>3. Held(t)' = {}
  BY <1>1, <1>2 DEF Held
<1>4. \A u \in Txns \ {t} : Held(u)' = Held(u)
  BY <1>1, <1>2 DEF Held
<1>5. holder' \in [Locks -> Txns \cup {Nobody}]
  BY <1>1
<1> QED
  BY <1>3, <1>4, <1>5

\* A lock that is granted was nobody's, or the transaction's own.
LEMMA GrantedHeld ==
    ASSUME BaseInv, LocksInv, NEW t \in Txns, Acquire(t)
    PROVE  /\ Held(t)' = Held(t) \cup {Head(txn[t].need)}
           /\ \A u \in Txns \ {t} : Held(u)' = Held(u)
           /\ holder' \in [Locks -> Txns \cup {Nobody}]
<1> DEFINE k0 == Head(txn[t].need)
<1>1. txn[t] # Idle /\ txn[t].need # <<>> /\ holder[k0] \in {Nobody, t}
      /\ holder' = [holder EXCEPT ![k0] = t]
  BY DEF Acquire, Running
<1>2. txn[t].need \in Seq(Locks)
  BY <1>1 DEF LocksInv, Lawful, Proper, Run
<1>3. k0 \in Locks
  BY <1>1, <1>2, HeadTailProperties
<1>4. holder \in [Locks -> Txns \cup {Nobody}] /\ Nobody \notin Txns
  BY LockLadderAssumption DEF BaseInv
<1> HIDE DEF k0
<1>5. \A k \in Locks : holder'[k] = IF k = k0 THEN t ELSE holder[k]
  BY <1>1, <1>4
<1>6. Held(t)' = Held(t) \cup {k0}
  BY <1>3, <1>5 DEF Held
<1>7. \A u \in Txns \ {t} : Held(u)' = Held(u)
  BY <1>1, <1>3, <1>4, <1>5 DEF Held
<1>8. holder' \in [Locks -> Txns \cup {Nobody}]
  BY <1>1, <1>4
<1> QED
  BY <1>6, <1>7, <1>8 DEF k0

\* Locks are released at the end of a transaction, all together.
LEMMA FinishFrees ==
    ASSUME BaseInv, NEW t \in Txns, Refuse(t) \/ Commit(t)
    PROVE  Finish(t) /\ txn'[t] = Idle
<1>1. Finish(t)
  BY DEF Refuse, Commit, CommitPlacement, CommitCancellation, CommitClosing, CommitSettlement,
         CommitVoiding, CommitOutcome, Done
<1> QED
  BY <1>1 DEF Finish, BaseInv

\* A step of one transaction leaves the locks and the plan of the others alone.
LEMMA OthersKept ==
    ASSUME BaseInv, LocksInv, NEW t \in Txns, Step(t)
    PROVE  /\ \A u \in Txns \ {t} : txn'[u] = txn[u] /\ Held(u)' = Held(u)
           /\ holder' \in [Locks -> Txns \cup {Nobody}]
           /\ DOMAIN txn' = Txns
<1>1. DOMAIN txn = Txns /\ holder \in [Locks -> Txns \cup {Nobody}]
  BY DEF BaseInv
<1>2. CASE Begin(t)
  BY <1>1, <1>2 DEF Begin, Held
<1>3. CASE Acquire(t)
  <2>1. txn' = [txn EXCEPT ![t].need = Tail(@)]
    BY <1>3 DEF Acquire
  <2> QED
    BY <1>1, <1>3, <2>1, GrantedHeld
<1>4. CASE Enter(t)
  BY <1>1, <1>4 DEF Enter, Held
<1>5. CASE Refuse(t) \/ Commit(t)
  BY <1>1, <1>5, FinishFrees, ReleasedHeld DEF Finish
<1>6. CASE Victim(t)
  BY <1>1, <1>6, ReleasedHeld DEF Victim
<1> QED
  BY <1>2, <1>3, <1>4, <1>5, <1>6 DEF Step

\* Only a commit changes the orders or the markets.
LEMMA QuietSteps ==
    ASSUME NEW t \in Txns, Begin(t) \/ Acquire(t) \/ Enter(t) \/ Refuse(t) \/ Victim(t)
    PROVE  Quiet
  BY DEF Begin, Acquire, Enter, Refuse, Victim, Quiet

\* Sequences over a set are sequences over a larger one.
LEMMA SeqGrows ==
    ASSUME NEW S, NEW T, S \subseteq T
    PROVE  Seq(S) \subseteq Seq(T)
  BY LenProperties

\* What a transaction is when it commits.
LEMMA DoneFacts ==
    ASSUME LocksInv, NEW t \in Txns, NEW op \in Op, Done(t, op)
    PROVE  /\ Running(t) /\ txn[t].op = op /\ txn[t].left = <<>> /\ txn[t].need = <<>>
           /\ Lawful(txn[t], Held(t)) /\ Proper(txn[t])
           /\ Range(txn[t].found) \subseteq In(MarketOf(txn[t]), placed)
           /\ Keys(txn[t], Held(t)) = Held(t)
           /\ txn[t].found \in Seq(Orders)
<1>1. txn[t] # Idle /\ txn[t].op = op /\ txn[t].left = <<>> /\ txn[t].need = <<>>
  BY DEF Done, Running
<1>2. Lawful(txn[t], Held(t)) /\ Range(txn[t].found) \subseteq In(MarketOf(txn[t]), placed)
  BY <1>1 DEF LocksInv
<1>3. Keys(txn[t], Held(t)) = Held(t)
  BY <1>1 DEF Keys, Range
<1>4. Proper(txn[t]) /\ txn[t].found \in Seq(Orders)
  BY <1>2 DEF Lawful, Proper, Run
<1> QED
  BY <1>1, <1>2, <1>3, <1>4 DEF Running

\* The orders, the markets and the allocations keep their types.
LEMMA BaseKept ==
    ASSUME BaseInv, LocksInv, NEW t \in Txns, Step(t)
    PROVE  BaseInv' /\ placed \subseteq placed'
<1>1. holder' \in [Locks -> Txns \cup {Nobody}] /\ DOMAIN txn' = Txns
  BY OthersKept
<1>2. CASE Quiet
  BY <1>1, <1>2 DEF Quiet, BaseInv, In
<1>3. CASE CommitPlacement(t)
  <2> DEFINE x == txn[t]
             m == MarketOf(x)
             new == [i \in 1 .. Len(x.found) |-> <<x.on, x.found[i]>>]
  <2>1. Done(t, "place")
    BY <1>3 DEF CommitPlacement
  <2>2. /\ x.op = "place" /\ Proper(x) /\ x.found \in Seq(Orders)
        /\ Range(x.found) \subseteq In(m, placed)
    BY <2>1, DoneFacts DEF Op
  <2>3. m \in Markets /\ x.on \in Orders /\ m = x.on.market
    BY <2>2, RunMarket
  <2>4. /\ placed' = placed \cup {x.on} /\ UNCHANGED <<status, settled>>
        /\ pairs' = [pairs EXCEPT ![m] = @ \o new]
        /\ open' \subseteq open \cup {x.on} \cup Range(x.found)
    <3>1. PICK r \in Rests(x) : open' = (open \ Range(x.found)) \cup r
      BY <1>3 DEF CommitPlacement
    <3>2. r \subseteq {x.on} \cup Range(x.found)
      BY DEF Rests
    <3> QED
      BY <1>3, <3>1, <3>2 DEF CommitPlacement
  <2>5. open' \subseteq placed' /\ placed' \subseteq Orders /\ placed \subseteq placed'
    BY <2>2, <2>3, <2>4 DEF BaseInv, In
  <2>6. new \in Seq(In(m, placed') \X In(m, placed'))
    <3>1. \A i \in 1 .. Len(x.found) : x.found[i] \in In(m, placed) /\ Len(x.found) \in Nat
      BY <2>2, SeqRange, LenProperties
    <3>2. x.on \in In(m, placed') /\ In(m, placed) \subseteq In(m, placed')
      BY <2>3, <2>4 DEF In
    <3> QED
      BY <2>2, <3>1, <3>2, LenProperties
  <2>7. \A n \in Markets : pairs[n] \in Seq(In(n, placed') \X In(n, placed'))
    <3> SUFFICES ASSUME NEW n \in Markets
                 PROVE  pairs[n] \in Seq(In(n, placed') \X In(n, placed'))
      OBVIOUS
    <3>1. In(n, placed) \X In(n, placed) \subseteq In(n, placed') \X In(n, placed')
      BY <2>4 DEF In
    <3>2. pairs[n] \in Seq(In(n, placed) \X In(n, placed))
      BY DEF BaseInv
    <3> QED
      BY <3>1, <3>2, SeqGrows
  <2>8. DOMAIN pairs' = Markets
        /\ \A n \in Markets : pairs'[n] \in Seq(In(n, placed') \X In(n, placed'))
    <3> HIDE DEF new
    <3>1. DOMAIN pairs = Markets
      BY DEF BaseInv
    <3>2. pairs[m] \o new \in Seq(In(m, placed') \X In(m, placed'))
      <4> DEFINE P == In(m, placed') \X In(m, placed')
      <4>1. pairs[m] \in Seq(P) /\ new \in Seq(P)
        BY <2>3, <2>6, <2>7
      <4> HIDE DEF P
      <4>2. pairs[m] \o new \in Seq(P)
        BY <4>1, ConcatProperties
      <4> QED
        BY <4>2 DEF P
    <3>3. \A n \in Markets : pairs'[n] = IF n = m THEN pairs[m] \o new ELSE pairs[n]
      BY <2>3, <2>4, <3>1
    <3> QED
      BY <2>4, <2>7, <3>1, <3>2, <3>3
  <2> QED
    BY <1>1, <2>4, <2>5, <2>8 DEF BaseInv
<1>4. CASE CommitCancellation(t) \/ CommitClosing(t)
  <2>1. /\ UNCHANGED <<placed, settled, pairs>> /\ open' \subseteq open
        /\ status' \in [Markets -> {"OPEN", "CLOSED", "SETTLED", "VOID"}]
    BY <1>4 DEF CommitCancellation, CommitClosing, BaseInv
  <2> QED
    BY <1>1, <2>1 DEF BaseInv, In
<1>5. CASE CommitSettlement(t) \/ CommitVoiding(t)
  <2>1. PICK op \in {"settle", "void"}, final \in {"SETTLED", "VOID"} :
            /\ CommitOutcome(t, op, final)
            /\ settled' \in {settled, settled \cup {txn[t].on}}
    BY <1>5 DEF CommitSettlement, CommitVoiding
  <2>2. txn[t].op = op /\ Proper(txn[t])
    BY <2>1, DoneFacts DEF CommitOutcome, Op
  <2>3. txn[t].on \in Markets
    BY <2>2, RunMarket
  <2>4. /\ open' \subseteq open /\ placed' = placed
        /\ status' = [status EXCEPT ![txn[t].on] = final]
        /\ pairs' = [pairs EXCEPT ![txn[t].on] = <<>>]
    BY <2>1 DEF CommitOutcome
  <2>5. settled' \subseteq Markets
    BY <2>1, <2>3 DEF BaseInv
  <2>6. status' \in [Markets -> {"OPEN", "CLOSED", "SETTLED", "VOID"}]
    BY <2>4 DEF BaseInv
  <2>7. /\ DOMAIN pairs' = Markets
        /\ \A n \in Markets : pairs'[n] \in Seq(In(n, placed') \X In(n, placed'))
    <3>1. \A n \in Markets : pairs'[n] = IF n = txn[t].on THEN <<>> ELSE pairs[n]
      BY <2>3, <2>4 DEF BaseInv
    <3>2. \A n \in Markets : pairs[n] \in Seq(In(n, placed') \X In(n, placed'))
      BY <2>4 DEF BaseInv, In
    <3>3. DOMAIN pairs' = Markets
      BY <2>4 DEF BaseInv
    <3>4. \A S : <<>> \in Seq(S)
      OBVIOUS
    <3> QED
      BY <3>1, <3>2, <3>3, <3>4
  <2> QED
    BY <1>1, <2>4, <2>5, <2>6, <2>7 DEF BaseInv
<1> QED
  BY <1>2, <1>3, <1>4, <1>5, QuietSteps DEF Step, Commit

\* Every transaction keeps to the law of its locks.
LEMMA LocksKept ==
    ASSUME BaseInv, LocksInv, NEW t \in Txns, Step(t)
    PROVE  LocksInv'
<1>1. placed \subseteq placed' /\ DOMAIN txn = Txns
  BY BaseKept DEF BaseInv
<1>2. \A m : In(m, placed) \subseteq In(m, placed')
  BY <1>1 DEF In
<1>3. ASSUME NEW u \in Txns \ {t}
      PROVE  /\ txn'[u] = Idle => Held(u)' = {}
             /\ txn'[u] # Idle => /\ Lawful(txn'[u], Held(u)')
                                  /\ Range(txn'[u].found) \subseteq In(MarketOf(txn'[u]), placed')
  BY <1>2, OthersKept DEF LocksInv
<1>4. /\ txn'[t] = Idle => Held(t)' = {}
      /\ txn'[t] # Idle => /\ Lawful(txn'[t], Held(t)')
                           /\ Range(txn'[t].found) \subseteq In(MarketOf(txn'[t]), placed')
  <2>1. ASSUME NEW op \in Op, NEW o \in Orders \cup Markets, NEW n \in 1 .. Attempts,
               o \in (IF op \in {"place", "cancel"} THEN Orders ELSE Markets),
               txn'[t] = Attempt(op, o, n), Held(t)' = {}
        PROVE  Lawful(txn'[t], Held(t)') /\ Range(txn'[t].found) = {} /\ txn'[t] # Idle
    <3> DEFINE y == Attempt(op, o, n)
    <3>1. /\ y.op = op /\ y.on = o /\ y.left = Steps(op) /\ y.need = <<>> /\ y.found = <<>>
      BY DEF Attempt
    <3>2. Steps(op) \in Remainders(op)
      BY DEF Steps, Remainders, Op
    <3>3. y \in Run
      <4>1. Steps(op) \in UNION {Remainders(p) : p \in Op}
        BY <3>2
      <4> QED
        BY <4>1 DEF Run, Attempt
    <3>4. Passed(y) = {} /\ Range(y.need) = {} /\ Range(y.found) = {} /\ Len(y.need) = 0
      BY <3>1 DEF Passed, Range
    <3>5. Keys(y, {}) = {}
      BY <3>4 DEF Keys
    <3> HIDE DEF y
    <3>6. Lawful(y, {})
      BY <2>1, <3>1, <3>2, <3>3, <3>4, <3>5 DEF Lawful, Proper, Secures, Ascends
    <3>7. y # Idle
      BY <3>1 DEF Idle, Op
    <3> QED
      BY <2>1, <3>4, <3>6, <3>7 DEF y
  <2>2. CASE Begin(t)
    <3>1. PICK q \in Requests : txn' = [txn EXCEPT ![t] = Attempt(q.op, q.on, 1)]
      BY <2>2 DEF Begin
    <3>2. /\ q.op \in Op
          /\ q.on \in (IF q.op \in {"place", "cancel"} THEN Orders ELSE Markets)
      BY DEF Requests, BaseInv, Op
    <3>3. 1 \in 1 .. Attempts /\ q.on \in Orders \cup Markets
      BY <3>2, LockLadderAssumption
    <3>5. txn'[t] = Attempt(q.op, q.on, 1)
      BY <1>1, <3>1
    <3>6. Held(t)' = {}
      <4>1. txn[t] = Idle /\ holder' = holder
        BY <2>2 DEF Begin
      <4>2. Held(t) = {}
        BY <4>1 DEF LocksInv
      <4> QED
        BY <4>1, <4>2 DEF Held
    <3>4. Lawful(txn'[t], Held(t)') /\ Range(txn'[t].found) = {} /\ txn'[t] # Idle
      BY <2>1, <3>2, <3>3, <3>5, <3>6
    <3> QED
      BY <3>4
  <2>3. CASE Acquire(t)
    <3> DEFINE x == txn[t]
               y == [x EXCEPT !.need = Tail(@)]
    <3>1. /\ x # Idle /\ x.need # <<>> /\ txn'[t] = y /\ placed' = placed
      BY <1>1, <2>3 DEF Acquire, Running
    <3>2. Lawful(x, Held(t)) /\ Range(x.found) \subseteq In(MarketOf(x), placed)
      BY <3>1 DEF LocksInv
    <3>3. Lawful(y, Held(t) \cup {Head(x.need)}) /\ MarketOf(y) = MarketOf(x) /\ y.found = x.found
      BY <3>1, <3>2, AcquireKeepsLaw
    <3>4. Held(t)' = Held(t) \cup {Head(x.need)}
      BY <2>3, GrantedHeld
    <3>5. y.op \in Op
      BY <3>3 DEF Lawful, Proper, Run
    <3>6. y # Idle
      BY <3>5 DEF Idle, Op
    <3> QED
      BY <3>1, <3>2, <3>3, <3>4, <3>6
  <2>4. CASE Enter(t)
    <3> DEFINE x == txn[t]
    <3>1. /\ x # Idle /\ x.need = <<>> /\ x.left # <<>>
          /\ placed' = placed /\ Held(t)' = Held(t)
      BY <2>4 DEF Enter, AtStep, Running, Held
    <3>8. PICK f \in Found(x, Head(x.left)) : \E n \in Needs(x, Head(x.left), f) :
             txn' = [txn EXCEPT ![t] = [x EXCEPT !.left = Tail(@), !.need = n, !.found = f]]
      BY <2>4 DEF Enter
    <3>2. PICK n \in Needs(x, Head(x.left), f) :
             txn' = [txn EXCEPT ![t] = [x EXCEPT !.left = Tail(@), !.need = n, !.found = f]]
      BY <3>8
    <3> DEFINE y == [x EXCEPT !.left = Tail(@), !.need = n, !.found = f]
    <3>3. txn'[t] = y
      BY <1>1, <3>2
    <3>4. /\ Lawful(x, Held(t)) /\ Range(x.found) \subseteq In(MarketOf(x), placed)
          /\ Held(t) \subseteq Locks
      BY <3>1 DEF LocksInv, Held
    <3> HIDE DEF x
    <3>5. Lawful(y, Held(t)) /\ Range(y.found) \subseteq In(MarketOf(y), placed)
      BY <3>1, <3>2, <3>4, EnterKeepsLaw
    <3> HIDE DEF y
    <3>6. y.op \in Op
      BY <3>5 DEF Lawful, Proper, Run
    <3>7. y # Idle
      BY <3>6 DEF Idle, Op
    <3> QED
      BY <3>1, <3>3, <3>5, <3>7
  <2>5. CASE Refuse(t) \/ Commit(t)
    BY <2>5, FinishFrees, ReleasedHeld DEF Finish
  <2>6. CASE Victim(t)
    <3> DEFINE x == txn[t]
    <3>1. /\ Held(t)' = {}
          /\ txn'[t] = IF x.op = "place" /\ x.attempt < Attempts
                       THEN Attempt(x.op, x.on, NextAttempt(x)) ELSE Idle
      BY <1>1, <2>6, ReleasedHeld DEF Victim
    <3>2. x # Idle
      BY <2>6 DEF Victim, Cycle, Stuck, Waits, Running
    <3>3. Proper(x)
      BY <3>2 DEF LocksInv, Lawful
    <3>4. CASE x.op = "place" /\ x.attempt < Attempts
      <4>1. x.attempt \in 1 .. Attempts /\ x.on \in Orders
        BY <3>3, <3>4 DEF Proper, Run
      <4>2. NextAttempt(x) \in 1 .. Attempts
        BY <3>4, <4>1, LockLadderAssumption DEF NextAttempt
      <4>3. Lawful(txn'[t], Held(t)') /\ Range(txn'[t].found) = {} /\ txn'[t] # Idle
        BY <2>1, <3>1, <3>4, <4>1, <4>2 DEF Op
      <4> QED
        BY <4>3
    <3> QED
      BY <3>1, <3>4
  <2> QED
    BY <2>2, <2>3, <2>4, <2>5, <2>6 DEF Step
<1> QED
  BY <1>3, <1>4 DEF LocksInv
-----------------------------------------------------------------------------
(* What the locks keep valid *)

\* A lock that a transaction has, of another kind than the step it is at
\* acquires, it holds.
LEMMA HeldAlready ==
    ASSUME LocksInv, NEW t \in Txns, txn[t] # Idle, NEW k, Has(t, k),
           txn[t].need = <<>> \/ k.kind # Kind(Now(txn[t]))
    PROVE  k \in Held(t)
<1>1. k \in Held(t) \cup Range(txn[t].need)
  BY DEF Has, Keys
<1>2. txn[t].need = <<>> => Range(txn[t].need) = {}
  BY DEF Range
<1>3. \A l \in Range(txn[t].need) : l.kind = Kind(Now(txn[t]))
  BY DEF LocksInv, Lawful
<1> QED
  BY <1>1, <1>2, <1>3

\* The market that a transaction which finds orders works in is its own: a
\* placement has the advisory lock, a closing has the row, a settlement both.
LEMMA HoldsMarket ==
    ASSUME LocksInv, NEW t \in Txns, txn[t] # Idle
    PROVE  /\ txn[t].op = "place" /\ "book" \in Passed(txn[t]) =>
                Advisory(MarketOf(txn[t])) \in Held(t)
           /\ txn[t].op \in {"close", "settle", "void"} /\ "open" \in Passed(txn[t]) =>
                Row(MarketOf(txn[t])) \in Held(t)
           /\ txn[t].op \in {"settle", "void"} /\ "row" \in Passed(txn[t]) =>
                Advisory(MarketOf(txn[t])) \in Held(t)
<1> DEFINE x == txn[t]
           m == MarketOf(x)
<1>1. /\ Proper(x) /\ x.op \in Op /\ x.left \in Remainders(x.op)
      /\ Secures(x, Held(t)) /\ m \in Markets
  BY RunMarket DEF LocksInv, Lawful, Proper, Run
<1>2. Advisory(m).kind = "advisory" /\ Row(m).kind = "row"
  BY <1>1, LockKinds
<1>3. ASSUME x.op = "place", "book" \in Passed(x) PROVE Advisory(m) \in Held(t)
  <2>1. "advisory" \in Passed(x) /\ Now(x) \in {"book", "match"}
    BY <1>1, <1>3, PlaceStages
  <2>2. Kind(Now(x)) # "advisory"
    BY <2>1 DEF Kind
  <2>3. Has(t, Advisory(m))
    BY <1>1, <2>1 DEF Secures, Has
  <2> QED
    BY <1>2, <2>2, <2>3, HeldAlready
<1>4. ASSUME x.op \in {"close", "settle", "void"}, "open" \in Passed(x) PROVE Row(m) \in Held(t)
  <2>1. "row" \in Passed(x) /\ Now(x) \in {"open", "release", "rows", "pay"}
    <3>1. CASE x.op \in {"close"}
      BY <1>1, <1>4, <3>1, CloseStages
    <3>2. CASE x.op \in {"settle", "void"}
      BY <1>1, <1>4, <3>2, FinalStages
    <3> QED
      BY <1>4, <3>1, <3>2
  <2>2. Kind(Now(x)) # "row"
    BY <2>1 DEF Kind
  <2>3. Has(t, Row(m))
    BY <1>1, <2>1 DEF Secures, Has
  <2> QED
    BY <1>2, <2>2, <2>3, HeldAlready
<1>5. ASSUME x.op \in {"settle", "void"}, "row" \in Passed(x) PROVE Advisory(m) \in Held(t)
  <2>1. "advisory" \in Passed(x) /\ Now(x) \in {"row", "open", "release", "rows", "pay"}
    BY <1>1, <1>5, FinalStages
  <2>2. Kind(Now(x)) # "advisory"
    BY <2>1 DEF Kind
  <2>3. Has(t, Advisory(m))
    BY <1>1, <2>1 DEF Secures, Has
  <2> QED
    BY <1>2, <2>2, <2>3, HeldAlready
<1> QED
  BY <1>3, <1>4, <1>5

\* A transaction that has found its orders and is past the step that locks
\* them holds their rows.
LEMMA HoldsFound ==
    ASSUME LocksInv, NEW t \in Txns, txn[t] # Idle,
           txn[t].need = <<>> \/ (txn[t].left = <<>> /\ txn[t].op \in {"place", "close"})
    PROVE  \A o \in Range(txn[t].found) : o \in Orders /\ OrderRow(o) \in Held(t)
<1> DEFINE x == txn[t]
<1>1. /\ Proper(x) /\ x.op \in Op /\ x.left \in Remainders(x.op) /\ x.found \in Seq(Orders)
      /\ Secures(x, Held(t))
  BY DEF LocksInv, Lawful, Proper, Run
<1>2. \A o \in Range(x.found) : o \in Orders /\ OrderRow(o).kind = "order"
  BY <1>1, SeqRange, LockKinds
<1>3. x.need = <<>> \/ Kind(Now(x)) = "wallet"
  <2>1. CASE x.op \in {"place"} /\ x.left = <<>>
    BY <1>1, <2>1, PlaceStages DEF Kind
  <2>2. CASE x.op \in {"close"} /\ x.left = <<>>
    BY <1>1, <2>2, CloseStages DEF Kind
  <2> QED
    BY <2>1, <2>2
<1>4. \A o \in Range(x.found) : Has(t, OrderRow(o))
  BY <1>1 DEF Secures, Has
<1> QED
  BY <1>2, <1>3, <1>4, HeldAlready

\* A cancellation that has found its order open holds its row.
LEMMA HoldsRefund ==
    ASSUME LocksInv, NEW t \in Txns, Refunds(t)
    PROVE  /\ txn[t].on \in Orders /\ MarketOf(txn[t]) = txn[t].on.market
           /\ OrderRow(txn[t].on) \in Held(t)
<1> DEFINE x == txn[t]
<1>1. x # Idle /\ x.op = "cancel" /\ x.left = <<>>
  BY DEF Refunds, Running
<1>2. /\ Proper(x) /\ x.op \in {"cancel"} /\ x.left \in Remainders(x.op)
      /\ Secures(x, Held(t))
  BY <1>1 DEF LocksInv, Lawful, Proper
<1>3. x.on \in Orders /\ MarketOf(x) = x.on.market
  BY <1>2, RunMarket
<1>4. "order" \in Passed(x) /\ Kind(Now(x)) = "wallet"
  BY <1>1, <1>2, CancelStages DEF Kind
<1>5. OrderRow(x.on).kind = "order" /\ Has(t, OrderRow(x.on))
  BY <1>2, <1>3, <1>4, LockKinds DEF Secures, Has
<1> QED
  BY <1>1, <1>3, <1>4, <1>5, HeldAlready

\* An order that is not open any more had its row held by who committed, or
\* its market settled or voided; one that is open anew was in a placement.
LEMMA OpenChanges ==
    ASSUME BaseInv, LocksInv, NEW t \in Txns, Step(t)
    PROVE  /\ \A o \in open \ open' :
                \/ OrderRow(o) \in Held(t)
                \/ Final(t, "release") /\ Final(t, "open") /\ Final(t, "row")
                   /\ o.market = MarketOf(txn[t])
           /\ \A o \in open' \ open :
                /\ txn[t] # Idle /\ txn[t].op = "place" /\ "book" \in Passed(txn[t])
                /\ o.market = MarketOf(txn[t])
<1> DEFINE x == txn[t]
<1>1. CASE Quiet
  BY <1>1 DEF Quiet
<1>2. CASE CommitPlacement(t)
  <2>1. Done(t, "place")
    BY <1>2 DEF CommitPlacement
  <2>2. /\ x # Idle /\ x.op = "place" /\ x.left = <<>> /\ x.need = <<>> /\ Proper(x)
        /\ Range(x.found) \subseteq In(MarketOf(x), placed)
    BY <2>1, DoneFacts DEF Op, Running
  <2>3. "book" \in Passed(x)
    <3>1. x.op \in {"place"} /\ x.left \in Remainders(x.op)
      BY <2>2 DEF Proper
    <3> QED
      BY <2>2, <3>1, PlaceStages
  <2>4. PICK r \in Rests(x) : open' = (open \ Range(x.found)) \cup r
    BY <1>2 DEF CommitPlacement
  <2>5. r \subseteq {x.on} \cup Range(x.found)
    BY DEF Rests
  <2>6. x.on.market = MarketOf(x)
    BY <2>2 DEF MarketOf
  <2>7. \A o \in Range(x.found) : o.market = MarketOf(x) /\ OrderRow(o) \in Held(t)
    BY <2>2, HoldsFound DEF In
  <2> QED
    BY <2>2, <2>3, <2>4, <2>5, <2>6, <2>7
<1>3. CASE CommitCancellation(t)
  <2>1. Refunds(t) /\ open' = open \ {x.on}
    BY <1>3 DEF CommitCancellation, Done, Refunds
  <2>2. OrderRow(x.on) \in Held(t)
    BY <2>1, HoldsRefund
  <2> QED
    BY <2>1, <2>2
<1>4. CASE CommitClosing(t)
  <2>1. x # Idle /\ x.need = <<>>
    BY <1>4 DEF CommitClosing, Done, Running
  <2>2. open' = open \ Range(x.found)
    BY <1>4 DEF CommitClosing
  <2>3. \A o \in Range(x.found) : OrderRow(o) \in Held(t)
    BY <2>1, HoldsFound
  <2> QED
    BY <2>2, <2>3
<1>5. CASE CommitSettlement(t) \/ CommitVoiding(t)
  <2>1. PICK op \in {"settle", "void"} : Done(t, op) /\ open' = open \ In(x.on, open)
    BY <1>5 DEF CommitSettlement, CommitVoiding, CommitOutcome
  <2>2. Running(t) /\ x.op = op /\ x.left = <<>> /\ Proper(x)
    BY <2>1, DoneFacts DEF Op
  <2>3. x.left \in Remainders(x.op)
    BY <2>2 DEF Proper
  <2>4. "release" \in Passed(x) /\ "open" \in Passed(x) /\ "row" \in Passed(x)
    BY <2>2, <2>3, FinalStages
  <2>5. MarketOf(x) = x.on
    BY <2>2 DEF MarketOf
  <2> QED
    BY <2>1, <2>2, <2>4, <2>5 DEF Final, In
<1> QED
  BY <1>1, <1>2, <1>3, <1>4, <1>5, QuietSteps DEF Step, Commit

\* x becomes y, as it enters its next step.
Entered(x, y) ==
    /\ Proper(x) /\ x.need = <<>> /\ x.left # <<>> /\ ~ Refuses(x, Head(x.left))
    /\ Range(x.found) \subseteq In(MarketOf(x), placed)
    /\ y.op = x.op /\ y.on = x.on /\ y.left = Tail(x.left)
    /\ y.found \in Found(x, Head(x.left))
    /\ Passed(y) = Passed(x) \cup {Head(x.left)} /\ MarketOf(y) = MarketOf(x)

\* A transaction that goes on has begun just now, or has got a lock, or has
\* entered a step.
LEMMA OwnSteps ==
    ASSUME BaseInv, LocksInv, NEW t \in Txns, Step(t), txn'[t] # Idle
    PROVE  /\ Quiet
           /\ \/ Passed(txn'[t]) = {} /\ txn'[t].left # <<>>
              \/ /\ txn[t] # Idle
                 /\ txn'[t].op = txn[t].op /\ txn'[t].on = txn[t].on
                 /\ txn'[t].left = txn[t].left /\ txn'[t].found = txn[t].found
                 /\ Passed(txn'[t]) = Passed(txn[t]) /\ MarketOf(txn'[t]) = MarketOf(txn[t])
              \/ txn[t] # Idle /\ Entered(txn[t], txn'[t])
<1> DEFINE x == txn[t]
           y == txn'[t]
<1>0. /\ DOMAIN txn = Txns
      /\ x # Idle => /\ Proper(x) /\ x \in Run /\ x.op \in Op /\ x.left \in Remainders(x.op)
                     /\ Range(x.found) \subseteq In(MarketOf(x), placed)
  BY DEF BaseInv, LocksInv, Lawful, Proper, Run
<1>1. CASE Begin(t) \/ Victim(t)
  <2>1. \E op \in Op : \E o, n : y = Attempt(op, o, n)
    <3>1. CASE Begin(t)
      <4>1. PICK q \in Requests : txn' = [txn EXCEPT ![t] = Attempt(q.op, q.on, 1)]
        BY <3>1 DEF Begin
      <4>2. q.op \in Op
        BY DEF Requests, Op
      <4> QED
        BY <1>0, <4>1, <4>2
    <3>2. CASE Victim(t)
      <4>1. x # Idle
        BY <3>2 DEF Victim, Cycle, Stuck, Waits, Running
      <4>2. txn' = [txn EXCEPT ![t] =
                IF x.op = "place" /\ x.attempt < Attempts
                THEN Attempt(x.op, x.on, NextAttempt(x)) ELSE Idle]
        BY <3>2 DEF Victim
      <4>3. y = Attempt(x.op, x.on, NextAttempt(x))
        BY <1>0, <4>2
      <4> QED
        BY <1>0, <4>1, <4>3
    <3> QED
      BY <1>1, <3>1, <3>2
  <2>2. PICK op \in Op : \E o, n : y = Attempt(op, o, n)
    BY <2>1
  <2>3. y.op = op /\ y.left = Steps(op)
    BY <2>2 DEF Attempt
  <2>4. Passed(y) = {}
    BY <2>3 DEF Passed
  <2>5. y.left # <<>>
    BY <2>3 DEF Steps, Op
  <2> QED
    BY <1>1, <2>4, <2>5, QuietSteps
<1>2. CASE Acquire(t)
  <2>1. x # Idle /\ y = [x EXCEPT !.need = Tail(@)]
    BY <1>0, <1>2 DEF Acquire, Running
  <2>2. y.op = x.op /\ y.on = x.on /\ y.left = x.left /\ y.found = x.found
    BY <1>0, <2>1 DEF Run
  <2>3. Passed(y) = Passed(x) /\ MarketOf(y) = MarketOf(x)
    BY <2>2 DEF Passed, MarketOf
  <2> QED
    BY <1>2, <2>1, <2>2, <2>3, QuietSteps
<1>3. CASE Enter(t)
  <2>1. x # Idle /\ x.need = <<>> /\ x.left # <<>> /\ ~ Refuses(x, Head(x.left))
    BY <1>3 DEF Enter, AtStep, Running
  <2>2. PICK f \in Found(x, Head(x.left)) : \E n :
           txn' = [txn EXCEPT ![t] = [x EXCEPT !.left = Tail(@), !.need = n, !.found = f]]
    BY <1>3 DEF Enter
  <2>3. PICK n :
           txn' = [txn EXCEPT ![t] = [x EXCEPT !.left = Tail(@), !.need = n, !.found = f]]
    BY <2>2
  <2>4. y = [x EXCEPT !.left = Tail(@), !.need = n, !.found = f]
    BY <1>0, <2>3
  <2>5. y.op = x.op /\ y.on = x.on /\ y.left = Tail(x.left) /\ y.found = f
    BY <1>0, <2>1, <2>4 DEF Run
  <2>6. Passed(y) = Passed(x) \cup {Head(x.left)} /\ MarketOf(y) = MarketOf(x)
    BY <1>0, <2>1, <2>5, StepEntered DEF MarketOf
  <2>7. Entered(x, y)
    BY <1>0, <2>1, <2>5, <2>6 DEF Entered
  <2> QED
    BY <1>3, <2>1, <2>7, QuietSteps
<1>4. CASE Refuse(t) \/ Commit(t)
  BY <1>4, FinishFrees
<1> QED
  BY <1>1, <1>2, <1>3, <1>4 DEF Step

\* A plan stays valid: who takes an order out of the book has its row or its market.
LEMMA PlansKept ==
    ASSUME BaseInv, LocksInv, PlansStayValid, NEW t \in Txns, Step(t)
    PROVE  PlansStayValid'
<1> SUFFICES ASSUME NEW u \in Txns, txn'[u] # Idle, txn'[u].left = <<>>,
                    txn'[u].op \in {"place", "close"}
             PROVE  Range(txn'[u].found) \subseteq open'
  BY DEF PlansStayValid, Running
<1>1. BaseInv' /\ LocksInv'
  BY BaseKept, LocksKept
<1>2. CASE u # t
  <2>1. txn'[u] = txn[u]
    BY <1>2, OthersKept
  <2>2. Range(txn[u].found) \subseteq open
    BY <2>1 DEF PlansStayValid, Running
  <2>3. \A o \in Range(txn[u].found) :
            o \in Orders /\ o.market = MarketOf(txn[u]) /\ OrderRow(o) \in Held(u)
    BY <2>1, HoldsFound DEF LocksInv, In
  <2>4. ASSUME NEW o \in Range(txn[u].found), o \notin open' PROVE FALSE
    <3>1. CASE OrderRow(o) \in Held(t)
      BY <1>2, <2>3, <3>1, HeldByOne
    <3>2. CASE Final(t, "open") /\ Final(t, "row") /\ o.market = MarketOf(txn[t])
      <4>1. /\ txn[t] # Idle /\ txn[t].op \in {"settle", "void"}
            /\ "open" \in Passed(txn[t]) /\ "row" \in Passed(txn[t])
        BY <3>2 DEF Final, Running
      <4>2. Row(o.market) \in Held(t) /\ Advisory(o.market) \in Held(t)
        BY <3>2, <4>1, HoldsMarket
      <4>3. /\ txn[u] # Idle /\ txn[u].left = <<>> /\ txn[u].op \in {"place", "close"}
            /\ txn[u].left \in Remainders(txn[u].op)
        BY <2>1 DEF LocksInv, Lawful, Proper
      <4>4. CASE txn[u].op \in {"place"}
        <5>1. "book" \in Passed(txn[u])
          BY <4>3, <4>4, PlaceStages
        <5>2. Advisory(o.market) \in Held(u)
          BY <2>3, <4>3, <4>4, <5>1, HoldsMarket
        <5> QED
          BY <1>2, <4>2, <5>2, HeldByOne
      <4>5. CASE txn[u].op \in {"close"}
        <5>1. "open" \in Passed(txn[u])
          BY <4>3, <4>5, CloseStages
        <5>2. Row(o.market) \in Held(u)
          BY <2>3, <4>3, <4>5, <5>1, HoldsMarket
        <5> QED
          BY <1>2, <4>2, <5>2, HeldByOne
      <4> QED
        BY <4>3, <4>4, <4>5
    <3> QED
      BY <2>2, <2>4, <3>1, <3>2, OpenChanges
  <2> QED
    BY <2>1, <2>4
<1>3. CASE u = t
  <2> DEFINE x == txn[t]
             y == txn'[t]
  <2>1. open' = open
    BY <1>3, OwnSteps DEF Quiet
  <2>2. CASE x # Idle /\ y.left = x.left /\ y.op = x.op /\ y.found = x.found
    BY <1>3, <2>1, <2>2 DEF PlansStayValid, Running
  <2>3. CASE Entered(x, y)
    <3>1. /\ Proper(x) /\ x.left # <<>> /\ y.op = x.op /\ y.left = Tail(x.left)
          /\ Range(x.found) \subseteq In(MarketOf(x), placed)
          /\ y.found \in Found(x, Head(x.left))
      BY <2>3 DEF Entered
    <3>2. x.op \in Op /\ x.left \in Remainders(x.op)
      BY <3>1 DEF Proper, Run
    <3>3. y.left \in Remainders(y.op) /\ Now(y) = Head(x.left)
      BY <3>1, <3>2, StepEntered
    <3>4. Head(x.left) \in {"match", "release"}
      <4>1. CASE y.op \in {"place"}
        BY <1>3, <3>3, <4>1, PlaceStages
      <4>2. CASE y.op \in {"close"}
        BY <1>3, <3>3, <4>2, CloseStages
      <4> QED
        BY <1>3, <4>1, <4>2
    <3>5. Range(y.found) \subseteq open
      BY <3>1, <3>4, FoundFacts
    <3> QED
      BY <1>3, <2>1, <3>5
  <2> QED
    BY <1>3, <2>2, <2>3, OwnSteps
<1> QED
  BY <1>2, <1>3

\* What is in Final and Refunds of a transaction after the step of another.
LEMMA OthersStand ==
    ASSUME BaseInv, LocksInv, NEW t \in Txns, Step(t), NEW u \in Txns \ {t}
    PROVE  /\ \A s : Final(u, s)' = Final(u, s)
           /\ Refunds(u)' = Refunds(u)
           /\ txn'[u] = txn[u]
<1>1. txn'[u] = txn[u]
  BY OthersKept
<1>2. Running(u)' = Running(u)
  BY <1>1 DEF Running
<1>3. Passed(txn[u])' = Passed(txn[u])
  BY <1>1 DEF Passed
<1> QED
  BY <1>1, <1>2, <1>3 DEF Final, Refunds


\* A settlement enters its steps one after the other.
LEMMA FinalOrder ==
    ASSUME LocksInv, NEW t \in Txns
    PROVE  /\ Final(t, "pay") => Final(t, "rows")
           /\ Final(t, "rows") => Final(t, "release")
           /\ Final(t, "release") => Final(t, "open")
           /\ Final(t, "open") => Final(t, "row")
<1>1. CASE txn[t] # Idle /\ txn[t].op \in {"settle", "void"}
  <2>1. txn[t].left \in Remainders(txn[t].op)
    BY <1>1 DEF LocksInv, Lawful, Proper
  <2> QED
    BY <1>1, <2>1, FinalStages DEF Final
<1> QED
  BY <1>1 DEF Final, Running

\* Two transactions that have the same market are one: a settlement that has
\* the row excludes another, and a placement that has its book.
LEMMA MarketAlone ==
    ASSUME LocksInv, NEW t \in Txns, Final(t, "open"),
           NEW u \in Txns, txn[u] # Idle, MarketOf(txn[u]) = MarketOf(txn[t]),
           \/ txn[u].op = "place" /\ "book" \in Passed(txn[u])
           \/ txn[u].op \in {"close", "settle", "void"} /\ "open" \in Passed(txn[u])
    PROVE  t = u
<1>1. /\ txn[t] # Idle /\ txn[t].op \in {"settle", "void"}
      /\ "open" \in Passed(txn[t]) /\ "row" \in Passed(txn[t])
  BY FinalOrder DEF Final, Running
<1>2. Row(MarketOf(txn[t])) \in Held(t) /\ Advisory(MarketOf(txn[t])) \in Held(t)
  BY <1>1, HoldsMarket
<1>3. Row(MarketOf(txn[t])) \in Held(u) \/ Advisory(MarketOf(txn[t])) \in Held(u)
  BY HoldsMarket
<1> QED
  BY <1>2, <1>3, HeldByOne

\* A cancellation's order stays open.
LEMMA RefundsKept ==
    ASSUME BaseInv, LocksInv, RefundsStayValid, FinalsAlone, NEW t \in Txns, Step(t)
    PROVE  RefundsStayValid'
<1> SUFFICES ASSUME NEW u \in Txns, Refunds(u)' PROVE txn'[u].on \in open'
  BY DEF RefundsStayValid
<1>1. txn'[u] # Idle /\ txn'[u].op = "cancel" /\ txn'[u].left = <<>>
  BY DEF Refunds, Running
<1>2. CASE u # t
  <2>1. txn'[u] = txn[u] /\ Refunds(u)
    BY <1>1, <1>2, OthersKept DEF Refunds, Running
  <2>2. /\ txn[u].on \in open /\ OrderRow(txn[u].on) \in Held(u)
        /\ MarketOf(txn[u]) = txn[u].on.market
    BY <2>1, HoldsRefund DEF RefundsStayValid
  <2>3. OrderRow(txn[u].on) \notin Held(t)
    BY <1>2, <2>2, HeldByOne
  <2>4. ~ (Final(t, "release") /\ txn[u].on.market = MarketOf(txn[t]))
    BY <2>1, <2>2 DEF FinalsAlone
  <2> QED
    BY <2>1, <2>2, <2>3, <2>4, OpenChanges
<1>3. CASE u = t
  <2> DEFINE x == txn[t]
             y == txn'[t]
  <2>1. open' = open
    BY <1>1, <1>3, OwnSteps DEF Quiet
  <2>2. CASE x # Idle /\ y.left = x.left /\ y.op = x.op /\ y.on = x.on
    BY <1>1, <1>3, <2>1, <2>2 DEF RefundsStayValid, Refunds, Running
  <2>3. CASE Entered(x, y)
    <3>1. /\ Proper(x) /\ x.left # <<>> /\ ~ Refuses(x, Head(x.left))
          /\ y.op = x.op /\ y.on = x.on /\ y.left = Tail(x.left)
      BY <2>3 DEF Entered
    <3>2. x.op \in Op /\ x.left \in Remainders(x.op)
      BY <3>1 DEF Proper, Run
    <3>3. y.left \in Remainders(y.op) /\ Now(y) = Head(x.left)
      BY <3>1, <3>2, StepEntered
    <3>4. Head(x.left) = "refund"
      <4>1. y.op \in {"cancel"}
        BY <1>1, <1>3
      <4> QED
        BY <1>1, <1>3, <3>3, <4>1, CancelStages
    <3> QED
      BY <1>3, <2>1, <3>1, <3>4 DEF Refuses
  <2> QED
    BY <1>1, <1>3, <2>2, <2>3, OwnSteps
<1> QED
  BY <1>2, <1>3

\* A settlement's market is not open, and no market is opened again.
LEMMA NotOpenKept ==
    ASSUME BaseInv, LocksInv, FinalsNotOpen, NEW t \in Txns, Step(t)
    PROVE  FinalsNotOpen'
<1> SUFFICES ASSUME NEW u \in Txns, Final(u, "row")'
             PROVE  status'[MarketOf(txn'[u])] # "OPEN"
  BY DEF FinalsNotOpen, MarketOf
<1>1. txn'[u] # Idle /\ txn'[u].op \in {"settle", "void"} /\ "row" \in Passed(txn'[u])
  BY DEF Final, Running, Passed
<1>2. CASE u # t
  <2>1. txn'[u] = txn[u]
    BY <1>2, OthersKept
  <2>2. Final(u, "row") /\ status[MarketOf(txn[u])] # "OPEN"
    BY <1>1, <2>1 DEF Final, Running, FinalsNotOpen
  <2>3. MarketOf(txn[u]) \in Markets
    BY <1>1, <2>1, RunMarket DEF LocksInv, Lawful
  <2>4. \A m \in Markets : status[m] # "OPEN" => status'[m] # "OPEN"
    <3>1. DOMAIN status = Markets
      BY DEF BaseInv
    <3>2. CASE UNCHANGED status
      BY <3>2
    <3>3. CASE CommitClosing(t)
      BY <3>1, <3>3 DEF CommitClosing
    <3>4. CASE CommitSettlement(t) \/ CommitVoiding(t)
      BY <3>1, <3>4 DEF CommitSettlement, CommitVoiding, CommitOutcome
    <3>5. CASE CommitPlacement(t) \/ CommitCancellation(t)
      BY <3>2, <3>5 DEF CommitPlacement, CommitCancellation
    <3> QED
      BY <3>2, <3>3, <3>4, <3>5, QuietSteps DEF Step, Commit, Quiet
  <2> QED
    BY <2>1, <2>2, <2>3, <2>4
<1>3. CASE u = t
  <2> DEFINE x == txn[t]
             y == txn'[t]
  <2>1. status' = status
    BY <1>1, <1>3, OwnSteps DEF Quiet
  <2>2. CASE /\ x # Idle /\ y.op = x.op /\ Passed(y) = Passed(x) /\ MarketOf(y) = MarketOf(x)
    BY <1>1, <1>3, <2>1, <2>2 DEF FinalsNotOpen, Final, Running
  <2>3. CASE x # Idle /\ Entered(x, y)
    <3>1. /\ ~ Refuses(x, Head(x.left)) /\ y.op = x.op
          /\ Passed(y) = Passed(x) \cup {Head(x.left)} /\ MarketOf(y) = MarketOf(x)
      BY <2>3 DEF Entered
    <3>2. CASE Head(x.left) = "row"
      <4>1. status[MarketOf(x)] = "CLOSED"
        BY <1>1, <1>3, <3>1, <3>2 DEF Refuses
      <4> QED
        BY <1>3, <2>1, <3>1, <4>1
    <3>3. CASE Head(x.left) # "row"
      BY <1>1, <1>3, <2>1, <2>3, <3>1, <3>3 DEF FinalsNotOpen, Final, Running
    <3> QED
      BY <3>2, <3>3
  <2> QED
    BY <1>1, <1>3, <2>2, <2>3, OwnSteps
<1> QED
  BY <1>2, <1>3

\* A settlement that has locked the open orders has all of them.
LEMMA HaveAllKept ==
    ASSUME BaseInv, LocksInv, FinalsHaveAll, NEW t \in Txns, Step(t)
    PROVE  FinalsHaveAll'
<1> SUFFICES ASSUME NEW u \in Txns, Final(u, "open")', ~ Final(u, "release")'
             PROVE  In(MarketOf(txn'[u]), open') \subseteq Range(txn'[u].found)
  BY DEF FinalsHaveAll, MarketOf, In
<1>1. /\ txn'[u] # Idle /\ txn'[u].op \in {"settle", "void"}
      /\ "open" \in Passed(txn'[u]) /\ "release" \notin Passed(txn'[u])
  BY DEF Final, Running, Passed
<1>2. CASE u # t
  <2>1. txn'[u] = txn[u]
    BY <1>2, OthersKept
  <2>2. Final(u, "open") /\ ~ Final(u, "release")
    BY <1>1, <2>1 DEF Final, Running
  <2>3. In(MarketOf(txn[u]), open) \subseteq Range(txn[u].found)
    BY <2>2 DEF FinalsHaveAll
  <2>4. ASSUME NEW o \in open', o \notin open, o.market = MarketOf(txn[u]) PROVE FALSE
    <3>1. /\ txn[t] # Idle /\ txn[t].op = "place" /\ "book" \in Passed(txn[t])
          /\ MarketOf(txn[t]) = MarketOf(txn[u])
      BY <2>4, OpenChanges
    <3> QED
      BY <1>2, <2>2, <3>1, MarketAlone
  <2> QED
    BY <2>1, <2>3, <2>4 DEF In
<1>3. CASE u = t
  <2> DEFINE x == txn[t]
             y == txn'[t]
  <2>1. open' = open
    BY <1>1, <1>3, OwnSteps DEF Quiet
  <2>2. CASE /\ x # Idle /\ y.op = x.op /\ y.found = x.found
             /\ Passed(y) = Passed(x) /\ MarketOf(y) = MarketOf(x)
    <3>1. Final(t, "open") /\ ~ Final(t, "release")
      BY <1>1, <1>3, <2>2 DEF Final, Running
    <3> QED
      BY <1>3, <2>1, <2>2, <3>1 DEF FinalsHaveAll
  <2>3. CASE x # Idle /\ Entered(x, y)
    <3>1. /\ y.op = x.op /\ Proper(x) /\ x.left # <<>>
          /\ Range(x.found) \subseteq In(MarketOf(x), placed)
          /\ y.found \in Found(x, Head(x.left))
          /\ Passed(y) = Passed(x) \cup {Head(x.left)} /\ MarketOf(y) = MarketOf(x)
      BY <2>3 DEF Entered
    <3>2. Head(x.left) = "open"
      <4>1. x.op \in {"settle", "void"} /\ x.left \in Remainders(x.op)
        BY <1>1, <1>3, <3>1 DEF Proper
      <4> QED
        BY <1>1, <1>3, <3>1, <4>1, FinalStages
    <3>3. Range(y.found) = In(MarketOf(x), open)
      BY <3>1, <3>2, FoundFacts
    <3> QED
      BY <1>3, <2>1, <3>1, <3>3
  <2> QED
    BY <1>1, <1>3, <2>2, <2>3, OwnSteps
<1> QED
  BY <1>2, <1>3

\* A settlement that has locked the open orders, and a cancellation that has
\* found its order open, are on different markets.
LEMMA AloneKept ==
    ASSUME BaseInv, LocksInv, RefundsStayValid, FinalsNotOpen, FinalsHaveAll, FinalsAlone,
           NEW t \in Txns, Step(t)
    PROVE  FinalsAlone'
<1> SUFFICES ASSUME NEW v \in Txns, NEW u \in Txns, Final(v, "release")', Refunds(u)',
                    MarketOf(txn'[u]) = MarketOf(txn'[v])
             PROVE  FALSE
  BY DEF FinalsAlone, MarketOf
<1>1. /\ txn'[v] # Idle /\ txn'[v].op \in {"settle", "void"} /\ "release" \in Passed(txn'[v])
      /\ txn'[u] # Idle /\ txn'[u].op = "cancel" /\ txn'[u].left = <<>>
      /\ u # v
  BY DEF Final, Refunds, Running, Passed
<1>2. u # t => txn'[u] = txn[u] /\ Refunds(u)
  BY <1>1, OthersKept DEF Refunds, Running
<1>3. v # t => txn'[v] = txn[v] /\ Final(v, "release")
  BY <1>1, OthersKept DEF Final, Running
<1>4. CASE u # t /\ v # t
  BY <1>2, <1>3, <1>4 DEF FinalsAlone
<1>5. CASE v = t
  <2> DEFINE x == txn[t]
             y == txn'[t]
  <2>1. Refunds(u) /\ txn'[u] = txn[u]
    BY <1>1, <1>2, <1>5
  <2>2. CASE /\ x # Idle /\ y.op = x.op /\ Passed(y) = Passed(x) /\ MarketOf(y) = MarketOf(x)
    <3>1. Final(t, "release")
      BY <1>1, <1>5, <2>2 DEF Final, Running
    <3> QED
      BY <1>5, <2>1, <2>2, <3>1 DEF FinalsAlone
  <2>3. CASE x # Idle /\ Entered(x, y)
    <3>1. /\ y.op = x.op /\ Proper(x) /\ x.left # <<>> /\ x.need = <<>>
          /\ Passed(y) = Passed(x) \cup {Head(x.left)} /\ MarketOf(y) = MarketOf(x)
      BY <2>3 DEF Entered
    <3>2. CASE "release" \in Passed(x)
      <4>1. Final(t, "release")
        BY <1>1, <1>5, <2>3, <3>1, <3>2 DEF Final, Running
      <4> QED
        BY <1>5, <2>1, <3>1, <4>1 DEF FinalsAlone
    <3>3. CASE "release" \notin Passed(x)
      <4>1. x.op \in {"settle", "void"} /\ x.left \in Remainders(x.op)
        BY <1>1, <1>5, <3>1 DEF Proper
      <4>2. "open" \in Passed(x)
        BY <1>1, <1>5, <3>1, <3>3, <4>1, FinalStages
      <4>3. Final(t, "open") /\ ~ Final(t, "release")
        BY <2>3, <3>3, <4>1, <4>2 DEF Final, Running
      <4>4. In(MarketOf(x), open) \subseteq Range(x.found)
        BY <4>3 DEF FinalsHaveAll
      <4>5. /\ txn[u].on \in open /\ OrderRow(txn[u].on) \in Held(u)
            /\ txn[u].on.market = MarketOf(x)
        BY <1>5, <2>1, <3>1, HoldsRefund DEF RefundsStayValid
      <4>6. txn[u].on \in Range(x.found)
        BY <4>4, <4>5 DEF In
      <4>7. OrderRow(txn[u].on) \in Held(t)
        BY <2>3, <3>1, <4>6, HoldsFound
      <4> QED
        BY <1>1, <1>5, <4>5, <4>7, HeldByOne
    <3> QED
      BY <3>2, <3>3
  <2> QED
    BY <1>1, <1>5, <2>2, <2>3, OwnSteps
<1>6. CASE u = t
  <2> DEFINE x == txn[t]
             y == txn'[t]
  <2>1. Final(v, "release") /\ txn'[v] = txn[v]
    BY <1>1, <1>3, <1>6
  <2>2. CASE /\ x # Idle /\ y.op = x.op /\ y.left = x.left /\ MarketOf(y) = MarketOf(x)
    <3>1. Refunds(t)
      BY <1>1, <1>6, <2>2 DEF Refunds, Running
    <3> QED
      BY <1>6, <2>1, <2>2, <3>1 DEF FinalsAlone
  <2>3. CASE Entered(x, y)
    <3>1. /\ Proper(x) /\ x.left # <<>> /\ ~ Refuses(x, Head(x.left))
          /\ y.op = x.op /\ y.left = Tail(x.left) /\ MarketOf(y) = MarketOf(x)
      BY <2>3 DEF Entered
    <3>2. x.op \in Op /\ x.left \in Remainders(x.op)
      BY <3>1 DEF Proper, Run
    <3>3. y.left \in Remainders(y.op) /\ Now(y) = Head(x.left)
      BY <3>1, <3>2, StepEntered
    <3>4. Head(x.left) = "refund"
      <4>1. y.op \in {"cancel"}
        BY <1>1, <1>6
      <4> QED
        BY <1>1, <1>6, <3>3, <4>1, CancelStages
    <3>5. status[MarketOf(x)] = "OPEN"
      BY <3>1, <3>4 DEF Refuses
    <3>6. Final(v, "row") /\ MarketOf(txn[v]) = MarketOf(x)
      BY <1>6, <2>1, <3>1, FinalOrder
    <3> QED
      BY <3>5, <3>6 DEF FinalsNotOpen
  <2> QED
    BY <1>1, <1>6, <2>2, <2>3, OwnSteps
<1> QED
  BY <1>1, <1>4, <1>5, <1>6

-----------------------------------------------------------------------------
(* The invariant holds *)

\* To begin with nothing runs and no lock is held.
LEMMA InitInvariant == Init => IInv
<1> SUFFICES ASSUME Init PROVE IInv
  OBVIOUS
<1>1. /\ placed = Standing /\ open = Standing /\ settled = {}
      /\ status = [m \in Markets |-> "OPEN"]
      /\ pairs = [m \in Markets |-> <<>>]
      /\ holder = [k \in Locks |-> Nobody]
      /\ txn = [t \in Txns |-> Idle]
  BY DEF Init
<1>2. \A t \in Txns : txn[t] = Idle /\ ~ Running(t)
  BY <1>1 DEF Running
<1>3. \A t \in Txns : Held(t) = {}
  BY <1>1, LockLadderAssumption DEF Held
<1>4. BaseInv
  <2>1. \A S : <<>> \in Seq(S)
    OBVIOUS
  <2> QED
    BY <1>1, <2>1, LockLadderAssumption DEF BaseInv
<1>5. LocksInv
  BY <1>2, <1>3 DEF LocksInv
<1> QED
  BY <1>2, <1>4, <1>5 DEF IInv, PlansStayValid, RefundsStayValid, FinalsNotOpen, FinalsHaveAll,
                         FinalsAlone, Final, Refunds

\* Every step keeps every part of the invariant.
LEMMA NextInvariant == IInv /\ [Next]_vars => IInv'
<1> SUFFICES ASSUME IInv, [Next]_vars PROVE IInv'
  OBVIOUS
<1>1. ASSUME NEW t \in Txns, Step(t) PROVE IInv'
  BY <1>1, BaseKept, LocksKept, PlansKept, RefundsKept, NotOpenKept, HaveAllKept, AloneKept DEF IInv
<1>2. CASE UNCHANGED vars
  <2> USE <1>2 DEF vars
  <2>1. BaseInv'
    BY DEF IInv, BaseInv, In
  <2>2. LocksInv'
    BY DEF IInv, LocksInv, Held, In
  <2>3. PlansStayValid' /\ RefundsStayValid'
    BY DEF IInv, PlansStayValid, RefundsStayValid, Running, Refunds
  <2>4. FinalsNotOpen' /\ FinalsHaveAll' /\ FinalsAlone'
    BY DEF IInv, FinalsNotOpen, FinalsHaveAll, FinalsAlone, Final, Refunds, Running, In
  <2> QED
    BY <2>1, <2>2, <2>3, <2>4 DEF IInv
<1> QED
  BY <1>1, <1>2 DEF Next, Step

\* The invariant, of every reachable state.
THEOREM LadderInvariant == Spec => []IInv
<1>1. Spec => Init /\ [][Next]_vars
  BY PTL DEF Spec
<1> QED
  BY <1>1, InitInvariant, NextInvariant, PTL
-----------------------------------------------------------------------------
(* Deadlocks *)

Wanted(t) == Head(txn[t].need)

\* The market is what a transaction that locks the rows of orders has, too.
InBook(t) ==
    \/ txn[t].op = "place" /\ "book" \in Passed(txn[t])
    \/ txn[t].op \in {"close", "settle", "void"} /\ "open" \in Passed(txn[t])

\* Who waits wants a lock of its step's kind that it has not, and another has.
LEMMA WaitFacts ==
    ASSUME BaseInv, LocksInv, NEW t \in Txns, Waits(t)
    PROVE  /\ txn[t] # Idle /\ Lawful(txn[t], Held(t)) /\ Proper(txn[t])
           /\ txn[t].op \in Op /\ txn[t].left \in Remainders(txn[t].op)
           /\ Wanted(t) \in Locks /\ Wanted(t) \notin Held(t)
           /\ Wanted(t).kind = Kind(Now(txn[t])) /\ Fits(txn[t], Wanted(t))
           /\ Len(txn[t].need) \in Nat \ {0} /\ Wanted(t) = txn[t].need[1]
           /\ holder[Wanted(t)] \in Txns \ {t} /\ Wanted(t) \in Held(holder[Wanted(t)])
           /\ \A k \in Held(t) : k \in Locks /\ Fits(txn[t], k)
<1> DEFINE x == txn[t]
<1>1. x # Idle /\ x.need # <<>> /\ holder[Wanted(t)] \notin {Nobody, t}
  BY DEF Waits, Running, Wanted
<1>2. /\ Lawful(x, Held(t)) /\ Proper(x) /\ x.op \in Op /\ x.left \in Remainders(x.op)
      /\ x.need \in Seq(Locks)
  BY <1>1 DEF LocksInv, Lawful, Proper, Run
<1>3. /\ Len(x.need) \in Nat \ {0} /\ Wanted(t) = x.need[1] /\ Wanted(t) \in Locks
      /\ Wanted(t) \in Range(x.need)
  <2>1. Len(x.need) \in Nat \ {0} /\ Wanted(t) = x.need[1] /\ 1 \in 1 .. Len(x.need)
    BY <1>1, <1>2, LenProperties, HeadTailProperties DEF Wanted
  <2> QED
    BY <1>2, <2>1, SeqRange
<1>4. /\ \A k \in Range(x.need) : k.kind = Kind(Now(x))
      /\ \A k \in Held(t) \cup Range(x.need) : Fits(x, k)
  BY <1>2 DEF Lawful, Keys
<1>5. holder[Wanted(t)] \in Txns \cup {Nobody}
  BY <1>3 DEF BaseInv
<1>6. Wanted(t) \in Held(holder[Wanted(t)]) /\ Wanted(t) \notin Held(t)
  BY <1>1, <1>3 DEF Held
<1>7. Held(t) \subseteq Locks
  BY DEF Held
<1> QED
  BY <1>1, <1>2, <1>3, <1>4, <1>5, <1>6, <1>7

\* Those who wait in a deadlock wait for each other.
LEMMA StuckFacts ==
    ASSUME BaseInv, LocksInv, NEW D \in SUBSET Txns, Stuck(D), NEW t \in D
    PROVE  /\ Waits(t)
           /\ holder[Wanted(t)] \in D \ {t} /\ Wanted(t) \in Held(holder[Wanted(t)])
  BY WaitFacts DEF Stuck, Wanted

\* Who has the market's lock does not want another of that kind.
LEMMA MarketWanted ==
    ASSUME BaseInv, LocksInv, NEW t \in Txns, Waits(t), NEW k \in Held(t),
           k.kind \in {"advisory", "row"}
    PROVE  Wanted(t).kind # k.kind
<1>1. /\ k \in Locks /\ k.market = MarketOf(txn[t])
      /\ Wanted(t) \in Locks /\ Wanted(t) \notin Held(t)
      /\ Wanted(t).kind \in {"advisory", "row"} => Wanted(t).market = MarketOf(txn[t])
  BY WaitFacts DEF Fits
<1> QED
  BY <1>1, LockKinds

\* Who has the lock of a market or of an order's row is past the step for it.
LEMMA KindPassed ==
    ASSUME BaseInv, LocksInv, NEW t \in Txns, Waits(t), NEW k \in Held(t)
    PROVE  /\ k.kind = "order" =>
                 InBook(t) \/ (txn[t].op = "cancel" /\ k = OrderRow(txn[t].on))
           /\ k.kind = "row" =>
                 /\ txn[t].op \in {"close", "settle", "void"}
                 /\ Wanted(t).kind \in {"order", "wallet"}
           /\ k.kind = "advisory" => Wanted(t).kind \in {"row", "order", "wallet"}
           /\ k.kind = "wallet" /\ txn[t].op \in {"close", "settle", "void"} =>
                 InBook(t) /\ "release" \in Passed(txn[t])
           /\ InBook(t) => Wanted(t).kind \in {"order", "wallet"}
<1> DEFINE x == txn[t]
<1>1. /\ x.op \in Op /\ x.left \in Remainders(x.op)
      /\ Wanted(t).kind = Kind(Now(x)) /\ Fits(x, Wanted(t)) /\ Fits(x, k) /\ k \in Locks
  BY WaitFacts
<1>2. k.kind \in {"advisory", "row"} => Wanted(t).kind # k.kind
  BY MarketWanted
<1>3. PICK s \in Passed(x) : k.kind = Kind(s)
  BY <1>1 DEF Fits
<1>4. PICK w \in Passed(x) : Wanted(t).kind = Kind(w)
  BY <1>1 DEF Fits
<1>5. CASE x.op \in {"place"}
  BY <1>1, <1>2, <1>3, <1>4, <1>5, PlaceStages DEF Kind, InBook
<1>6. CASE x.op \in {"cancel"}
  BY <1>1, <1>2, <1>3, <1>4, <1>6, CancelStages DEF Kind, InBook, Fits, OrderRow, Wallet
<1>7. CASE x.op \in {"close"}
  BY <1>1, <1>2, <1>3, <1>4, <1>7, CloseStages DEF Kind, InBook
<1>8. CASE x.op \in {"settle", "void"}
  BY <1>1, <1>2, <1>3, <1>4, <1>8, FinalStages DEF Kind, InBook
<1> QED
  BY <1>1, <1>5, <1>6, <1>7, <1>8 DEF Op

\* Of those that have locked the rows of a market's orders, at most one is no
\* placement, and at most one is; a settlement is alone.
LEMMA BookShared ==
    ASSUME LocksInv, NEW t \in Txns, NEW u \in Txns, txn[t] # Idle, txn[u] # Idle,
           InBook(t), InBook(u), MarketOf(txn[t]) = MarketOf(txn[u]), t # u
    PROVE  /\ txn[t].op \in {"place", "close"} /\ txn[u].op \in {"place", "close"}
           /\ txn[t].op # txn[u].op
<1>1. txn[t].op \notin {"settle", "void"}
  BY MarketAlone DEF InBook, Final, Running
<1>2. txn[u].op \notin {"settle", "void"}
  BY MarketAlone DEF InBook, Final, Running
<1>3. ~ (txn[t].op = "place" /\ txn[u].op = "place")
  BY HoldsMarket, HeldByOne DEF InBook
<1>4. ~ (txn[t].op = "close" /\ txn[u].op = "close")
  BY HoldsMarket, HeldByOne DEF InBook
<1> QED
  BY <1>1, <1>2, <1>3, <1>4 DEF InBook

\* A deadlock in which nobody waits for a wallet would be one of a placement
\* and a closing over the rows, which both take in the orders' sequence.
LEMMA WalletWanted ==
    ASSUME IInv, NEW D \in SUBSET Txns, Stuck(D)
    PROVE  \E t \in D : Wanted(t).kind = "wallet"
<1> SUFFICES ASSUME \A t \in D : Wanted(t).kind # "wallet" PROVE FALSE
  OBVIOUS
<1> USE DEF IInv
<1> DEFINE next(t) == holder[Wanted(t)]
<1>1. ASSUME NEW t \in D
      PROVE  /\ t \in Txns /\ Waits(t) /\ next(t) \in D /\ next(t) # t
             /\ Wanted(t) \in Held(next(t)) /\ Wanted(t) \in Locks
  BY StuckFacts, WaitFacts
<1>2. ASSUME NEW t \in D, NEW k \in Held(t), k.kind = "order"
      PROVE  InBook(t) /\ Wanted(t).kind = "order"
  <2>1. InBook(t) \/ (txn[t].op = "cancel" /\ k = OrderRow(txn[t].on))
    BY <1>1, <1>2, KindPassed
  <2>2. InBook(t) => Wanted(t).kind = "order"
    BY <1>1, KindPassed
  <2>3. CASE txn[t].op = "cancel" /\ k = OrderRow(txn[t].on)
    <3>1. Wanted(t) \in {OrderRow(txn[t].on), Wallet(txn[t].on.user)} /\ Wanted(t) \notin Held(t)
      BY <1>1, <2>3, WaitFacts DEF Fits
    <3> QED
      BY <2>3, <3>1 DEF Wallet
  <2> QED
    BY <2>1, <2>2, <2>3
<1>3. \E t \in D : Wanted(t).kind = "order"
  <2>1. PICK a \in D : TRUE
    BY DEF Stuck
  <2>2. \A t \in D : Wanted(t).kind = "row" => Wanted(next(t)).kind = "order"
    BY <1>1, KindPassed
  <2>3. \A t \in D : Wanted(t).kind = "advisory" => Wanted(next(t)).kind \in {"row", "order"}
    BY <1>1, KindPassed
  <2>4. Wanted(a).kind \in {"advisory", "row", "order"}
    BY <1>1, LockKinds
  <2> HIDE DEF next
  <2> QED
    BY <1>1, <2>2, <2>3, <2>4
<1>4. PICK a \in D : Wanted(a).kind = "order"
  BY <1>3
<1> DEFINE b == next(a)
           c == next(b)
           d == next(c)
<1>5. /\ b \in D /\ Wanted(a) \in Held(b)
      /\ InBook(b) /\ Wanted(b).kind = "order"
  BY <1>1, <1>2, <1>4
<1>6. /\ c \in D /\ c # b /\ Wanted(b) \in Held(c)
      /\ InBook(c) /\ Wanted(c).kind = "order"
  BY <1>1, <1>2, <1>5
<1>7. /\ d \in D /\ d # c /\ Wanted(c) \in Held(d) /\ InBook(d)
  BY <1>1, <1>2, <1>6
<1> HIDE DEF b, c, d, next
<1>8. /\ b \in Txns /\ c \in Txns /\ d \in Txns
      /\ txn[b] # Idle /\ txn[c] # Idle /\ txn[d] # Idle
  BY <1>1, <1>5, <1>6, <1>7, WaitFacts
<1>9. MarketOf(txn[b]) = MarketOf(txn[c]) /\ MarketOf(txn[c]) = MarketOf(txn[d])
  <2>1. /\ Wanted(b).order.market = MarketOf(txn[b]) /\ Wanted(b).order.market = MarketOf(txn[c])
    BY <1>1, <1>5, <1>6, WaitFacts DEF Fits
  <2>2. /\ Wanted(c).order.market = MarketOf(txn[c]) /\ Wanted(c).order.market = MarketOf(txn[d])
    BY <1>1, <1>6, <1>7, WaitFacts DEF Fits
  <2> QED
    BY <2>1, <2>2
<1>10. /\ txn[b].op \in {"place", "close"} /\ txn[c].op \in {"place", "close"}
       /\ txn[b].op # txn[c].op
  BY <1>5, <1>6, <1>8, <1>9, BookShared
<1>11. txn[d].op \in {"place", "close"} /\ txn[c].op # txn[d].op
  BY <1>6, <1>7, <1>8, <1>9, BookShared
<1>12. d = b
  <2>1. d # b => txn[d].op # txn[b].op
    BY <1>5, <1>7, <1>8, <1>9, BookShared
  <2> QED
    BY <1>10, <1>11, <2>1
<1>13. Wanted(c).order.seq < Wanted(b).order.seq
  <2>1. /\ Ascends(txn[b], Held(b)) /\ Len(txn[b].need) \in Nat \ {0}
        /\ Wanted(b) = txn[b].need[1]
    BY <1>1, <1>5, WaitFacts DEF Lawful
  <2>2. 1 \in 1 .. Len(txn[b].need) /\ txn[b].need[1].kind = "order"
    BY <1>5, <2>1
  <2> QED
    BY <1>6, <1>7, <1>10, <1>12, <2>1, <2>2 DEF Ascends
<1>14. Wanted(b).order.seq < Wanted(c).order.seq
  <2>1. /\ Ascends(txn[c], Held(c)) /\ Len(txn[c].need) \in Nat \ {0}
        /\ Wanted(c) = txn[c].need[1]
    BY <1>1, <1>6, WaitFacts DEF Lawful
  <2>2. 1 \in 1 .. Len(txn[c].need) /\ txn[c].need[1].kind = "order"
    BY <1>6, <2>1
  <2> QED
    BY <1>5, <1>6, <1>10, <2>1, <2>2 DEF Ascends
<1>15. Wanted(b).order.seq \in Nat /\ Wanted(c).order.seq \in Nat
  <2>1. Wanted(b).order \in Orders /\ Wanted(c).order \in Orders
    BY <1>1, <1>5, <1>6, LockKinds
  <2> QED
    BY <2>1, LockLadderAssumption
<1> QED
  BY <1>13, <1>14, <1>15

\* A deadlock in one market without a placement would be one of a settlement
\* that has paid and a cancellation that has found its order open.
LEMMA PlacementWanted ==
    ASSUME IInv, NEW D \in SUBSET Txns, Stuck(D), NEW m, \A t \in D : MarketOf(txn[t]) = m
    PROVE  \E t \in D : txn[t].op = "place"
<1> SUFFICES ASSUME \A t \in D : txn[t].op # "place" PROVE FALSE
  OBVIOUS
<1> USE DEF IInv
<1> DEFINE next(t) == holder[Wanted(t)]
<1>1. ASSUME NEW t \in D
      PROVE  /\ t \in Txns /\ Waits(t) /\ next(t) \in D /\ next(t) # t
             /\ Wanted(t) \in Held(next(t)) /\ Wanted(t) \in Locks /\ txn[t] # Idle
             /\ txn[t].op \in {"cancel", "close", "settle", "void"}
  BY StuckFacts, WaitFacts DEF Op
<1>2. ASSUME NEW t \in D, NEW k \in Held(t), k.kind = "wallet"
      PROVE  InBook(t) /\ "release" \in Passed(txn[t])
  <2>1. CASE txn[t].op = "cancel"
    <3>1. /\ Wanted(t) \in {OrderRow(txn[t].on), Wallet(txn[t].on.user)} /\ Wanted(t) \notin Held(t)
          /\ k \in {OrderRow(txn[t].on), Wallet(txn[t].on.user)}
          /\ Wanted(t).kind = Kind(Now(txn[t]))
          /\ \E s \in Passed(txn[t]) : k.kind = Kind(s)
      BY <1>1, <2>1, WaitFacts DEF Fits
    <3>2. k = Wallet(txn[t].on.user) /\ Wanted(t) = OrderRow(txn[t].on)
      BY <1>2, <3>1 DEF OrderRow
    <3>3. Kind(Now(txn[t])) = "order"
      BY <3>1, <3>2 DEF OrderRow
    <3>4. txn[t].op \in {"cancel"} /\ txn[t].left \in Remainders(txn[t].op)
      BY <1>1, <2>1, WaitFacts
    <3> QED
      BY <1>2, <3>1, <3>3, <3>4, CancelStages DEF Kind
  <2> QED
    BY <1>1, <1>2, <2>1, KindPassed
<1>3. ASSUME NEW t \in D, NEW k \in Held(t), k.kind = "order", ~ InBook(t)
      PROVE  Wanted(t).kind = "wallet" /\ Refunds(t)
  <2>1. txn[t].op = "cancel" /\ k = OrderRow(txn[t].on)
    BY <1>1, <1>3, KindPassed
  <2>2. /\ Wanted(t) \in {OrderRow(txn[t].on), Wallet(txn[t].on.user)} /\ Wanted(t) \notin Held(t)
        /\ Wanted(t).kind = Kind(Now(txn[t]))
        /\ \E s \in Passed(txn[t]) : k.kind = Kind(s)
    BY <1>1, <2>1, WaitFacts DEF Fits
  <2>3. Wanted(t).kind = "wallet"
    BY <2>1, <2>2 DEF Wallet
  <2>4. txn[t].op \in {"cancel"} /\ txn[t].left \in Remainders(txn[t].op)
    BY <1>1, <2>1, WaitFacts
  <2>5. txn[t].left = <<>>
    BY <2>2, <2>3, <2>4, CancelStages DEF Kind
  <2> QED
    BY <1>1, <2>1, <2>3, <2>5 DEF Refunds, Running
<1>4. ASSUME NEW t \in D, InBook(t)
      PROVE  Row(m) \in Held(t) /\ txn[t].op \in {"close", "settle", "void"}
  BY <1>1, <1>4, HoldsMarket DEF InBook
<1>5. \E e \in D : Row(m) \in Held(e)
  <2>1. PICK a \in D : TRUE
    BY DEF Stuck
  <2>2. \A t \in D : Wanted(t).kind = "wallet" => Row(m) \in Held(next(t))
    BY <1>1, <1>2, <1>4
  <2>3. ASSUME NEW t \in D, Wanted(t).kind = "order" PROVE \E e \in D : Row(m) \in Held(e)
    <3>1. CASE InBook(next(t))
      BY <1>1, <1>4, <3>1
    <3>2. CASE ~ InBook(next(t))
      <4>1. next(t) \in D /\ Wanted(next(t)).kind = "wallet"
        BY <1>1, <1>3, <2>3, <3>2
      <4> HIDE DEF next
      <4> QED
        BY <1>1, <2>2, <4>1
    <3> QED
      BY <3>1, <3>2
  <2>4. ASSUME NEW t \in D, Wanted(t).kind = "row" PROVE Row(m) \in Held(next(t))
    <3>1. Wanted(t).market = MarketOf(txn[t]) /\ Wanted(t) = Row(Wanted(t).market)
      BY <1>1, <2>4, WaitFacts, LockKinds DEF Fits
    <3> QED
      BY <1>1, <3>1
  <2>5. \A t \in D : Wanted(t).kind = "advisory" =>
            next(t) \in D /\ Wanted(next(t)).kind \in {"row", "order", "wallet"}
    BY <1>1, KindPassed
  <2>6. Wanted(a).kind \in {"advisory", "row", "order", "wallet"}
    BY <1>1, LockKinds
  <2> HIDE DEF next
  <2> QED
    BY <1>1, <2>2, <2>3, <2>4, <2>5, <2>6
<1>6. PICK e \in D : Row(m) \in Held(e)
  BY <1>5
<1>7. \A t \in D : InBook(t) => t = e
  BY <1>4, <1>6, HeldByOne
<1>8. Wanted(e).kind \in {"order", "wallet"} /\ txn[e].op \in {"close", "settle", "void"}
  <2>1. Row(m).kind = "row"
    BY DEF Row
  <2> QED
    BY <1>1, <1>6, <2>1, KindPassed
<1>9. Wanted(e).kind # "wallet"
  BY <1>1, <1>2, <1>7
<1> DEFINE u == next(e)
<1>10. u \in D /\ u # e /\ Wanted(u).kind = "wallet" /\ Refunds(u)
  <2>1. u \in D /\ u # e /\ Wanted(e) \in Held(u)
    BY <1>1
  <2>2. ~ InBook(u)
    BY <1>7, <2>1
  <2> HIDE DEF u
  <2> QED
    BY <1>3, <1>8, <1>9, <2>1, <2>2
<1>11. "release" \in Passed(txn[e]) /\ \E k \in Held(e) : k.kind = "wallet"
  <2> HIDE DEF u
  <2>1. next(u) \in D /\ Wanted(u) \in Held(next(u))
    BY <1>1, <1>10
  <2>2. InBook(next(u)) /\ "release" \in Passed(txn[next(u)])
    BY <1>2, <1>10, <2>1
  <2>3. next(u) = e
    BY <1>7, <2>1, <2>2
  <2> QED
    BY <1>10, <2>1, <2>2, <2>3
<1> HIDE DEF u
<1>12. txn[e].op \in {"settle", "void"}
  <2>1. CASE txn[e].op \in {"close"}
    <3>1. txn[e].left \in Remainders(txn[e].op) /\ Wanted(e).kind = Kind(Now(txn[e]))
      BY <1>1, WaitFacts
    <3>2. Kind(Now(txn[e])) = "wallet"
      BY <1>11, <2>1, <3>1, CloseStages DEF Kind
    <3> QED
      BY <1>9, <3>1, <3>2
  <2> QED
    BY <1>8, <2>1
<1>13. Final(e, "release")
  BY <1>1, <1>11, <1>12 DEF Final, Running
<1> QED
  BY <1>1, <1>10, <1>13 DEF FinalsAlone

\* Among the sets of transactions that wait for each other there is a smallest.
LEMMA CycleInStuck ==
    ASSUME IsFiniteSet(Txns), NEW D \in SUBSET Txns, Stuck(D)
    PROVE  \E C \in SUBSET Txns : Cycle(C)
<1> DEFINE AllStuck == {E \in SUBSET Txns : Stuck(E)}
           sizes == {Cardinality(E) : E \in AllStuck}
<1>1. \A E \in AllStuck : IsFiniteSet(E) /\ Cardinality(E) \in Nat
  BY FS_Subset, FS_CardinalityType
<1>2. D \in AllStuck
  OBVIOUS
<1> HIDE DEF AllStuck
<1>3. sizes \subseteq Nat /\ sizes # {}
  BY <1>1, <1>2
<1>4. PICK n \in sizes : \A k \in sizes : n =< k
  BY <1>3, LeastExists
<1>5. PICK C \in AllStuck : Cardinality(C) = n
  BY <1>4
<1>6. ASSUME NEW E \in SUBSET C, Stuck(E) PROVE E = C
  <2>1. E \in AllStuck
    BY <1>5, <1>6 DEF AllStuck
  <2>2. Cardinality(C) =< Cardinality(E)
    BY <1>4, <1>5, <2>1
  <2>3. IsFiniteSet(C) /\ Cardinality(E) =< Cardinality(C)
        /\ (Cardinality(E) = Cardinality(C) => E = C)
    BY <1>1, <1>5, FS_Subset
  <2> QED
    BY <1>1, <1>5, <2>1, <2>2, <2>3
<1>7. C \in SUBSET Txns /\ Stuck(C)
  BY <1>5 DEF AllStuck
<1> QED
  BY <1>6, <1>7 DEF Cycle

-----------------------------------------------------------------------------
(* Theorems *)

\* Somebody can always go on, or there is a cycle to break.
SomebodyGoesOn ==
    (\E t \in Txns : Running(t)) =>
        \/ \E t \in Txns : Running(t) /\ ~ Waits(t)
        \/ \E D \in SUBSET Txns : Cycle(D)

\* What the transactions hold, need and have found are locks and orders that
\* there are, and the open orders and the allocations are of orders placed.
THEOREM LadderTypeCorrect == Spec => []TypeOK
<1>1. ASSUME IInv PROVE TypeOK
  <2>1. BaseInv /\ LocksInv
    BY <1>1 DEF IInv
  <2>2. \A m \in Markets : \A p \in Range(pairs[m]) : p \in In(m, placed) \X In(m, placed)
    <3> SUFFICES ASSUME NEW m \in Markets
                 PROVE  Range(pairs[m]) \subseteq In(m, placed) \X In(m, placed)
      OBVIOUS
    <3> DEFINE P == In(m, placed) \X In(m, placed)
    <3>1. pairs[m] \in Seq(P)
      BY <2>1 DEF BaseInv
    <3> HIDE DEF P
    <3>2. Range(pairs[m]) \subseteq P
      BY <3>1, SeqRange
    <3> QED
      BY <3>2 DEF P
  <2>3. ASSUME NEW t \in Txns, txn[t] # Idle PROVE IsRun(txn[t])
    <3> DEFINE x == txn[t]
    <3>1. /\ Proper(x) /\ x \in Run /\ x.op \in Op /\ x.left \in Remainders(x.op)
          /\ x.on \in (IF x.op \in {"place", "cancel"} THEN Orders ELSE Markets)
          /\ x.attempt \in 1 .. Attempts /\ x.need \in Seq(Locks)
          /\ Range(x.found) \subseteq In(MarketOf(x), placed)
      BY <2>1, <2>3 DEF LocksInv, Lawful, Proper, Run
    <3>2. Range(x.left) \subseteq Range(Steps(x.op))
      BY <3>1, LeftRange
    <3>3. Range(x.need) \subseteq Locks
      BY <3>1, SeqRange
    <3> QED
      BY <3>1, <3>2, <3>3 DEF IsRun, In
  <2> QED
    BY <2>1, <2>2, <2>3 DEF TypeOK, BaseInv
<1> QED
  BY <1>1, LadderInvariant, PTL

\* What a placement or a closing read while it acquired the rows is true until
\* it commits: the orders that it matches or releases stay open (book.ts,
\* order-repository.ts).
THEOREM PlansStayValidHolds == Spec => []PlansStayValid
<1>1. IInv => PlansStayValid
  BY DEF IInv
<1> QED
  BY <1>1, LadderInvariant, PTL

\* Transactions on one market deadlock only when a placement, which alone is
\* tried again, is among them (place-order.ts, release-unmatched.ts, run.ts).
THEOREM CyclesNeedPlacementHolds == Spec => []CyclesNeedPlacement
<1>1. ASSUME IInv PROVE CyclesNeedPlacement
  <2> SUFFICES ASSUME NEW D \in SUBSET Txns, Stuck(D),
                      \A s, t \in D : MarketOf(txn[s]) = MarketOf(txn[t])
               PROVE  \E t \in D : txn[t].op = "place"
    BY DEF CyclesNeedPlacement
  <2>1. PICK a \in D : TRUE
    BY DEF Stuck
  <2>2. \A t \in D : MarketOf(txn[t]) = MarketOf(txn[a])
    OBVIOUS
  <2> QED
    BY <1>1, <2>2, PlacementWanted
<1> QED
  BY <1>1, LadderInvariant, PTL

\* The rows of the orders and of the market are never what a deadlock is made
\* of alone: someone in it waits for a wallet.
THEOREM CyclesNeedWalletHolds == Spec => []CyclesNeedWallet
<1>1. ASSUME IInv PROVE CyclesNeedWallet
  BY <1>1, WalletWanted DEF CyclesNeedWallet, Wanted
<1> QED
  BY <1>1, LadderInvariant, PTL

\* No transaction waits but for one that runs: as long as some run, one of them
\* does not wait, or some form a cycle, of which PostgreSQL aborts one (uow.ts).
THEOREM SomebodyGoesOnHolds ==
    ASSUME IsFiniteSet(Txns)
    PROVE  Spec => []SomebodyGoesOn
<1>1. ASSUME IInv PROVE SomebodyGoesOn
  <2> DEFINE D == {t \in Txns : Running(t)}
  <2> SUFFICES ASSUME D # {}, \A t \in D : Waits(t)
               PROVE  \E C \in SUBSET Txns : Cycle(C)
    BY DEF SomebodyGoesOn
  <2>1. ASSUME NEW t \in D PROVE Waits(t) /\ holder[Head(txn[t].need)] \in D
    <3> DEFINE u == holder[Wanted(t)]
    <3>1. Waits(t) /\ u \in Txns /\ Wanted(t) \in Held(u)
      BY <1>1, WaitFacts DEF IInv
    <3>2. txn[u] # Idle
      BY <1>1, <3>1 DEF IInv, LocksInv
    <3> QED
      BY <3>1, <3>2 DEF Running, Wanted
  <2>2. Stuck(D)
    BY <2>1 DEF Stuck
  <2> QED
    BY <2>2, CycleInStuck
<1> QED
  BY <1>1, LadderInvariant, PTL

\* Settling and voiding work on all the open orders: from the time that their
\* rows are locked no placement adds one, and no cancellation is under way that
\* has found one open (release-unmatched.ts, cancel-order.ts).
THEOREM SettlementHasAllHolds == Spec => [](RefundsStayValid /\ FinalsHaveAll /\ FinalsAlone)
<1>1. IInv => RefundsStayValid /\ FinalsHaveAll /\ FinalsAlone
  BY DEF IInv
<1> QED
  BY <1>1, LadderInvariant, PTL
=============================================================================
