----------------------------- MODULE LoginProofs -----------------------------
(***************************************************************************)
(* Theorems on the logins, for any rate, lockout and number of logins in   *)
(* flight: how far the rate limit, the lockout and the revocation of       *)
(* sessions can be passed, and no further.                                 *)
(***************************************************************************)
EXTENDS Logins, TotalsProofs

-----------------------------------------------------------------------------
(* The past *)

\* What happened from a to b ticks ago.
Span(f, a, b) == Total([i \in a .. b |-> f[i]])

LEMMA SpanType ==
    ASSUME NEW f, NEW a \in Int, NEW b \in Int, \A i \in a .. b : f[i] \in Nat
    PROVE  /\ IsFiniteSet(a .. b)
           /\ [i \in a .. b |-> f[i]] \in AmountsOver(a .. b)
           /\ Span(f, a, b) \in Nat
<1>1. IsFiniteSet(a .. b) /\ [i \in a .. b |-> f[i]] \in AmountsOver(a .. b)
  BY FS_Interval DEF AmountsOver
<1> QED
  BY <1>1, TotalType DEF Span

\* A span is the sum of its two parts.
LEMMA SpanSplit ==
    ASSUME NEW f, NEW a \in Int, NEW b \in Int, NEW c \in Int, a <= b + 1, b <= c,
           \A i \in a .. c : f[i] \in Nat
    PROVE  Span(f, a, c) = Span(f, a, b) + Span(f, b + 1, c)
<1> DEFINE D == a .. c
           h == [i \in D |-> f[i]]
           S == a .. b
           T == b + 1 .. c
<1>1. IsFiniteSet(D) /\ h \in AmountsOver(D)
  BY SpanType
<1>2. D = S \cup T /\ S \cap T = {}
  OBVIOUS
<1>3. [i \in S |-> h[i]] = [i \in S |-> f[i]] /\ [i \in T |-> h[i]] = [i \in T |-> f[i]]
  BY <1>2
<1> HIDE DEF D, h, S, T
<1>4. Total(h) = Total([i \in S |-> h[i]]) + Total([i \in T |-> h[i]])
  BY <1>1, <1>2, TotalSplit
<1> QED
  BY <1>3, <1>4 DEF Span, D, h, S, T

LEMMA SpanOfOne ==
    ASSUME NEW f, NEW a \in Int, f[a] \in Nat
    PROVE  Span(f, a, a) = f[a]
<1>1. [i \in a .. a |-> f[i]] = [i \in {a} |-> f[a]]
  OBVIOUS
<1> DEFINE n == f[a]
<1>2. n \in Nat
  OBVIOUS
<1> HIDE DEF n
<1>3. Total([i \in {a} |-> n]) = n
  BY <1>2, TotalSingle
<1> QED
  BY <1>1, <1>3 DEF Span, n

\* A part of a span is no more than the span.
LEMMA SpanPart ==
    ASSUME NEW f, NEW a \in Int, NEW b \in Int, NEW c \in Int, a <= b + 1, b <= c,
           \A i \in a .. c : f[i] \in Nat
    PROVE  Span(f, a, b) <= Span(f, a, c)
<1>1. /\ \A i \in a .. b : f[i] \in Nat
      /\ \A i \in b + 1 .. c : f[i] \in Nat
  OBVIOUS
<1>2. Span(f, a, b) \in Nat
  BY <1>1, SpanType
<1>0. b + 1 \in Int
  OBVIOUS
<1>3. Span(f, b + 1, c) \in Nat
  BY <1>0, <1>1, SpanType
<1>4. Span(f, a, c) = Span(f, a, b) + Span(f, b + 1, c)
  BY SpanSplit
<1> QED
  BY <1>2, <1>3, <1>4

\* A tick moves a span by one.
LEMMA SpanMoved ==
    ASSUME NEW f, NEW g, NEW a \in Int, NEW b \in Int,
           \A i \in a .. b : f[i] \in Nat /\ g[i + 1] = f[i]
    PROVE  Span(g, a + 1, b + 1) = Span(f, a, b)
<1> DEFINE S == a + 1 .. b + 1
           T == a .. b
           h == [i \in T |-> f[i]]
           back == [i \in S |-> i - 1]
<1>1. IsFiniteSet(S) /\ h \in AmountsOver(T)
  <2>1. \A i \in a .. b : f[i] \in Nat
    OBVIOUS
  <2>2. h \in AmountsOver(T)
    BY <2>1, SpanType
  <2>3. a + 1 \in Int /\ b + 1 \in Int
    OBVIOUS
  <2> QED
    BY <2>2, <2>3, FS_Interval
<1>2. back \in Bijection(S, T)
  <2>1. back \in [S -> T] /\ \A i, j \in S : back[i] = back[j] => i = j
    OBVIOUS
  <2>2. \A j \in T : j + 1 \in S /\ back[j + 1] = j
    OBVIOUS
  <2> QED
    BY <2>1, <2>2 DEF Bijection, Injection, Surjection, IsInjective
<1>3. \A i \in S : h[back[i]] = g[i]
  <2> SUFFICES ASSUME NEW i \in S PROVE h[back[i]] = g[i]
    OBVIOUS
  <2>1. i - 1 \in T /\ (i - 1) + 1 = i
    OBVIOUS
  <2> QED
    BY <2>1
<1> HIDE DEF S, T, h, back
<1>4. Total([i \in S |-> h[back[i]]]) = Total(h)
  BY <1>1, <1>2, TotalReindex
<1>5. [i \in S |-> h[back[i]]] = [i \in S |-> g[i]]
  BY <1>3
<1> QED
  BY <1>4, <1>5 DEF Span, S, T, h

\* Amounts of the last n ticks, all of which count.
LEMMA WholeSpan ==
    ASSUME NEW n \in Int, NEW f \in [0 .. n - 1 -> Nat]
    PROVE  Total(f) = Span(f, 0, n - 1)
<1>1. f = [i \in 0 .. n - 1 |-> f[i]]
  OBVIOUS
<1> QED
  BY <1>1 DEF Span

\* A tick adds nothing to a span that grows with it, and drops the last tick of
\* one that does not.
LEMMA SpanShifted ==
    ASSUME NEW n \in Nat \ {0}, NEW f \in [0 .. n - 1 -> Nat]
    PROVE  /\ Shifted(f) \in [0 .. n - 1 -> Nat]
           /\ \A k \in 0 .. n - 2 : Span(Shifted(f), 0, k + 1) = Span(f, 0, k)
           /\ Span(Shifted(f), 0, 0) = 0
           /\ \A k \in 0 .. n - 1 : Span(Shifted(f), k + 1, n - 1) <= Span(f, k, n - 1)
<1> DEFINE g == Shifted(f)
<1>1. /\ g \in [0 .. n - 1 -> Nat] /\ g[0] = 0
      /\ \A i \in 0 .. n - 2 : g[i + 1] = f[i]
  BY DEF Shifted
<1>2. \A i \in 0 .. n - 1 : f[i] \in Nat /\ g[i] \in Nat
  BY <1>1
<1> HIDE DEF g
<1>3. Span(g, 0, 0) = 0
  BY <1>1, SpanOfOne
<1>4. ASSUME NEW k \in 0 .. n - 2 PROVE Span(g, 0, k + 1) = Span(f, 0, k)
  <2>0. /\ k \in Int /\ k + 1 \in Int /\ 0 <= k + 1 /\ 0 \in Int /\ 0 <= 0 + 1
        /\ \A i \in 0 .. k + 1 : g[i] \in Nat
        /\ \A i \in 0 .. k : f[i] \in Nat /\ g[i + 1] = f[i]
    BY <1>1, <1>2
  <2>1. Span(g, 0, k + 1) = Span(g, 0, 0) + Span(g, 0 + 1, k + 1)
    BY <2>0, SpanSplit
  <2>2. Span(g, 0 + 1, k + 1) = Span(f, 0, k)
    BY <2>0, SpanMoved
  <2>3. Span(f, 0, k) \in Nat
    BY <2>0, SpanType
  <2> QED
    BY <1>3, <2>1, <2>2, <2>3
<1>5. ASSUME NEW k \in 0 .. n - 1 PROVE Span(g, k + 1, n - 1) <= Span(f, k, n - 1)
  <2>0. /\ k \in Int /\ n - 2 \in Int /\ n - 1 \in Int /\ k <= (n - 2) + 1
        /\ n - 2 <= n - 1 /\ (n - 2) + 1 = n - 1
        /\ \A i \in k .. n - 1 : f[i] \in Nat
        /\ \A i \in k .. n - 2 : f[i] \in Nat /\ g[i + 1] = f[i]
    BY <1>1, <1>2
  <2>1. Span(g, k + 1, (n - 2) + 1) = Span(f, k, n - 2)
    BY <2>0, SpanMoved
  <2>2. Span(f, k, n - 2) <= Span(f, k, n - 1)
    BY <2>0, SpanPart
  <2> QED
    BY <2>0, <2>1, <2>2
<1> QED
  BY <1>1, <1>3, <1>4, <1>5 DEF g

\* Something that happens now counts in every span from now on.
LEMMA SpanHappened ==
    ASSUME NEW n \in Nat \ {0}, NEW f \in [0 .. n - 1 -> Nat]
    PROVE  /\ Happened(f) \in [0 .. n - 1 -> Nat]
           /\ \A k \in 0 .. n - 1 : Span(Happened(f), 0, k) = Span(f, 0, k) + 1
           /\ \A k \in 0 .. n - 1 : Span(Happened(f), k + 1, n - 1) = Span(f, k + 1, n - 1)
<1> DEFINE g == Happened(f)
<1>1. /\ g \in [0 .. n - 1 -> Nat] /\ g[0] = f[0] + 1 /\ f[0] \in Nat
      /\ \A i \in 1 .. n - 1 : g[i] = f[i]
  BY DEF Happened
<1>2. \A i \in 0 .. n - 1 : f[i] \in Nat /\ g[i] \in Nat
  BY <1>1
<1> HIDE DEF g
<1>3. ASSUME NEW a \in 1 .. n, NEW b \in 0 .. n - 1 PROVE Span(g, a, b) = Span(f, a, b)
  <2>1. [i \in a .. b |-> g[i]] = [i \in a .. b |-> f[i]]
    BY <1>1
  <2> QED
    BY <2>1 DEF Span
<1>4. ASSUME NEW k \in 0 .. n - 1 PROVE Span(g, 0, k) = Span(f, 0, k) + 1
  <2>0. /\ k \in Int /\ 0 <= k /\ 0 <= 0 + 1 /\ 0 + 1 \in 1 .. n /\ 0 \in Int /\ 0 + 1 \in Int
        /\ \A i \in 0 .. k : f[i] \in Nat /\ g[i] \in Nat
        /\ \A i \in 0 + 1 .. k : f[i] \in Nat
    BY <1>2
  <2>1. /\ Span(g, 0, k) = Span(g, 0, 0) + Span(g, 0 + 1, k)
        /\ Span(f, 0, k) = Span(f, 0, 0) + Span(f, 0 + 1, k)
    BY <2>0, SpanSplit
  <2>2. Span(g, 0, 0) = f[0] + 1 /\ Span(f, 0, 0) = f[0]
    BY <1>1, SpanOfOne
  <2>3. Span(g, 0 + 1, k) = Span(f, 0 + 1, k) /\ Span(f, 0 + 1, k) \in Nat
    BY <2>0, <1>3, SpanType
  <2> QED
    BY <1>1, <2>1, <2>2, <2>3
<1> QED
  BY <1>1, <1>3, <1>4 DEF g

LEMMA Bounds ==
    /\ MaxRate \in Nat \ {0} /\ Window \in Nat \ {0} /\ MaxFailures \in Nat \ {0}
    /\ Lockout \in Nat \ {0} /\ MaxSessions \in Nat \ {0} /\ MaxLate \in Nat \ {0}
  BY LoginsAssumption

-----------------------------------------------------------------------------
(* The rate limit *)

\* What has passed since the window started has been counted, and what passed
\* before it was admitted by the window before.
RateInv ==
    /\ phase \in 0 .. Window - 1
    /\ count \in 0 .. MaxRate + 2
    /\ admitted \in [0 .. Window - 1 -> Nat]
    /\ Span(admitted, 0, phase) <= count
    /\ Span(admitted, 0, phase) <= MaxRate
    /\ Span(admitted, phase + 1, Window - 1) <= MaxRate

LEMMA NothingSpans ==
    ASSUME NEW n \in Nat \ {0}
    PROVE  /\ Nothing(n) \in [0 .. n - 1 -> Nat]
           /\ Total(Nothing(n)) = 0
           /\ Span(Nothing(n), 0, 0) = 0
           /\ Span(Nothing(n), 0 + 1, n - 1) = 0
<1> DEFINE f == Nothing(n)
<1>1. f \in [0 .. n - 1 -> Nat] /\ \A i \in 0 .. n - 1 : f[i] = 0
  BY DEF Nothing
<1> HIDE DEF f
<1>2. f \in AmountsOver(0 .. n - 1)
  BY <1>1 DEF AmountsOver
<1>3. Total(f) = 0
  BY <1>1, <1>2, TotalZero
<1>4. [i \in 0 + 1 .. n - 1 |-> f[i]] \in AmountsOver(0 + 1 .. n - 1)
  BY <1>1 DEF AmountsOver
<1>5. \A i \in 0 + 1 .. n - 1 : [j \in 0 + 1 .. n - 1 |-> f[j]][i] = 0
  BY <1>1
<1>6. Span(f, 0 + 1, n - 1) = 0
  BY <1>4, <1>5, TotalZero DEF Span
<1>7. f[0] = 0
  BY <1>1
<1>8. Span(f, 0, 0) = 0
  BY <1>7, SpanOfOne
<1> QED
  BY <1>1, <1>3, <1>6, <1>8 DEF f

LEMMA RateInit == Init => RateInv
<1> SUFFICES ASSUME Init PROVE RateInv
  OBVIOUS
<1>1. /\ phase = 0 /\ count = 0 /\ admitted = Nothing(Window)
      /\ 0 \in 0 .. Window - 1
  BY Bounds DEF Init
<1> QED
  BY <1>1, Bounds, NothingSpans DEF RateInv

\* The spans of what the rate limit has let pass are numbers.
LEMMA RateSpans ==
    ASSUME RateInv
    PROVE  /\ Span(admitted, 0, phase) \in Nat
           /\ Span(admitted, phase + 1, Window - 1) \in Nat
           /\ Total(admitted)
                = Span(admitted, 0, phase) + Span(admitted, phase + 1, Window - 1)
           /\ \A i \in 0 .. phase : admitted[i] <= Span(admitted, 0, phase)
           /\ \A i \in phase + 1 .. Window - 1 :
                 admitted[i] <= Span(admitted, phase + 1, Window - 1)
<1>1. /\ phase \in Int /\ phase + 1 \in Int /\ Window - 1 \in Int /\ 0 \in Int
      /\ 0 <= phase + 1 /\ phase <= Window - 1
      /\ \A i \in 0 .. Window - 1 : admitted[i] \in Nat
      /\ \A i \in 0 .. phase : admitted[i] \in Nat
      /\ \A i \in phase + 1 .. Window - 1 : admitted[i] \in Nat
  BY Bounds DEF RateInv
<1>2. /\ Span(admitted, 0, phase) \in Nat
      /\ Span(admitted, phase + 1, Window - 1) \in Nat
  BY <1>1, SpanType
<1>3. Total(admitted) = Span(admitted, 0, Window - 1)
  BY <1>1, WholeSpan DEF RateInv
<1>4. Span(admitted, 0, Window - 1)
        = Span(admitted, 0, phase) + Span(admitted, phase + 1, Window - 1)
  BY <1>1, SpanSplit
<1>5. ASSUME NEW a \in Int, NEW b \in Int, NEW i \in a .. b,
             \A j \in a .. b : admitted[j] \in Nat
      PROVE  admitted[i] <= Span(admitted, a, b)
  <2>1. /\ i \in Int /\ i - 1 \in Int /\ i + 1 \in Int /\ (i - 1) + 1 = i
        /\ a <= (i - 1) + 1 /\ i - 1 <= b /\ i <= i + 1 /\ i <= b
        /\ \A j \in a .. i - 1 : admitted[j] \in Nat
        /\ \A j \in i .. b : admitted[j] \in Nat
        /\ admitted[i] \in Nat
    BY <1>5
  <2>2. Span(admitted, a, b) = Span(admitted, a, i - 1) + Span(admitted, (i - 1) + 1, b)
    BY <1>5, <2>1, SpanSplit
  <2>3. Span(admitted, a, i - 1) \in Nat /\ Span(admitted, i, b) \in Nat
    BY <1>5, <2>1, SpanType
  <2>4. Span(admitted, i, i) <= Span(admitted, i, b)
    BY <1>5, <2>1, SpanPart
  <2>5. Span(admitted, i, i) = admitted[i]
    BY <2>1, SpanOfOne
  <2> QED
    BY <2>1, <2>2, <2>3, <2>4, <2>5
<1> QED
  BY <1>1, <1>2, <1>3, <1>4, <1>5

LEMMA RateReceive ==
    ASSUME RateInv, NEW q \in Requests, Receive(q)
    PROVE  RateInv'
<1>1. /\ phase' = phase /\ count' = Smaller(count + 1, MaxRate + 2)
      /\ phase \in 0 .. Window - 1 /\ count \in 0 .. MaxRate + 2 /\ MaxRate \in Nat
      /\ Span(admitted, 0, phase) \in Nat
  BY RateSpans, Bounds DEF Receive, RateInv
<1>2. count' \in 0 .. MaxRate + 2 /\ count <= count'
      /\ (count + 1 <= MaxRate => count' = count + 1)
  BY <1>1 DEF Smaller
<1>3. CASE UNCHANGED admitted
  BY <1>1, <1>2, <1>3 DEF RateInv
<1>4. CASE admitted' = Happened(admitted) /\ Allows(count + 1)
  <2>1. /\ admitted' \in [0 .. Window - 1 -> Nat]
        /\ Span(admitted', 0, phase) = Span(admitted, 0, phase) + 1
        /\ Span(admitted', phase + 1, Window - 1) = Span(admitted, phase + 1, Window - 1)
    <3> DEFINE h == Happened(admitted)
    <3>1. Window \in Nat \ {0} /\ admitted \in [0 .. Window - 1 -> Nat]
      BY Bounds DEF RateInv
    <3>2. /\ h \in [0 .. Window - 1 -> Nat]
          /\ \A k \in 0 .. Window - 1 : Span(h, 0, k) = Span(admitted, 0, k) + 1
          /\ \A k \in 0 .. Window - 1 :
                Span(h, k + 1, Window - 1) = Span(admitted, k + 1, Window - 1)
      BY <3>1, SpanHappened
    <3>3. admitted' = h
      BY <1>4
    <3> HIDE DEF h
    <3> QED
      BY <1>1, <3>2, <3>3
  <2>2. count + 1 <= MaxRate
    BY <1>4 DEF Allows
  <2> QED
    BY <1>1, <1>2, <2>1, <2>2 DEF RateInv
<1> QED
  BY <1>3, <1>4 DEF Receive

\* The tick that ends a window, and the others.
LEMMA Modulo ==
    ASSUME NEW n \in Nat \ {0}
    PROVE  n % n = 0 /\ \A k \in 0 .. n - 1 : k % n = k
<1>1. n % n = 0
  OBVIOUS
<1>2. ASSUME NEW k \in 0 .. n - 1 PROVE k % n = k
  OBVIOUS
<1> QED
  BY <1>1, <1>2

LEMMA RateTick ==
    ASSUME RateInv, Tick
    PROVE  RateInv'
<1> DEFINE g == Shifted(admitted)
<1>1. /\ admitted' = g /\ phase' = (phase + 1) % Window
      /\ count' = IF phase' = 0 THEN 0 ELSE count
      /\ phase \in 0 .. Window - 1 /\ Window \in Nat \ {0} /\ MaxRate \in Nat
      /\ admitted \in [0 .. Window - 1 -> Nat] /\ count \in 0 .. MaxRate + 2
  BY Bounds DEF Tick, RateInv
<1>2. /\ g \in [0 .. Window - 1 -> Nat]
      /\ \A k \in 0 .. Window - 2 : Span(g, 0, k + 1) = Span(admitted, 0, k)
      /\ Span(g, 0, 0) = 0
      /\ \A k \in 0 .. Window - 1 :
            Span(g, k + 1, Window - 1) <= Span(admitted, k, Window - 1)
  BY <1>1, SpanShifted
<1> HIDE DEF g
<1>3. CASE phase = Window - 1
  <2>0. phase + 1 = Window
    BY <1>1, <1>3
  <2>1. phase' = 0 /\ count' = 0
    BY <1>1, <2>0, Modulo
  <2>2. Span(g, 0 + 1, Window - 1) <= Span(admitted, 0, Window - 1)
    BY <1>1, <1>2
  <2>3. Span(admitted, 0, Window - 1) <= MaxRate
    BY <1>3 DEF RateInv
  <2>4. Span(admitted, 0, Window - 1) \in Nat /\ Span(g, 0 + 1, Window - 1) \in Int
    <3>1. /\ \A i \in 0 + 1 .. Window - 1 : g[i] \in Nat
          /\ 0 + 1 \in Int /\ Window - 1 \in Int
      BY <1>1, <1>2
    <3>2. Span(admitted, 0, phase) \in Nat
      BY RateSpans
    <3>3. Span(g, 0 + 1, Window - 1) \in Nat
      BY <3>1, SpanType
    <3> QED
      BY <1>3, <3>2, <3>3
  <2>5. Span(g, phase' + 1, Window - 1) <= MaxRate
    BY <1>1, <2>1, <2>2, <2>3, <2>4
  <2> QED
    BY <1>1, <1>2, <2>1, <2>5 DEF RateInv
<1>4. CASE phase # Window - 1
  <2>0. phase + 1 \in 0 .. Window - 1 /\ phase + 1 # 0 /\ phase \in 0 .. Window - 2
    BY <1>1, <1>4
  <2>1. phase' = phase + 1 /\ count' = count /\ phase \in 0 .. Window - 2
    <3>1. (phase + 1) % Window = phase + 1
      BY <1>1, <2>0, Modulo
    <3> QED
      BY <1>1, <2>0, <3>1
  <2>2. Span(g, 0, phase') = Span(admitted, 0, phase)
    BY <1>2, <2>1
  <2>3. phase + 1 \in 0 .. Window - 1
    BY <1>1, <2>1
  <2>4. Span(g, (phase + 1) + 1, Window - 1) <= Span(admitted, phase + 1, Window - 1)
    BY <1>2, <2>3
  <2>5. /\ Span(admitted, phase + 1, Window - 1) \in Nat
        /\ Span(g, (phase + 1) + 1, Window - 1) \in Nat
    <3>1. /\ \A i \in (phase + 1) + 1 .. Window - 1 : g[i] \in Nat
          /\ (phase + 1) + 1 \in Int /\ Window - 1 \in Int
      BY <1>1, <1>2, <2>3
    <3> QED
      BY <3>1, RateSpans, SpanType
  <2>6. Span(g, phase' + 1, Window - 1) <= MaxRate
    BY <1>1, <2>1, <2>4, <2>5 DEF RateInv
  <2> QED
    BY <1>1, <1>2, <2>1, <2>2, <2>3, <2>6 DEF RateInv
<1> QED
  BY <1>3, <1>4

LEMMA RateStep == RateInv /\ [Next]_vars => RateInv'
<1> SUFFICES ASSUME RateInv, [Next]_vars PROVE RateInv'
  OBVIOUS
<1>1. CASE UNCHANGED <<phase, count, admitted>>
  BY <1>1 DEF RateInv
<1> QED
  BY <1>1, RateReceive, RateTick
     DEF Next, vars, Serve, Count, Verify, Record, CreateSession, Revoke, ResetPassword,
         ChangePassword, CommitPassword, FailPassword, RevokeOthers, EndSession, ExpireSeen

-----------------------------------------------------------------------------
(* The lockout *)

\* The logins that have passed the lockout and have not been recorded.
Checking == {q \in Requests : request[q].step \in {"verify", "record"}}

FailInv ==
    /\ failures \in [0 .. Lockout - 1 -> Nat]
    /\ request \in [Requests -> Request]
    /\ Total(failures) + Cardinality(Checking) <= MaxFailures + Cardinality(Requests) - 1

LEMMA RequestNumbers ==
    /\ IsFiniteSet(Requests) /\ Cardinality(Requests) \in Nat
    /\ \A S \in SUBSET Requests :
          IsFiniteSet(S) /\ Cardinality(S) \in Nat /\ Cardinality(S) <= Cardinality(Requests)
  BY LoginsAssumption, FS_Subset, FS_CardinalityType

LEMMA FailuresType ==
    ASSUME NEW f \in [0 .. Lockout - 1 -> Nat]
    PROVE  /\ Total(f) \in Nat
           /\ Total(f) = Span(f, 0, Lockout - 1)
           /\ Happened(f) \in [0 .. Lockout - 1 -> Nat] /\ Total(Happened(f)) = Total(f) + 1
           /\ Shifted(f) \in [0 .. Lockout - 1 -> Nat] /\ Total(Shifted(f)) <= Total(f)
<1>1. /\ Lockout \in Nat \ {0} /\ Lockout - 1 \in 0 .. Lockout - 1
      /\ Lockout \in Int /\ Lockout - 1 \in Int /\ 0 \in Int /\ 0 <= 0 + 1 /\ 0 <= Lockout - 1
  BY Bounds
<1>2. /\ Happened(f) \in [0 .. Lockout - 1 -> Nat]
      /\ Span(Happened(f), 0, Lockout - 1) = Span(f, 0, Lockout - 1) + 1
  BY <1>1, SpanHappened
<1>3. /\ Shifted(f) \in [0 .. Lockout - 1 -> Nat]
      /\ Span(Shifted(f), 0, 0) = 0
      /\ Span(Shifted(f), 0 + 1, Lockout - 1) <= Span(f, 0, Lockout - 1)
  <2>1. 0 \in 0 .. Lockout - 1
    BY <1>1
  <2> QED
    BY <1>1, <2>1, SpanShifted
<1>4. \A h \in [0 .. Lockout - 1 -> Nat] : Total(h) = Span(h, 0, Lockout - 1)
  BY <1>1, WholeSpan
<1>5. Span(f, 0, Lockout - 1) \in Nat
  BY <1>1, SpanType
<1>6. Span(Shifted(f), 0, Lockout - 1)
        = Span(Shifted(f), 0, 0) + Span(Shifted(f), 0 + 1, Lockout - 1)
  <2> DEFINE g == Shifted(f)
  <2>1. \A i \in 0 .. Lockout - 1 : g[i] \in Nat
    BY <1>3
  <2> HIDE DEF g
  <2>2. Span(g, 0, Lockout - 1) = Span(g, 0, 0) + Span(g, 0 + 1, Lockout - 1)
    BY <1>1, <2>1, SpanSplit
  <2> QED
    BY <2>2 DEF g
<1>7. Span(Shifted(f), 0 + 1, Lockout - 1) \in Nat
  <2> DEFINE g == Shifted(f)
  <2>1. (\A i \in 0 + 1 .. Lockout - 1 : g[i] \in Nat) /\ 0 + 1 \in Int
    BY <1>1, <1>3
  <2> HIDE DEF g
  <2>2. Span(g, 0 + 1, Lockout - 1) \in Nat
    BY <1>1, <2>1, SpanType
  <2> QED
    BY <2>2 DEF g
<1> QED
  BY <1>2, <1>3, <1>4, <1>5, <1>6, <1>7

LEMMA IdleRequest == Idle \in Request /\ Idle.step = "idle" /\ ~ Idle.stale /\ ~ Idle.ok
  BY DEF Idle, Request

LEMMA FailInit == Init => FailInv
<1> SUFFICES ASSUME Init PROVE FailInv
  OBVIOUS
<1>1. /\ failures = Nothing(Lockout) /\ request = [q \in Requests |-> Idle]
      /\ Lockout \in Nat \ {0} /\ MaxFailures \in Nat \ {0}
  BY Bounds DEF Init
<1>2. Checking = {}
  BY <1>1, IdleRequest DEF Checking
<1> QED
  BY <1>1, <1>2, IdleRequest, NothingSpans, FS_EmptySet, RequestNumbers DEF FailInv

\* A step of one login, which moves it from one row of requests to another.
LEMMA RequestMoved ==
    ASSUME request \in [Requests -> Request], NEW q \in Requests,
           NEW s \in {"idle", "count", "verify", "record", "session"},
           GoTo(q, s) \/ End(q)
    PROVE  /\ request' \in [Requests -> Request]
           /\ \A p \in Requests : p # q => request'[p] = request[p]
           /\ GoTo(q, s) => request'[q].step = s /\ request'[q].stale = request[q].stale
           /\ End(q) => request'[q] = Idle
<1>1. [request[q] EXCEPT !.step = s] \in Request
  BY DEF Request
<1>2. CASE GoTo(q, s)
  <2>1. request'[q] = [request[q] EXCEPT !.step = s]
    BY <1>2 DEF GoTo
  <2> QED
    BY <1>1, <1>2, <2>1, IdleRequest DEF GoTo, End
<1>3. CASE End(q) /\ ~ GoTo(q, s)
  BY <1>3, IdleRequest DEF End
<1> QED
  BY <1>2, <1>3

\* Every other login stays where it is, and so does its part of the count.
LEMMA CheckingMoved ==
    ASSUME request \in [Requests -> Request], NEW q \in Requests,
           request' \in [Requests -> Request],
           \A p \in Requests : p # q => request'[p].step = request[p].step
    PROVE  /\ Checking \ {q} = Checking' \ {q}
           /\ request'[q].step \notin {"verify", "record"} => Checking' = Checking \ {q}
           /\ (q \in Checking <=> q \in Checking') => Checking' = Checking
  BY DEF Checking

LEMMA FailCount ==
    ASSUME FailInv, NEW q \in Requests, Count(q)
    PROVE  FailInv'
<1>1. /\ request \in [Requests -> Request] /\ failures \in [0 .. Lockout - 1 -> Nat]
      /\ request[q].step = "count"
      /\ MaxFailures \in Nat
      /\ Total(failures) \in Nat
      /\ Total(failures) + Cardinality(Checking) <= MaxFailures + Cardinality(Requests) - 1
  BY FailuresType, Bounds DEF FailInv, Count
<1>2. CASE LockedOut
  <2>1. End(q) /\ failures' = failures
    BY <1>2 DEF Count, Rejected
  <2>2. /\ request' \in [Requests -> Request]
        /\ \A p \in Requests : p # q => request'[p] = request[p]
        /\ request'[q].step = "idle"
    BY <1>1, <2>1, RequestMoved, IdleRequest
  <2>3. q \notin Checking /\ q \notin Checking'
    BY <1>1, <2>2 DEF Checking
  <2>4. Checking' = Checking
    BY <1>1, <2>2, <2>3, CheckingMoved
  <2> QED
    BY <1>1, <2>1, <2>2, <2>4 DEF FailInv
<1>3. CASE ~ LockedOut
  <2>1. GoTo(q, "verify") /\ failures' = failures
    BY <1>3 DEF Count
  <2>2. request' \in [Requests -> Request]
    BY <1>1, <2>1, RequestMoved
  <2>3. Total(failures) <= MaxFailures - 1
    BY <1>1, <1>3 DEF LockedOut
  <2>4. Checking' \subseteq Requests
    BY DEF Checking
  <2>5. Cardinality(Checking') \in Nat /\ Cardinality(Checking') <= Cardinality(Requests)
        /\ Cardinality(Requests) \in Nat
    BY <2>4, RequestNumbers
  <2> QED
    BY <1>1, <2>1, <2>2, <2>3, <2>5 DEF FailInv
<1> QED
  BY <1>2, <1>3

LEMMA FailVerify ==
    ASSUME FailInv, NEW q \in Requests, Verify(q)
    PROVE  FailInv'
<1>1. /\ request \in [Requests -> Request] /\ request[q].step = "verify"
      /\ failures' = failures
  BY DEF FailInv, Verify
<1>2. PICK ok \in BOOLEAN :
         request' = [request EXCEPT ![q].step = "record", ![q].ok = ok]
  BY DEF Verify
<1>3. [request[q] EXCEPT !.step = "record", !.ok = ok] \in Request
  BY <1>1 DEF Request
<1>4. /\ request'[q] = [request[q] EXCEPT !.step = "record", !.ok = ok]
      /\ \A p \in Requests : p # q => request'[p] = request[p]
      /\ request' \in [Requests -> Request]
  BY <1>1, <1>2, <1>3
<1>5. request'[q].step = "record"
  BY <1>1, <1>4 DEF Request
<1>6. q \in Checking /\ q \in Checking'
  BY <1>1, <1>5 DEF Checking
<1>7. Checking' = Checking
  BY <1>1, <1>4, <1>6, CheckingMoved
<1> QED
  BY <1>1, <1>4, <1>7 DEF FailInv

LEMMA FailRecord ==
    ASSUME FailInv, NEW q \in Requests, Record(q)
    PROVE  FailInv'
<1>1. /\ request \in [Requests -> Request] /\ failures \in [0 .. Lockout - 1 -> Nat]
      /\ request[q].step = "record" /\ q \in Checking
      /\ MaxFailures \in Nat /\ Total(failures) \in Nat
      /\ Total(failures) + Cardinality(Checking) <= MaxFailures + Cardinality(Requests) - 1
  BY FailuresType, Bounds DEF FailInv, Record, Checking
<1>2. /\ Checking \subseteq Requests /\ IsFiniteSet(Checking)
      /\ Cardinality(Checking) \in Nat /\ Cardinality(Requests) \in Nat
      /\ Cardinality(Checking \ {q}) = Cardinality(Checking) - 1
  <2>1. Checking \subseteq Requests
    BY DEF Checking
  <2>2. IsFiniteSet(Checking)
    BY <2>1, RequestNumbers
  <2> QED
    BY <1>1, <2>1, <2>2, RequestNumbers, FS_RemoveElement
<1>3. /\ GoTo(q, "session") \/ End(q)
      /\ failures' = failures \/ failures' = Happened(failures)
  BY DEF Record
<1>4. /\ request' \in [Requests -> Request]
      /\ \A p \in Requests : p # q => request'[p] = request[p]
      /\ request'[q].step \in {"session", "idle"}
  BY <1>1, <1>3, RequestMoved, IdleRequest
<1>5. Checking' = Checking \ {q}
  BY <1>1, <1>4, CheckingMoved
<1>6. /\ failures' \in [0 .. Lockout - 1 -> Nat]
      /\ Total(failures') \in Nat /\ Total(failures') <= Total(failures) + 1
  BY <1>1, <1>3, FailuresType
<1>7. Total(failures') + Cardinality(Checking')
        <= MaxFailures + Cardinality(Requests) - 1
  BY <1>1, <1>2, <1>5, <1>6
<1> QED
  BY <1>4, <1>6, <1>7 DEF FailInv

\* What is outdated stays at its step.
LEMMA OutdatedMoved ==
    ASSUME request \in [Requests -> Request], request' = Outdated
    PROVE  /\ request' \in [Requests -> Request]
           /\ \A q \in Requests : request'[q].step = request[q].step
<1>1. ASSUME NEW q \in Requests
      PROVE  /\ [request[q] EXCEPT !.stale = request[q].ok] \in Request
             /\ [request[q] EXCEPT !.stale = request[q].ok].step = request[q].step
  <2>1. request[q] \in Request
    OBVIOUS
  <2> QED
    BY <2>1 DEF Request
<1> QED
  BY <1>1 DEF Outdated

LEMMA FailOthers ==
    ASSUME FailInv,
           \/ \E q \in Requests : Receive(q) \/ CreateSession(q)
           \/ ResetPassword \/ ChangePassword \/ CommitPassword \/ FailPassword
           \/ RevokeOthers \/ EndSession \/ ExpireSeen
           \/ UNCHANGED <<failures, request>>
    PROVE  FailInv'
<1>1. request \in [Requests -> Request] /\ failures' = failures
  BY DEF FailInv, Receive, CreateSession, Revoke, ResetPassword, ChangePassword,
         CommitPassword, FailPassword, RevokeOthers, EndSession, ExpireSeen
<1>2. ASSUME NEW q \in Requests, Receive(q) \/ CreateSession(q), ~ UNCHANGED request
      PROVE  request' \in [Requests -> Request] /\ Checking' = Checking
  <2>1. /\ GoTo(q, "count") \/ End(q)
        /\ request[q].step \in {"idle", "session"}
    BY <1>2, IdleRequest DEF Receive, CreateSession
  <2>2. /\ request' \in [Requests -> Request]
        /\ \A p \in Requests : p # q => request'[p] = request[p]
        /\ request'[q].step \in {"count", "idle"}
    BY <1>1, <2>1, RequestMoved, IdleRequest
  <2>3. q \notin Checking /\ q \notin Checking'
    BY <2>1, <2>2 DEF Checking
  <2> QED
    BY <1>1, <2>2, <2>3, CheckingMoved
<1>3. CASE request' = Outdated
  <2>1. Checking' = Checking
    BY <1>1, <1>3, OutdatedMoved DEF Checking
  <2> QED
    BY <1>1, <1>3, <2>1, OutdatedMoved DEF FailInv
<1>4. CASE UNCHANGED request
  <2>1. Checking' = Checking
    BY <1>4 DEF Checking
  <2> QED
    BY <1>1, <1>4, <2>1 DEF FailInv
<1>5. CASE \E q \in Requests : Receive(q) \/ CreateSession(q)
  BY <1>1, <1>2, <1>4, <1>5 DEF FailInv
<1> QED
  BY <1>3, <1>4, <1>5 DEF Revoke, ResetPassword, ChangePassword, CommitPassword,
                          FailPassword, RevokeOthers, EndSession, ExpireSeen

LEMMA FailTick ==
    ASSUME FailInv, Tick
    PROVE  FailInv'
<1>1. /\ failures' = Shifted(failures) /\ request' = request
      /\ failures \in [0 .. Lockout - 1 -> Nat]
      /\ MaxFailures \in Nat /\ Cardinality(Requests) \in Nat
  BY Bounds, RequestNumbers DEF FailInv, Tick
<1>2. /\ failures' \in [0 .. Lockout - 1 -> Nat]
      /\ Total(failures') <= Total(failures)
      /\ Total(failures) \in Nat /\ Total(failures') \in Nat
  BY <1>1, FailuresType
<1>3. Checking' = Checking /\ Checking \subseteq Requests
  BY <1>1 DEF Checking
<1>4. Cardinality(Checking) \in Nat
  BY <1>3, RequestNumbers
<1>5. Total(failures') + Cardinality(Checking')
        <= MaxFailures + Cardinality(Requests) - 1
  BY <1>1, <1>2, <1>3, <1>4 DEF FailInv
<1> QED
  BY <1>1, <1>2, <1>5 DEF FailInv

LEMMA FailStep == FailInv /\ [Next]_vars => FailInv'
<1> SUFFICES ASSUME FailInv, [Next]_vars PROVE FailInv'
  OBVIOUS
<1> QED
  BY FailCount, FailVerify, FailRecord, FailOthers, FailTick DEF Next, vars, Serve

-----------------------------------------------------------------------------
(* The sessions *)

\* The logins in flight, and those that were verified against an earlier password.
Flying == {q \in Requests : request[q].step # "idle"}

Stale == {q \in Requests : request[q].stale}

\* Each of them can still open a session: a stale login one that is stale, and,
\* while a password is written, every login one that the revocation has missed.
SessionInv ==
    /\ request \in [Requests -> Request]
    /\ \A q \in Requests : request[q].step = "idle" => ~ request[q].ok
    /\ sessions \in Sessions
    /\ write \in Write
    /\ late \in 0 .. MaxLate
    /\ sessions.stale + write.seen.stale + Cardinality(Stale)
         <= Cardinality(Requests) + late + 1
    /\ write.open =>
          sessions.current + sessions.stale + Cardinality(Flying)
            <= Cardinality(Requests) + write.late + 1

LEMMA Subsets ==
    ASSUME NEW S \in SUBSET Requests
    PROVE  /\ IsFiniteSet(S) /\ Cardinality(S) \in Nat
           /\ Cardinality(S) <= Cardinality(Requests) /\ Cardinality(Requests) \in Nat
           /\ \A T : T \subseteq S => Cardinality(T) \in Nat /\ Cardinality(T) <= Cardinality(S)
           /\ \A q, T : q \in S /\ T \subseteq S \ {q} =>
                 Cardinality(T) \in Nat /\ Cardinality(T) <= Cardinality(S) - 1
           /\ \A q, T : T \subseteq S \cup {q} =>
                 Cardinality(T) \in Nat /\ Cardinality(T) <= Cardinality(S) + 1
<1>1. /\ IsFiniteSet(S) /\ Cardinality(S) \in Nat
      /\ Cardinality(S) <= Cardinality(Requests) /\ Cardinality(Requests) \in Nat
  BY RequestNumbers
<1>2. ASSUME NEW T, T \subseteq S
      PROVE  Cardinality(T) \in Nat /\ Cardinality(T) <= Cardinality(S)
  BY <1>1, <1>2, FS_Subset, FS_CardinalityType
<1>3. ASSUME NEW q, NEW T, q \in S, T \subseteq S \ {q}
      PROVE  Cardinality(T) \in Nat /\ Cardinality(T) <= Cardinality(S) - 1
  <2>1. IsFiniteSet(S \ {q}) /\ Cardinality(S \ {q}) = Cardinality(S) - 1
    BY <1>1, <1>3, FS_RemoveElement
  <2> QED
    BY <1>3, <2>1, FS_Subset, FS_CardinalityType
<1>4. ASSUME NEW q, NEW T, T \subseteq S \cup {q}
      PROVE  Cardinality(T) \in Nat /\ Cardinality(T) <= Cardinality(S) + 1
  <2>1. /\ IsFiniteSet(S \cup {q}) /\ Cardinality(S \cup {q}) \in Nat
        /\ Cardinality(S \cup {q}) <= Cardinality(S) + 1
    BY <1>1, FS_AddElement, FS_CardinalityType
  <2>2. Cardinality(T) \in Nat /\ Cardinality(T) <= Cardinality(S \cup {q})
    BY <1>4, <2>1, FS_Subset, FS_CardinalityType
  <2> QED
    BY <1>1, <2>1, <2>2
<1> QED
  BY <1>1, <1>2, <1>3, <1>4

LEMMA SessionSets == Stale \in SUBSET Requests /\ Flying \in SUBSET Requests
  BY DEF Stale, Flying

LEMMA SessionNumbers ==
    ASSUME SessionInv
    PROVE  /\ sessions.current \in Nat /\ sessions.stale \in Nat
           /\ write.open \in BOOLEAN /\ write.seen \in Sessions
           /\ write.seen.current \in Nat /\ write.seen.stale \in Nat
           /\ write.late \in 0 .. MaxLate /\ late \in 0 .. MaxLate /\ MaxLate \in Nat
           /\ Cardinality(Stale) \in Nat /\ Cardinality(Flying) \in Nat
           /\ Cardinality(Requests) \in Nat
  BY Bounds, Subsets, SessionSets DEF SessionInv, Sessions, Write

LEMMA SessionInit == Init => SessionInv
<1> SUFFICES ASSUME Init PROVE SessionInv
  OBVIOUS
<1>1. /\ request = [q \in Requests |-> Idle] /\ sessions = NoSessions /\ write = NoWrite
      /\ late = 0 /\ MaxLate \in Nat
  BY Bounds DEF Init
<1>2. Stale = {}
  BY <1>1, IdleRequest DEF Stale
<1>3. /\ sessions \in Sessions /\ write \in Write /\ ~ write.open
      /\ sessions.stale = 0 /\ write.seen.stale = 0
  BY <1>1 DEF Sessions, NoSessions, Write, NoWrite
<1>4. Cardinality(Stale) = 0 /\ Cardinality(Requests) \in Nat
  BY <1>2, FS_EmptySet, RequestNumbers
<1>5. sessions.stale + write.seen.stale + Cardinality(Stale)
        <= Cardinality(Requests) + late + 1
  BY <1>1, <1>3, <1>4
<1> QED
  BY <1>1, <1>3, <1>5, IdleRequest DEF SessionInv

\* A login that gets on brings nothing stale, and none but a new one is in flight
\* that was not before.
LEMMA LoginMoves ==
    ASSUME SessionInv, NEW q \in Requests,
           Receive(q) \/ Count(q) \/ Verify(q) \/ Record(q) \/ CreateSession(q)
    PROVE  /\ request' \in [Requests -> Request]
           /\ \A p \in Requests : request'[p].step = "idle" => ~ request'[p].ok
           /\ Stale' \subseteq Stale
           /\ Flying' \subseteq Flying \cup {q}
           /\ ~ Receive(q) => Flying' \subseteq Flying
           /\ CreateSession(q) => q \notin Stale' /\ q \notin Flying' /\ q \in Flying
<1>1. /\ request \in [Requests -> Request] /\ request[q] \in Request
      /\ \A p \in Requests : request[p].step = "idle" => ~ request[p].ok
  BY DEF SessionInv
<1>2. ASSUME NEW s \in {"idle", "count", "verify", "record", "session"},
             (GoTo(q, s) /\ s # "idle") \/ End(q)
      PROVE  /\ request' \in [Requests -> Request]
             /\ \A p \in Requests : p # q => request'[p] = request[p]
             /\ request'[q].step = "idle" => ~ request'[q].ok
             /\ request'[q].stale => request[q].stale
             /\ End(q) => request'[q] = Idle
  BY <1>1, <1>2, RequestMoved, IdleRequest
<1>3. CASE UNCHANGED request /\ ~ CreateSession(q)
  BY <1>1, <1>3 DEF Stale, Flying
<1>4. CASE Verify(q)
  <2>1. PICK ok \in BOOLEAN :
           request' = [request EXCEPT ![q].step = "record", ![q].ok = ok]
    BY <1>4 DEF Verify
  <2>2. /\ [request[q] EXCEPT !.step = "record", !.ok = ok] \in Request
        /\ [request[q] EXCEPT !.step = "record", !.ok = ok].stale = request[q].stale
        /\ [request[q] EXCEPT !.step = "record", !.ok = ok].step = "record"
    BY <1>1 DEF Request
  <2>3. /\ request'[q] = [request[q] EXCEPT !.step = "record", !.ok = ok]
        /\ \A p \in Requests : p # q => request'[p] = request[p]
        /\ request' \in [Requests -> Request]
    BY <1>1, <2>1, <2>2
  <2>4. /\ \A p \in Requests : request'[p].step = "idle" => ~ request'[p].ok
        /\ Stale' \subseteq Stale
    BY <1>1, <2>2, <2>3 DEF Stale
  <2>5. request[q].step # "idle" /\ ~ CreateSession(q)
    BY <1>4 DEF Verify, CreateSession
  <2>6. Flying' \subseteq Flying
    BY <2>3, <2>5 DEF Flying
  <2> QED
    BY <2>3, <2>4, <2>5, <2>6
<1>5. CASE CreateSession(q)
  <2>1. End(q) /\ request[q].step # "idle"
    BY <1>5 DEF CreateSession
  <2>2. /\ request' \in [Requests -> Request]
        /\ \A p \in Requests : p # q => request'[p] = request[p]
        /\ request'[q] = Idle
    BY <1>2, <2>1
  <2> QED
    BY <1>1, <2>1, <2>2, IdleRequest DEF Stale, Flying
<1>6. CASE (Receive(q) \/ Count(q) \/ Record(q)) /\ ~ UNCHANGED request
  <2>1. \E s \in {"count", "verify", "session"} : GoTo(q, s) \/ End(q)
    BY <1>6 DEF Receive, Count, Record
  <2>2. /\ request' \in [Requests -> Request]
        /\ \A p \in Requests : p # q => request'[p] = request[p]
        /\ request'[q].step = "idle" => ~ request'[q].ok
        /\ request'[q].stale => request[q].stale
    BY <1>2, <2>1
  <2>3. Stale' \subseteq Stale /\ Flying' \subseteq Flying \cup {q}
    BY <2>2 DEF Stale, Flying
  <2>4. ~ Receive(q) => request[q].step # "idle"
    BY <1>6 DEF Count, Record
  <2>5. ~ Receive(q) => Flying' \subseteq Flying
    BY <2>2, <2>4 DEF Flying
  <2>6. ~ CreateSession(q)
    BY <1>6, IdleRequest DEF Receive, Count, Record, CreateSession
  <2> QED
    BY <1>1, <2>2, <2>3, <2>5, <2>6
<1>7. Receive(q) \/ Count(q) \/ Record(q) => ~ CreateSession(q)
  BY IdleRequest DEF Receive, Count, Record, CreateSession
<1> QED
  BY <1>3, <1>4, <1>5, <1>6, <1>7

\* No more sessions than there were, nor more logins that can open one.
LEMMA SessionsKept ==
    ASSUME SessionInv,
           request' \in [Requests -> Request],
           \A p \in Requests : request'[p].step = "idle" => ~ request'[p].ok,
           Stale' \subseteq Stale, Flying' \subseteq Flying,
           sessions' \in Sessions, write' \in Write, late' = late,
           sessions'.stale + write'.seen.stale <= sessions.stale + write.seen.stale,
           write'.open =>
              /\ write.open /\ write'.late = write.late
              /\ sessions'.current + sessions'.stale <= sessions.current + sessions.stale
    PROVE  SessionInv'
<1>1. /\ sessions.current \in Nat /\ sessions.stale \in Nat
      /\ write.seen.stale \in Nat /\ write.late \in Nat /\ late \in Nat
      /\ Cardinality(Requests) \in Nat
      /\ Cardinality(Stale) \in Nat /\ Cardinality(Flying) \in Nat
  BY SessionNumbers
<1>2. /\ Cardinality(Stale') \in Nat /\ Cardinality(Stale') <= Cardinality(Stale)
      /\ Cardinality(Flying') \in Nat /\ Cardinality(Flying') <= Cardinality(Flying)
  BY SessionSets, Subsets
<1>3. /\ sessions'.current \in Nat /\ sessions'.stale \in Nat /\ write'.seen.stale \in Nat
  BY DEF Sessions, Write
<1>4. sessions'.stale + write'.seen.stale + Cardinality(Stale')
        <= Cardinality(Requests) + late' + 1
  <2>1. sessions.stale + write.seen.stale + Cardinality(Stale)
          <= Cardinality(Requests) + late + 1
    BY DEF SessionInv
  <2> QED
    BY <1>1, <1>2, <1>3, <2>1
<1>5. ASSUME write'.open
      PROVE  sessions'.current + sessions'.stale + Cardinality(Flying')
               <= Cardinality(Requests) + write'.late + 1
  <2>1. sessions.current + sessions.stale + Cardinality(Flying)
          <= Cardinality(Requests) + write.late + 1
    BY <1>5 DEF SessionInv
  <2> QED
    BY <1>1, <1>2, <1>3, <1>5, <2>1
<1>6. late' \in 0 .. MaxLate
  BY SessionNumbers
<1> QED
  BY <1>4, <1>5, <1>6 DEF SessionInv

\* A new login can open one session more, and is counted while a password is
\* written.
LEMMA SessionReceive ==
    ASSUME SessionInv, NEW q \in Requests, Receive(q)
    PROVE  SessionInv'
<1>1. /\ sessions' = sessions /\ late' = late
      /\ \/ UNCHANGED <<write, request>>
         \/ write' = IF write.open THEN [write EXCEPT !.late = @ + 1] ELSE write
      /\ write.late < MaxLate
  BY DEF Receive
<1>2. /\ write \in Write /\ sessions \in Sessions /\ write.late + 1 \in 0 .. MaxLate
      /\ sessions.current \in Nat /\ sessions.stale \in Nat /\ write.seen.stale \in Nat
      /\ Cardinality(Requests) \in Nat
      /\ Cardinality(Flying) \in Nat /\ Cardinality(Stale) \in Nat
      /\ late \in 0 .. MaxLate /\ write.late \in Nat /\ late \in Nat
  BY <1>1, SessionNumbers DEF SessionInv
<1>3. /\ request' \in [Requests -> Request]
      /\ \A p \in Requests : request'[p].step = "idle" => ~ request'[p].ok
      /\ Stale' \subseteq Stale /\ Flying' \subseteq Flying \cup {q}
  BY LoginMoves
<1>4. CASE UNCHANGED <<write, request>>
  <2>1. Flying' \subseteq Flying
    BY <1>4 DEF Flying
  <2> QED
    BY <1>1, <1>2, <1>3, <1>4, <2>1, SessionsKept
<1>5. CASE ~ write.open /\ write' = write
  <2>1. /\ Cardinality(Stale') \in Nat /\ Cardinality(Stale') <= Cardinality(Stale)
    BY <1>3, SessionSets, Subsets
  <2>2. sessions.stale + write.seen.stale + Cardinality(Stale)
          <= Cardinality(Requests) + late + 1
    BY DEF SessionInv
  <2>3. sessions'.stale + write'.seen.stale + Cardinality(Stale')
          <= Cardinality(Requests) + late' + 1
    BY <1>1, <1>2, <1>5, <2>1, <2>2
  <2> QED
    BY <1>1, <1>2, <1>3, <1>5, <2>3 DEF SessionInv
<1>6. CASE write.open /\ write' = [write EXCEPT !.late = write.late + 1]
  <2>1. /\ write' \in Write /\ write'.late = write.late + 1
        /\ write'.seen = write.seen /\ write'.open
    BY <1>2, <1>6 DEF Write
  <2>2. /\ Cardinality(Stale') \in Nat /\ Cardinality(Stale') <= Cardinality(Stale)
        /\ Cardinality(Flying') \in Nat /\ Cardinality(Flying') <= Cardinality(Flying) + 1
    BY <1>3, SessionSets, Subsets
  <2>3. /\ sessions.stale + write.seen.stale + Cardinality(Stale)
             <= Cardinality(Requests) + late + 1
        /\ sessions.current + sessions.stale + Cardinality(Flying)
             <= Cardinality(Requests) + write.late + 1
    BY <1>6 DEF SessionInv
  <2>4. sessions'.stale + write'.seen.stale + Cardinality(Stale')
          <= Cardinality(Requests) + late' + 1
    BY <1>1, <1>2, <2>1, <2>2, <2>3
  <2>5. sessions'.current + sessions'.stale + Cardinality(Flying')
          <= Cardinality(Requests) + write'.late + 1
    BY <1>1, <1>2, <2>1, <2>2, <2>3
  <2> QED
    BY <1>1, <1>2, <1>3, <2>1, <2>4, <2>5 DEF SessionInv
<1>7. write.open \in BOOLEAN
  BY SessionNumbers
<1> QED
  BY <1>1, <1>4, <1>5, <1>6, <1>7

\* A session is opened, and the login that opens it is in flight no more.
LEMMA SessionCreate ==
    ASSUME SessionInv, NEW q \in Requests, CreateSession(q)
    PROVE  SessionInv'
<1>1. /\ request' \in [Requests -> Request]
      /\ \A p \in Requests : request'[p].step = "idle" => ~ request'[p].ok
      /\ Stale' \subseteq Stale /\ q \notin Stale'
      /\ Flying' \subseteq Flying /\ q \notin Flying' /\ q \in Flying
  <2>1. ~ Receive(q)
    BY IdleRequest DEF Receive, CreateSession
  <2> QED
    BY <2>1, LoginMoves
<1>2. /\ write' = write /\ late' = late /\ write \in Write /\ sessions \in Sessions
      /\ sessions.current \in Nat /\ sessions.stale \in Nat /\ write.seen.stale \in Nat
      /\ Cardinality(Requests) \in Nat /\ write.late \in Nat /\ late \in Nat
      /\ late \in 0 .. MaxLate /\ MaxSessions \in Nat
      /\ Cardinality(Flying) \in Nat /\ Cardinality(Stale) \in Nat
  BY SessionNumbers, Bounds DEF CreateSession, SessionInv
<1>3. /\ Cardinality(Stale') \in Nat /\ Cardinality(Stale') <= Cardinality(Stale)
      /\ q \in Stale => Cardinality(Stale') <= Cardinality(Stale) - 1
      /\ Cardinality(Flying') \in Nat /\ Cardinality(Flying') <= Cardinality(Flying) - 1
  <2>1. Stale' \subseteq Stale \ {q} /\ Flying' \subseteq Flying \ {q}
    BY <1>1
  <2> QED
    BY <1>1, <2>1, SessionSets, Subsets
<1>4. /\ sessions' \in Sessions
      /\ \/ /\ q \in Stale
            /\ sessions'.stale = sessions.stale + 1 /\ sessions'.current = sessions.current
         \/ /\ sessions'.stale = sessions.stale
            /\ sessions'.current \in Nat /\ sessions'.current <= sessions.current + 1
  <2>1. CASE request[q].stale
    <3>1. sessions' = [sessions EXCEPT !.stale = sessions.stale + 1] /\ q \in Stale
      BY <2>1 DEF CreateSession, Stale
    <3> QED
      BY <1>2, <3>1 DEF Sessions
  <2>2. CASE ~ request[q].stale
    <3> DEFINE n == Told(sessions.current + 1)
    <3>1. sessions' = [sessions EXCEPT !.current = n]
      BY <2>2 DEF CreateSession
    <3>2. n \in Nat /\ n <= sessions.current + 1
      BY <1>2 DEF Told, Smaller
    <3> HIDE DEF n
    <3> QED
      BY <1>2, <3>1, <3>2 DEF Sessions
  <2> QED
    BY <2>1, <2>2
<1>5. sessions'.stale + write'.seen.stale + Cardinality(Stale')
        <= Cardinality(Requests) + late' + 1
  <2>1. sessions.stale + write.seen.stale + Cardinality(Stale)
          <= Cardinality(Requests) + late + 1
    BY DEF SessionInv
  <2> QED
    BY <1>2, <1>3, <1>4, <2>1
<1>6. ASSUME write'.open
      PROVE  sessions'.current + sessions'.stale + Cardinality(Flying')
               <= Cardinality(Requests) + write'.late + 1
  <2>1. sessions.current + sessions.stale + Cardinality(Flying)
          <= Cardinality(Requests) + write.late + 1
    BY <1>2, <1>6 DEF SessionInv
  <2> QED
    BY <1>2, <1>3, <1>4, <2>1
<1> QED
  BY <1>1, <1>2, <1>4, <1>5, <1>6 DEF SessionInv

\* What the revocation finds and what it leaves are the sessions there were; it
\* leaves one at most.
LEMMA SessionRevoke ==
    ASSUME SessionInv, ResetPassword \/ ChangePassword
    PROVE  SessionInv'
<1>1. PICK kept \in Sessions :
         /\ Revoke(kept) /\ kept.current <= sessions.current /\ kept.stale <= sessions.stale
         /\ kept.current + kept.stale <= 1
  <2>1. sessions \in Sessions /\ sessions.current \in Nat /\ sessions.stale \in Nat
    BY SessionNumbers DEF SessionInv
  <2>2. /\ NoSessions \in Sessions /\ NoSessions.current = 0 /\ NoSessions.stale = 0
    BY DEF NoSessions, Sessions
  <2>3. CASE ResetPassword
    BY <2>1, <2>2, <2>3 DEF ResetPassword
  <2>4. CASE ChangePassword
    <3>1. PICK kind \in DOMAIN sessions : sessions[kind] > 0 /\ Revoke(One(kind))
      BY <2>4 DEF ChangePassword
    <3>2. kind \in {"current", "stale"}
      BY <2>1 DEF Sessions
    <3>3. CASE kind = "current"
      <4>1. One(kind) \in Sessions /\ One(kind).current = 1 /\ One(kind).stale = 0
        BY <3>3 DEF One, NoSessions, Sessions
      <4>2. sessions.current > 0
        BY <3>1, <3>3
      <4> HIDE DEF One
      <4> QED
        BY <2>1, <3>1, <4>1, <4>2
    <3>4. CASE kind = "stale"
      <4>1. One(kind) \in Sessions /\ One(kind).current = 0 /\ One(kind).stale = 1
        BY <3>4 DEF One, NoSessions, Sessions
      <4>2. sessions.stale > 0
        BY <3>1, <3>4
      <4> QED
        BY <2>1, <3>1, <4>1, <4>2
    <3> QED
      BY <3>2, <3>3, <3>4
  <2> QED
    BY <2>3, <2>4
<1>2. /\ sessions \in Sessions /\ sessions.current \in Nat /\ sessions.stale \in Nat
      /\ kept.current \in Nat /\ kept.stale \in Nat
      /\ write.seen.stale \in Nat /\ late \in Nat /\ late \in 0 .. MaxLate /\ MaxLate \in Nat
      /\ Cardinality(Requests) \in Nat /\ Cardinality(Stale) \in Nat
  BY SessionNumbers DEF SessionInv, Sessions
<1>3. /\ Sees(kept) \in Sessions
      /\ Sees(kept).current = sessions.current - kept.current
      /\ Sees(kept).stale = sessions.stale - kept.stale
  BY <1>1, <1>2 DEF Sees, Sessions
<1>4. /\ write' = [NoWrite EXCEPT !.open = TRUE, !.seen = Sees(kept)]
      /\ sessions' = [k \in DOMAIN sessions |-> sessions[k] - write'.seen[k]]
      /\ request' = request /\ late' = late
  BY <1>1 DEF Revoke
<1>5. /\ write' \in Write /\ write'.open /\ write'.late = 0
      /\ write'.seen = Sees(kept)
  <2> DEFINE seen == Sees(kept)
  <2>1. seen \in Sessions
    BY <1>3
  <2>2. write' = [NoWrite EXCEPT !.open = TRUE, !.seen = seen]
    BY <1>4
  <2> HIDE DEF seen
  <2>3. write' = [open |-> TRUE, seen |-> seen, late |-> 0]
    BY <2>2 DEF NoWrite
  <2>4. 0 \in 0 .. MaxLate /\ TRUE \in BOOLEAN
    BY <1>2
  <2>5. write' \in Write
    BY <2>1, <2>3, <2>4 DEF Write
  <2>6. write'.open /\ write'.late = 0 /\ write'.seen = seen
    BY <2>3
  <2> QED
    BY <2>5, <2>6 DEF seen
<1>6. /\ sessions' \in Sessions
      /\ sessions'.current = kept.current /\ sessions'.stale = kept.stale
  <2>1. /\ write'.seen \in Sessions
        /\ write'.seen.current = sessions.current - kept.current
        /\ write'.seen.stale = sessions.stale - kept.stale
    BY <1>3, <1>5
  <2> QED
    BY <1>2, <1>4, <2>1 DEF Sessions
<1>7. Stale' = Stale /\ Flying' = Flying
  BY <1>4 DEF Stale, Flying
<1>8. /\ Cardinality(Flying') \in Nat /\ Cardinality(Flying') <= Cardinality(Requests)
  BY <1>7, SessionSets, Subsets
<1>9. sessions'.stale + write'.seen.stale + Cardinality(Stale')
        <= Cardinality(Requests) + late' + 1
  <2>1. sessions.stale + write.seen.stale + Cardinality(Stale)
          <= Cardinality(Requests) + late + 1
    BY DEF SessionInv
  <2>2. write'.seen.stale = sessions.stale - kept.stale
    BY <1>3, <1>5
  <2> QED
    BY <1>2, <1>4, <1>6, <1>7, <2>1, <2>2
<1>10. sessions'.current + sessions'.stale + Cardinality(Flying')
         <= Cardinality(Requests) + write'.late + 1
  BY <1>1, <1>2, <1>5, <1>6, <1>8
<1> QED
  BY <1>2, <1>4, <1>5, <1>6, <1>9, <1>10 DEF SessionInv

\* The sessions that the revocation has missed, and the logins in flight, are all
\* stale when the password commits.
LEMMA SessionCommit ==
    ASSUME SessionInv, CommitPassword
    PROVE  SessionInv'
<1>1. /\ write.open /\ request' = Outdated /\ late' = write.late /\ write' = NoWrite
      /\ sessions' = [current |-> 0, stale |-> sessions.stale + sessions.current]
  BY DEF CommitPassword
<1>2. /\ request \in [Requests -> Request] /\ sessions.current \in Nat
      /\ sessions.stale \in Nat /\ write.late \in 0 .. MaxLate /\ write.late \in Nat
      /\ Cardinality(Requests) \in Nat /\ Cardinality(Flying) \in Nat
      /\ 0 \in 0 .. MaxLate
      /\ \A q \in Requests : request[q].step = "idle" => ~ request[q].ok
  BY SessionNumbers DEF SessionInv
<1>3. /\ sessions' \in Sessions /\ sessions'.stale = sessions.stale + sessions.current
      /\ write' \in Write /\ ~ write'.open /\ write'.seen.stale = 0
  BY <1>1, <1>2 DEF Sessions, Write, NoWrite, NoSessions
<1>4. /\ request' \in [Requests -> Request]
      /\ \A q \in Requests : request'[q].step = request[q].step
  BY <1>1, <1>2, OutdatedMoved
<1>5. \A q \in Requests : /\ request'[q] = [request[q] EXCEPT !.stale = request[q].ok]
                          /\ request[q] \in Request
  BY <1>1, <1>2 DEF Outdated
<1>6. \A q \in Requests : request'[q].ok = request[q].ok
  BY <1>5 DEF Request
<1>7. \A q \in Requests : request'[q].stale = request[q].ok
  BY <1>5 DEF Request
<1>8. Stale' \subseteq Flying
  BY <1>2, <1>7 DEF Stale, Flying
<1>9. Cardinality(Stale') \in Nat /\ Cardinality(Stale') <= Cardinality(Flying)
  BY <1>8, SessionSets, Subsets
<1>10. sessions'.stale + write'.seen.stale + Cardinality(Stale')
         <= Cardinality(Requests) + late' + 1
  <2>1. sessions.current + sessions.stale + Cardinality(Flying)
          <= Cardinality(Requests) + write.late + 1
    BY <1>1 DEF SessionInv
  <2> QED
    BY <1>1, <1>2, <1>3, <1>9, <2>1
<1> QED
  BY <1>1, <1>2, <1>3, <1>4, <1>6, <1>10 DEF SessionInv

\* One session fewer of one kind, or none but one of it.
LEMMA Fewer ==
    ASSUME NEW s \in Sessions, NEW kind \in DOMAIN s, s[kind] > 0
    PROVE  /\ [s EXCEPT ![kind] = s[kind] - 1] \in Sessions
           /\ [s EXCEPT ![kind] = s[kind] - 1].current <= s.current
           /\ [s EXCEPT ![kind] = s[kind] - 1].stale <= s.stale
           /\ One(kind) \in Sessions /\ One(kind).current <= s.current
           /\ One(kind).stale <= s.stale
<1>1. kind \in {"current", "stale"} /\ s.current \in Nat /\ s.stale \in Nat
  BY DEF Sessions
<1>2. CASE kind = "current"
  BY <1>1, <1>2 DEF Sessions, One, NoSessions
<1>3. CASE kind = "stale"
  BY <1>1, <1>3 DEF Sessions, One, NoSessions
<1> QED
  BY <1>1, <1>2, <1>3

LEMMA SessionFewer ==
    ASSUME SessionInv, FailPassword \/ RevokeOthers \/ EndSession \/ ExpireSeen
    PROVE  SessionInv'
<1>1. /\ sessions \in Sessions /\ write \in Write /\ write.seen \in Sessions
      /\ sessions.current \in Nat /\ sessions.stale \in Nat
      /\ write.seen.current \in Nat /\ write.seen.stale \in Nat
      /\ DOMAIN sessions = {"current", "stale"} /\ DOMAIN write.seen = {"current", "stale"}
      /\ MaxSessions \in Nat
  BY SessionNumbers, Bounds DEF SessionInv, Sessions
<1>2. /\ request' \in [Requests -> Request] /\ late' = late
      /\ \A p \in Requests : request'[p].step = "idle" => ~ request'[p].ok
      /\ Stale' \subseteq Stale /\ Flying' \subseteq Flying
  <2>1. request' = request /\ late' = late
    BY DEF FailPassword, RevokeOthers, EndSession, ExpireSeen
  <2> QED
    BY <2>1 DEF SessionInv, Stale, Flying
<1>3. CASE FailPassword
  <2> DEFINE n == Smaller(sessions.current + write.seen.current, MaxSessions)
  <2>1. /\ write' = NoWrite
        /\ sessions' = [current |-> n, stale |-> sessions.stale + write.seen.stale]
    BY <1>3 DEF FailPassword
  <2>2. n \in Nat
    BY <1>1 DEF Smaller
  <2> HIDE DEF n
  <2>3. /\ write' \in Write /\ ~ write'.open /\ write'.seen.stale = 0
        /\ sessions' \in Sessions
        /\ sessions'.stale = sessions.stale + write.seen.stale
    BY <1>1, <2>1, <2>2, Bounds DEF NoWrite, NoSessions, Write, Sessions
  <2>4. sessions'.stale + write'.seen.stale <= sessions.stale + write.seen.stale
    BY <1>1, <2>3
  <2> QED
    BY <1>2, <2>3, <2>4, SessionsKept
<1>4. CASE RevokeOthers \/ EndSession
  <2>1. PICK kind \in DOMAIN sessions :
           /\ sessions[kind] > 0
           /\ \/ sessions' = One(kind)
              \/ sessions' = [sessions EXCEPT ![kind] = sessions[kind] - 1]
    BY <1>4 DEF RevokeOthers, EndSession
  <2>2. write' = write
    BY <1>4 DEF RevokeOthers, EndSession
  <2>3. /\ sessions' \in Sessions
        /\ sessions'.current <= sessions.current /\ sessions'.stale <= sessions.stale
    BY <1>1, <2>1, Fewer
  <2>4. sessions'.current \in Nat /\ sessions'.stale \in Nat
    BY <2>3 DEF Sessions
  <2>5. /\ sessions'.stale + write'.seen.stale <= sessions.stale + write.seen.stale
        /\ sessions'.current + sessions'.stale <= sessions.current + sessions.stale
    BY <1>1, <2>2, <2>3, <2>4
  <2> QED
    BY <1>1, <1>2, <2>2, <2>3, <2>5, SessionsKept
<1>5. CASE ExpireSeen
  <2>1. PICK kind \in DOMAIN write.seen :
           /\ write.seen[kind] > 0
           /\ write' = [write EXCEPT !.seen[kind] = @ - 1]
    BY <1>1, <1>5 DEF ExpireSeen
  <2> DEFINE s == write.seen
             fewer == [s EXCEPT ![kind] = s[kind] - 1]
  <2>2. fewer \in Sessions /\ fewer.stale <= write.seen.stale
    BY <1>1, <2>1, Fewer
  <2>3. write' = [write EXCEPT !.seen = fewer]
    BY <1>1, <2>1 DEF Write
  <2> HIDE DEF fewer
  <2>4. /\ write' \in Write /\ write'.open = write.open /\ write'.late = write.late
        /\ write'.seen = fewer
    BY <1>1, <2>2, <2>3 DEF Write
  <2>5. sessions' = sessions /\ fewer.stale \in Nat
    BY <1>5, <2>2 DEF ExpireSeen, Sessions
  <2>6. /\ sessions'.stale + write'.seen.stale <= sessions.stale + write.seen.stale
        /\ sessions'.current + sessions'.stale <= sessions.current + sessions.stale
    BY <1>1, <2>2, <2>4, <2>5
  <2> QED
    BY <1>1, <1>2, <2>4, <2>5, <2>6, SessionsKept
<1> QED
  BY <1>3, <1>4, <1>5

LEMMA SessionStep == SessionInv /\ [Next]_vars => SessionInv'
<1> SUFFICES ASSUME SessionInv, [Next]_vars PROVE SessionInv'
  OBVIOUS
<1>1. ASSUME NEW q \in Requests, Count(q) \/ Verify(q) \/ Record(q)
      PROVE  SessionInv'
  <2>1. UNCHANGED <<sessions, write, late>> /\ ~ Receive(q)
    BY <1>1, IdleRequest DEF Count, Verify, Record, Receive
  <2>2. /\ request' \in [Requests -> Request]
        /\ \A p \in Requests : request'[p].step = "idle" => ~ request'[p].ok
        /\ Stale' \subseteq Stale /\ Flying' \subseteq Flying
    BY <1>1, <2>1, LoginMoves
  <2>3. /\ sessions \in Sessions /\ write \in Write
        /\ sessions.stale + write.seen.stale <= sessions.stale + write.seen.stale
        /\ sessions.current + sessions.stale <= sessions.current + sessions.stale
    BY SessionNumbers DEF SessionInv
  <2> QED
    BY <2>1, <2>2, <2>3, SessionsKept
<1>2. CASE UNCHANGED <<request, sessions, write, late>>
  BY <1>2 DEF SessionInv, Stale, Flying
<1>3. Tick \/ UNCHANGED vars => UNCHANGED <<request, sessions, write, late>>
  BY DEF Tick, vars
<1> QED
  BY <1>1, <1>2, <1>3, SessionReceive, SessionCreate, SessionRevoke, SessionCommit,
     SessionFewer DEF Next, Serve

-----------------------------------------------------------------------------
(* What holds of every behaviour *)

LoginInv == RateInv /\ FailInv /\ SessionInv

LEMMA LoginInvHolds == Spec => []LoginInv
<1>1. Init => LoginInv
  BY RateInit, FailInit, SessionInit DEF LoginInv
<1>2. LoginInv /\ [Next]_vars => LoginInv'
  BY RateStep, FailStep, SessionStep DEF LoginInv
<1> QED
  BY <1>1, <1>2, PTL DEF Spec

\* Whatever logins come, and however time passes between their steps, the
\* counters and the requests stay well formed.
THEOREM LoginsTypeCorrect == Spec => []TypeOK
<1>1. ASSUME LoginInv PROVE TypeOK
  <2>1. \A i \in 0 .. Window - 1 : admitted[i] \in 0 .. MaxRate
    <3> SUFFICES ASSUME NEW i \in 0 .. Window - 1 PROVE admitted[i] \in 0 .. MaxRate
      OBVIOUS
    <3>1. /\ phase \in 0 .. Window - 1 /\ admitted[i] \in Nat /\ MaxRate \in Nat
          /\ Span(admitted, 0, phase) <= MaxRate
          /\ Span(admitted, phase + 1, Window - 1) <= MaxRate
      BY <1>1, Bounds DEF LoginInv, RateInv
    <3>2. /\ Span(admitted, 0, phase) \in Nat
          /\ Span(admitted, phase + 1, Window - 1) \in Nat
          /\ \/ admitted[i] <= Span(admitted, 0, phase)
             \/ admitted[i] <= Span(admitted, phase + 1, Window - 1)
      <4>1. i \in 0 .. phase \/ i \in phase + 1 .. Window - 1
        BY <3>1
      <4> QED
        BY <1>1, <4>1, RateSpans DEF LoginInv
    <3> QED
      BY <3>1, <3>2
  <2>2. admitted \in [0 .. Window - 1 -> 0 .. MaxRate]
    BY <1>1, <2>1 DEF LoginInv, RateInv
  <2> QED
    BY <1>1, <2>2 DEF LoginInv, RateInv, FailInv, SessionInv, TypeOK
<1> QED
  BY <1>1, LoginInvHolds, PTL

\* In the time of a window no more than twice its limit passes, wherever it is
\* laid over the windows that the buckets count in.
THEOREM RateBoundHolds == Spec => []RateBound
<1>1. ASSUME LoginInv PROVE RateBound
  <2>1. /\ Span(admitted, 0, phase) <= MaxRate /\ MaxRate \in Nat
        /\ Span(admitted, phase + 1, Window - 1) <= MaxRate
    BY <1>1, Bounds DEF LoginInv, RateInv
  <2>2. /\ Span(admitted, 0, phase) \in Nat
        /\ Span(admitted, phase + 1, Window - 1) \in Nat
        /\ Total(admitted)
             = Span(admitted, 0, phase) + Span(admitted, phase + 1, Window - 1)
    BY <1>1, RateSpans DEF LoginInv
  <2> QED
    BY <2>1, <2>2 DEF RateBound
<1> QED
  BY <1>1, LoginInvHolds, PTL

\* The failures that logins in flight add beyond the maximum are one less than
\* there are of them at most.
THEOREM LockoutBoundHolds == Spec => []LockoutBound
<1>1. ASSUME LoginInv PROVE LockoutBound
  <2>1. Checking \subseteq Requests
    BY DEF Checking
  <2>2. Cardinality(Checking) \in Nat /\ Cardinality(Requests) \in Nat
    BY <2>1, RequestNumbers
  <2>3. /\ Total(failures) \in Nat /\ MaxFailures \in Nat
        /\ Total(failures) + Cardinality(Checking)
             <= MaxFailures + Cardinality(Requests) - 1
    BY <1>1, Bounds, FailuresType DEF LoginInv, FailInv
  <2> QED
    BY <2>2, <2>3 DEF LockoutBound
<1> QED
  BY <1>1, LoginInvHolds, PTL

\* However often the password changes, and however its transaction overlaps with
\* logins, the stale sessions that live are those of the logins in flight when it
\* revoked, of those that came before its commit, and the one that asked for it.
THEOREM StaleSessionsBoundHolds == Spec => []StaleSessionsBound
<1>1. ASSUME LoginInv PROVE StaleSessionsBound
  <2>1. /\ SessionInv /\ Cardinality(Stale) \in Nat /\ late \in Nat
        /\ sessions.stale \in Nat /\ write.seen.stale \in Nat /\ Cardinality(Requests) \in Nat
    BY <1>1, SessionNumbers DEF LoginInv
  <2>2. sessions.stale + write.seen.stale + Cardinality(Stale)
          <= Cardinality(Requests) + late + 1
    BY <2>1 DEF SessionInv
  <2> QED
    BY <2>1, <2>2 DEF StaleSessionsBound
<1> QED
  BY <1>1, LoginInvHolds, PTL
=============================================================================
