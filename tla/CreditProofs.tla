----------------------------- MODULE CreditProofs -----------------------------
(***************************************************************************)
(* Proofs about the requests for credit: the code of four transactions     *)
(* keeps the promise of module Credits, for any users, keys, amounts and   *)
(* number of requests in flight, and the daily cap is passed by no more    *)
(* than the other requests in flight can add.                              *)
(***************************************************************************)
EXTENDS CreditRequests, TotalsProofs, TLAPS

\* Whoever is about to commit a key is alone with it, and the ledger has none.
Reserved ==
    /\ \A h \in Handlers : At(h, "commit") => ~ Taken(handler[h].key)
    /\ \A g, h \in Handlers :
          At(g, "commit") /\ At(h, "commit") /\ handler[g].key = handler[h].key => g = h

\* A request that goes on to answer found its key in the ledger or put it there.
PaidFirst ==
    \A h \in Handlers : handler[h].step \in {"replay", "respond"} => Taken(handler[h].key)

\* So did the one whose response is stored.
AnswersPaid == \A r \in rows : r.answered => Taken(r.key)

CreditInv == TypeOK /\ Reserved /\ PaidFirst /\ AnswersPaid

LEMMA IdleStep == Idle.step = "idle"
  BY DEF Idle

LEMMA BusyFields ==
    ASSUME NEW b \in Busy
    PROVE  /\ b.step \in Step /\ b.user \in Users /\ b.key \in Keys
           /\ b.amount \in Amounts /\ b.amount \in Nat
  BY CreditRequestsAssumption DEF Busy

\* A handler at a step of the code has been sent a request.
LEMMA BusyHandler ==
    ASSUME TypeOK, NEW h \in Handlers, handler[h].step # "idle"
    PROVE  handler[h] \in Busy
  BY IdleStep DEF TypeOK

\* A handler that goes on keeps its request.
LEMMA GoneTo ==
    ASSUME TypeOK, NEW h \in Handlers, NEW s \in Step, handler[h].step # "idle", GoTo(h, s)
    PROVE  handler' \in [Handlers -> Busy \cup {Idle}]
<1>1. handler[h] \in Busy
  BY BusyHandler
<1>2. [handler[h] EXCEPT !.step = s] \in Busy
  BY <1>1 DEF Busy
<1> QED
  BY <1>2 DEF GoTo, TypeOK

LEMMA Ended ==
    ASSUME TypeOK, NEW h \in Handlers, NEW r \in Reply, End(h, r)
    PROVE  /\ handler' \in [Handlers -> Busy \cup {Idle}]
           /\ reply' \in [Handlers -> Reply]
  BY DEF End, TypeOK

LEMMA Unlocked ==
    ASSUME TypeOK, NEW h \in Handlers
    PROVE  LocksAfter(h) \in [Users -> Handlers \cup {Nobody}]
  BY DEF TypeOK, LocksAfter

LEMMA TypeInit == Init => TypeOK
  BY DEF Init, TypeOK, Reply

LEMMA TypeStep == TypeOK /\ [Next]_vars => TypeOK'
<1> SUFFICES ASSUME TypeOK, [Next]_vars PROVE TypeOK'
  OBVIOUS
<1>1. ASSUME NEW h \in Handlers, NEW q \in Requests, Receive(h, q) PROVE TypeOK'
  <2>1. [step |-> "create", user |-> q.user, key |-> q.key, amount |-> q.amount] \in Busy
    BY CreditRequestsAssumption DEF Busy, Step
  <2> QED
    BY <1>1, <2>1 DEF Receive, TypeOK, Reply
<1>2. ASSUME NEW h \in Handlers, TryCreate(h) PROVE TypeOK'
  <2>1. handler[h].step # "idle"
    BY <1>2 DEF TryCreate, At
  <2>2. handler[h] \in Busy
    BY <2>1, BusyHandler
  <2>3. [user |-> handler[h].user, key |-> handler[h].key, amount |-> handler[h].amount,
         answered |-> FALSE] \in KeyRow
    BY <2>2, BusyFields DEF KeyRow
  <2>4. rows' \subseteq KeyRow
    BY <1>2, <2>3 DEF TryCreate, TypeOK
  <2>5. handler' \in [Handlers -> Busy \cup {Idle}]
    BY <1>2, <2>1, GoneTo DEF TryCreate, Step
  <2> QED
    BY <1>2, <2>4, <2>5 DEF TryCreate, TypeOK
<1>3. ASSUME NEW h \in Handlers, Lookup(h) PROVE TypeOK'
  <2>1. PICK r \in Reply : End(h, r)
    BY <1>3 DEF Lookup, Replay, Reply
  <2> QED
    BY <1>3, <2>1, Ended DEF Lookup, TypeOK
<1>4. ASSUME NEW h \in Handlers, Respond(h) PROVE TypeOK'
  <2>1. \A r \in rows : [r EXCEPT !.answered = r.answered \/ (r.user = handler[h].user /\ r.key = handler[h].key)] \in KeyRow
    BY DEF TypeOK, KeyRow
  <2>2. rows' \subseteq KeyRow
    BY <1>4, <2>1 DEF Respond, Answered
  <2> QED
    BY <1>4, <2>2, Ended DEF Respond, TypeOK, Reply
<1>5. ASSUME NEW h \in Handlers, Sum(h) PROVE TypeOK'
  <2>1. CASE End(h, "refused")
    BY <1>5, <2>1, Ended DEF Sum, TypeOK, Reply
  <2>2. CASE GoTo(h, "lock") /\ UNCHANGED reply
    BY <1>5, <2>2, GoneTo DEF Sum, TypeOK, At, Step
  <2> QED
    BY <1>5, <2>1, <2>2 DEF Sum
<1>6. ASSUME NEW h \in Handlers, Lock(h) PROVE TypeOK'
  <2>1. handler' \in [Handlers -> Busy \cup {Idle}]
    BY <1>6, GoneTo DEF Lock, At, Step
  <2> QED
    BY <1>6, <2>1 DEF Lock, TypeOK
<1>7. ASSUME NEW h \in Handlers, Find(h) PROVE TypeOK'
  <2>1. handler' \in [Handlers -> Busy \cup {Idle}]
    BY <1>7, GoneTo DEF Find, At, Step
  <2> QED
    BY <1>7, <2>1 DEF Find, TypeOK
<1>8. ASSUME NEW h \in Handlers, Insert(h) PROVE TypeOK'
  <2>1. CASE Taken(handler[h].key)
    BY <1>8, <2>1, Ended, Unlocked DEF Insert, TypeOK, Reply
  <2>2. CASE ~ Taken(handler[h].key)
    BY <1>8, <2>2, GoneTo DEF Insert, TypeOK, At, Step
  <2> QED
    BY <2>1, <2>2
<1>9. ASSUME NEW h \in Handlers, Commit(h) PROVE TypeOK'
  <2>1. handler[h] \in Busy
    BY <1>9, BusyHandler DEF Commit, At
  <2>2. wallet' \in [Users -> Nat]
    BY <1>9, <2>1, BusyFields DEF Commit, Credited, TypeOK
  <2>3. ledger' \subseteq Posting
    BY <1>9, <2>1, BusyFields DEF Commit, Posting, TypeOK
  <2>4. handler' \in [Handlers -> Busy \cup {Idle}]
    BY <1>9, GoneTo DEF Commit, At, Step
  <2> QED
    BY <1>9, <2>2, <2>3, <2>4, Unlocked DEF Commit, TypeOK
<1>10. ASSUME NEW h \in Handlers, CommitReplay(h) PROVE TypeOK'
  <2>1. handler' \in [Handlers -> Busy \cup {Idle}]
    BY <1>10, GoneTo DEF CommitReplay, At, Step
  <2> QED
    BY <1>10, <2>1, Unlocked DEF CommitReplay, TypeOK
<1>11. ASSUME NEW h \in Handlers, Fail(h) PROVE TypeOK'
  BY <1>11, Ended, Unlocked DEF Fail, TypeOK, Reply
<1>12. CASE UNCHANGED vars
  BY <1>12 DEF vars, TypeOK
<1> QED
  BY <1>1, <1>2, <1>3, <1>4, <1>5, <1>6, <1>7, <1>8, <1>9, <1>10, <1>11, <1>12 DEF Next, Serve
-----------------------------------------------------------------------------
(* The inductive invariant *)

LEMMA InvInit == Init => CreditInv
  BY TypeInit, IdleStep DEF Init, CreditInv, Reserved, PaidFirst, AnswersPaid, At

LEMMA InvStep == CreditInv /\ [Next]_vars => CreditInv'
<1> SUFFICES ASSUME CreditInv, [Next]_vars PROVE CreditInv'
  OBVIOUS
<1>t. TypeOK /\ TypeOK'
  BY TypeStep DEF CreditInv
<1>i. Reserved /\ PaidFirst /\ AnswersPaid
  BY DEF CreditInv
<1> USE DEF CreditInv
<1> SUFFICES Reserved' /\ PaidFirst' /\ AnswersPaid'
  BY <1>t
\* A step of one handler, with the rows and the ledger as they were, that takes
\* it neither to the insertion nor to the answer.
<1>q. ASSUME NEW h \in Handlers, \A g \in Handlers \ {h} : handler'[g] = handler[g],
             handler'[h].step \notin {"commit", "replay", "respond"},
             ledger' = ledger, rows' = rows
      PROVE  Reserved' /\ PaidFirst' /\ AnswersPaid'
  BY <1>q, <1>i DEF Reserved, PaidFirst, AnswersPaid, At, Taken
<1>1. ASSUME NEW h \in Handlers, NEW q \in Requests, Receive(h, q)
      PROVE  Reserved' /\ PaidFirst' /\ AnswersPaid'
  BY <1>1, <1>q, <1>t DEF Receive, TypeOK
<1>2. ASSUME NEW h \in Handlers, TryCreate(h)
      PROVE  Reserved' /\ PaidFirst' /\ AnswersPaid'
  <2>1. \A g \in Handlers \ {h} : handler'[g] = handler[g]
    BY <1>2, <1>t DEF TryCreate, GoTo, TypeOK
  <2>2. handler'[h].step \in {"sum", "lookup"}
    BY <1>2, <1>t, BusyHandler DEF TryCreate, GoTo, TypeOK, At, Busy
  <2>3. \A r \in rows' : r.answered => r \in rows
    BY <1>2 DEF TryCreate
  <2>4. ledger' = ledger
    BY <1>2 DEF TryCreate
  <2> QED
    BY <1>i, <2>1, <2>2, <2>3, <2>4 DEF Reserved, PaidFirst, AnswersPaid, At, Taken
<1>3. ASSUME NEW h \in Handlers, Lookup(h)
      PROVE  Reserved' /\ PaidFirst' /\ AnswersPaid'
  <2>1. PICK r : End(h, r)
    BY <1>3 DEF Lookup
  <2> QED
    BY <1>3, <2>1, <1>q, <1>t, IdleStep DEF Lookup, End, TypeOK
<1>4. ASSUME NEW h \in Handlers, Respond(h)
      PROVE  Reserved' /\ PaidFirst' /\ AnswersPaid'
  <2>1. /\ \A g \in Handlers \ {h} : handler'[g] = handler[g]
        /\ handler'[h].step = "idle"
        /\ ledger' = ledger
    BY <1>4, <1>t, IdleStep DEF Respond, End, TypeOK
  <2>2. Taken(handler[h].key)
    BY <1>4, <1>i DEF Respond, At, PaidFirst
  <2>3. ASSUME NEW r \in rows', r.answered PROVE Taken(r.key)
    <3>1. PICK s \in rows :
             r = [s EXCEPT !.answered = s.answered \/ (s.user = handler[h].user /\ s.key = handler[h].key)]
      BY <1>4 DEF Respond, Answered
    <3>2. s \in KeyRow
      BY <1>t DEF TypeOK
    <3>3. r.key = s.key /\ (s.answered \/ s.key = handler[h].key)
      BY <2>3, <3>1, <3>2 DEF KeyRow
    <3> QED
      BY <1>i, <2>2, <3>3 DEF AnswersPaid
  <2> QED
    BY <1>i, <2>1, <2>3 DEF Reserved, PaidFirst, AnswersPaid, At, Taken
<1>5. ASSUME NEW h \in Handlers, Sum(h)
      PROVE  Reserved' /\ PaidFirst' /\ AnswersPaid'
  <2>1. \A g \in Handlers \ {h} : handler'[g] = handler[g]
    BY <1>5, <1>t DEF Sum, GoTo, End, TypeOK
  <2>2. handler'[h].step \in {"lock", "idle"}
    BY <1>5, <1>t, BusyHandler, IdleStep DEF Sum, GoTo, End, TypeOK, At, Busy
  <2> QED
    BY <1>5, <2>1, <2>2, <1>q DEF Sum
<1>6. ASSUME NEW h \in Handlers, Lock(h)
      PROVE  Reserved' /\ PaidFirst' /\ AnswersPaid'
  <2>1. \A g \in Handlers \ {h} : handler'[g] = handler[g]
    BY <1>6, <1>t DEF Lock, GoTo, TypeOK
  <2>2. handler'[h].step = "find"
    BY <1>6, <1>t, BusyHandler DEF Lock, GoTo, TypeOK, At, Busy
  <2> QED
    BY <1>6, <2>1, <2>2, <1>q DEF Lock
<1>7. ASSUME NEW h \in Handlers, Find(h)
      PROVE  Reserved' /\ PaidFirst' /\ AnswersPaid'
  <2>1. \A g \in Handlers \ {h} : handler'[g] = handler[g]
    BY <1>7, <1>t DEF Find, GoTo, TypeOK
  <2>2. /\ handler'[h].step = IF Taken(handler[h].key) THEN "replay" ELSE "insert"
        /\ handler'[h].key = handler[h].key
    BY <1>7, <1>t, BusyHandler DEF Find, GoTo, TypeOK, At, Busy
  <2>3. ledger' = ledger /\ rows' = rows
    BY <1>7 DEF Find
  <2> QED
    BY <1>i, <2>1, <2>2, <2>3 DEF Reserved, PaidFirst, AnswersPaid, At, Taken
<1>8. ASSUME NEW h \in Handlers, Insert(h)
      PROVE  Reserved' /\ PaidFirst' /\ AnswersPaid'
  <2>1. CASE Taken(handler[h].key)
    <3>1. /\ \A g \in Handlers \ {h} : handler'[g] = handler[g]
          /\ handler'[h].step = "idle"
      BY <1>8, <2>1, <1>t, IdleStep DEF Insert, End, TypeOK
    <3> QED
      BY <1>8, <3>1, <1>q DEF Insert
  <2>2. CASE ~ Taken(handler[h].key)
    <3>1. \A g \in Handlers \ {h} : handler'[g] = handler[g]
      BY <1>8, <2>2, <1>t DEF Insert, GoTo, TypeOK
    <3>2. handler'[h].step = "commit" /\ handler'[h].key = handler[h].key
      BY <1>8, <2>2, <1>t, BusyHandler DEF Insert, GoTo, TypeOK, At, Busy
    <3>3. ledger' = ledger /\ rows' = rows
      BY <1>8 DEF Insert
    <3>4. \A g \in Handlers : At(g, "commit") => handler[g].key # handler[h].key
      BY <1>8 DEF Insert, Inserting
    <3> QED
      BY <1>i, <2>2, <3>1, <3>2, <3>3, <3>4 DEF Reserved, PaidFirst, AnswersPaid, At, Taken
  <2> QED
    BY <2>1, <2>2
<1>9. ASSUME NEW h \in Handlers, Commit(h)
      PROVE  Reserved' /\ PaidFirst' /\ AnswersPaid'
  <2>1. \A g \in Handlers \ {h} : handler'[g] = handler[g]
    BY <1>9, <1>t DEF Commit, GoTo, TypeOK
  <2>2. handler'[h].step = "respond" /\ handler'[h].key = handler[h].key
    BY <1>9, <1>t, BusyHandler DEF Commit, GoTo, TypeOK, At, Busy
  <2>3. rows' = rows
    BY <1>9 DEF Commit
  <2>4. \A k : Taken(k)' <=> Taken(k) \/ k = handler[h].key
    <3> DEFINE c == [key |-> handler[h].key, user |-> handler[h].user, amount |-> handler[h].amount]
    <3>1. ledger' = ledger \cup {c}
      BY <1>9 DEF Commit
    <3>2. c.key = handler[h].key
      OBVIOUS
    <3> HIDE DEF c
    <3> QED
      BY <3>1, <3>2 DEF Taken
  <2>5. Reserved'
    <3>1. \A g \in Handlers \ {h} : At(g, "commit") => handler[g].key # handler[h].key
      BY <1>9, <1>i DEF Reserved, Commit
    <3> QED
      BY <1>i, <2>1, <2>2, <2>4, <3>1 DEF Reserved, At
  <2>6. PaidFirst'
    BY <1>i, <2>1, <2>2, <2>4 DEF PaidFirst
  <2>7. AnswersPaid'
    BY <1>i, <2>3, <2>4 DEF AnswersPaid
  <2> QED
    BY <2>5, <2>6, <2>7
<1>10. ASSUME NEW h \in Handlers, CommitReplay(h)
       PROVE  Reserved' /\ PaidFirst' /\ AnswersPaid'
  <2>1. \A g \in Handlers \ {h} : handler'[g] = handler[g]
    BY <1>10, <1>t DEF CommitReplay, GoTo, TypeOK
  <2>2. handler'[h].step = "respond" /\ handler'[h].key = handler[h].key
    BY <1>10, <1>t, BusyHandler DEF CommitReplay, GoTo, TypeOK, At, Busy
  <2>3. ledger' = ledger /\ rows' = rows /\ handler[h].step = "replay"
    BY <1>10 DEF CommitReplay, At
  <2> QED
    BY <1>i, <2>1, <2>2, <2>3 DEF Reserved, PaidFirst, AnswersPaid, At, Taken
<1>11. ASSUME NEW h \in Handlers, Fail(h)
       PROVE  Reserved' /\ PaidFirst' /\ AnswersPaid'
  <2>1. /\ \A g \in Handlers \ {h} : handler'[g] = handler[g]
        /\ handler'[h].step = "idle"
    BY <1>11, <1>t, IdleStep DEF Fail, End, TypeOK
  <2> QED
    BY <1>11, <2>1, <1>q DEF Fail
<1>12. CASE UNCHANGED vars
  BY <1>12, <1>i DEF vars, Reserved, PaidFirst, AnswersPaid, At, Taken
<1> QED
  BY <1>1, <1>2, <1>3, <1>4, <1>5, <1>6, <1>7, <1>8, <1>9, <1>10, <1>11, <1>12 DEF Next, Serve
-----------------------------------------------------------------------------
(* Type correctness *)

LEMMA SpecSteps == Spec => Init /\ [][Next]_vars
  BY DEF Spec

LEMMA InvariantHolds == Spec => []CreditInv
  BY InvInit, InvStep, SpecSteps, PTL

\* Whatever requests arrive, repeat and fail, the rows of the three tables stay
\* well formed and no wallet is ever negative.
THEOREM RequestsTypeCorrect == Spec => []TypeOK
<1>1. CreditInv => TypeOK
  BY DEF CreditInv
<1> QED
  BY <1>1, InvariantHolds, PTL

\* A client is told of success only when a posting under its key is there.
THEOREM RepliesAreTrueHolds == Spec => RepliesAreTrue
<1> DEFINE True == \A h \in Handlers : reply'[h] = "success" /\ reply[h] # "success" =>
                       \E p \in ledger : p.key = handler[h].key
<1>1. ASSUME CreditInv, [Next]_vars PROVE True
  <2> SUFFICES ASSUME NEW h \in Handlers, reply'[h] = "success", reply[h] # "success"
               PROVE  Taken(handler[h].key)
    BY DEF Taken
  <2>t. TypeOK /\ PaidFirst /\ AnswersPaid
    BY <1>1 DEF CreditInv
  <2>1. Respond(h) \/ Lookup(h)
    <3>1. ASSUME NEW g \in Handlers, Serve(g), g # h PROVE FALSE
      BY <3>1, <2>t DEF Serve, TryCreate, Lookup, Sum, Lock, Find, Insert, Commit,
                        CommitReplay, Respond, End, TypeOK
    <3>2. ASSUME NEW g \in Handlers, Fail(g) \/ (\E q \in Requests : Receive(g, q)) PROVE FALSE
      BY <3>2, <2>t DEF Fail, Receive, End, TypeOK
    <3>3. Serve(h)
      BY <1>1, <3>1, <3>2 DEF Next, vars
    <3> QED
      BY <3>3, <2>t DEF Serve, TryCreate, Sum, Lock, Find, Insert, Commit,
                        CommitReplay, End, TypeOK
  <2>2. CASE Respond(h)
    BY <2>2, <2>t DEF Respond, At, PaidFirst
  <2>3. CASE Lookup(h)
    <3>1. PICK r \in RowOf(handler[h].user, handler[h].key) :
             End(h, IF r.amount # handler[h].amount THEN "refused" ELSE Replay(r))
      BY <2>3 DEF Lookup
    <3>2. r.answered
      BY <3>1, <2>t DEF End, Replay, TypeOK
    <3> QED
      BY <3>1, <3>2, <2>t DEF RowOf, AnswersPaid
  <2> QED
    BY <2>1, <2>2, <2>3
<1>2. CreditInv /\ [Next]_vars => True
  BY <1>1
<1>3. CreditInv /\ [Next]_vars => [True]_vars
  BY <1>2
<1>4. [][True]_vars <=> RepliesAreTrue
  BY DEF RepliesAreTrue
<1> HIDE DEF True
<1> QED
  BY <1>3, <1>4, InvariantHolds, SpecSteps, PTL
-----------------------------------------------------------------------------
(* The ledger and the wallets *)

CreditsTo(u) == {p \in ledger : p.user = u}

Backed == IsFiniteSet(ledger) /\ \A u \in Users : wallet[u] = CreditedToday(u)

\* The credits of a user are amounts.
LEMMA CreditsAreAmounts ==
    ASSUME TypeOK, IsFiniteSet(ledger), NEW u \in Users
    PROVE  /\ IsFiniteSet(CreditsTo(u))
           /\ [c \in CreditsTo(u) |-> c.amount] \in AmountsOver(CreditsTo(u))
           /\ CreditedToday(u) = Total([c \in CreditsTo(u) |-> c.amount])
           /\ CreditedToday(u) \in Nat
<1>1. CreditsTo(u) \in SUBSET ledger
  BY DEF CreditsTo
<1>2. IsFiniteSet(CreditsTo(u))
  BY <1>1, FS_Subset
<1>3. \A c \in CreditsTo(u) : c.amount \in Nat
  BY CreditRequestsAssumption DEF CreditsTo, TypeOK, Posting
<1>4. [c \in CreditsTo(u) |-> c.amount] \in AmountsOver(CreditsTo(u))
  BY <1>3 DEF AmountsOver
<1>5. CreditedToday(u) = Total([c \in CreditsTo(u) |-> c.amount])
  BY DEF CreditedToday, CreditsTo
<1> QED
  BY <1>2, <1>4, <1>5, TotalType

\* A commit adds its amount to the credits of its user, and to no others.
LEMMA CommitCredits ==
    ASSUME CreditInv, CreditInv', IsFiniteSet(ledger), NEW h \in Handlers, Commit(h)
    PROVE  /\ IsFiniteSet(ledger')
           /\ \A u \in Users : CreditedToday(u)' =
                 IF u = handler[h].user THEN CreditedToday(u) + handler[h].amount
                                        ELSE CreditedToday(u)
<1> DEFINE c == [key |-> handler[h].key, user |-> handler[h].user, amount |-> handler[h].amount]
<1>1. ledger' = ledger \cup {c}
  BY DEF Commit
<1>2. c.key = handler[h].key /\ c.user = handler[h].user /\ c.amount = handler[h].amount
  OBVIOUS
<1>3. TypeOK /\ TypeOK'
  BY DEF CreditInv
<1>4. c \notin ledger
  BY <1>2 DEF CreditInv, Reserved, Commit, Taken
<1> HIDE DEF c
<1>5. IsFiniteSet(ledger')
  BY <1>1, FS_AddElement
<1> SUFFICES ASSUME NEW u \in Users
             PROVE  CreditedToday(u)' = IF u = handler[h].user
                                        THEN CreditedToday(u) + handler[h].amount
                                        ELSE CreditedToday(u)
  BY <1>5
<1> DEFINE f == [p \in CreditsTo(u) |-> p.amount]
           g == [p \in CreditsTo(u)' |-> p.amount]
<1>6. /\ IsFiniteSet(CreditsTo(u)) /\ f \in AmountsOver(CreditsTo(u))
      /\ CreditedToday(u) = Total(f)
  BY <1>3, CreditsAreAmounts
<1>7. g \in AmountsOver(CreditsTo(u)') /\ CreditedToday(u)' = Total(g)
  <2>1. \A p \in CreditsTo(u)' : p.amount \in Nat
    BY <1>3, CreditRequestsAssumption DEF CreditsTo, TypeOK, Posting
  <2> QED
    BY <2>1 DEF AmountsOver, CreditedToday, CreditsTo
<1>8. CASE u = handler[h].user
  <2>1. CreditsTo(u)' = CreditsTo(u) \cup {c} /\ c \notin CreditsTo(u)
    BY <1>1, <1>2, <1>4, <1>8 DEF CreditsTo
  <2>2. \A p \in CreditsTo(u) : g[p] = f[p]
    BY <2>1
  <2>3. g[c] = handler[h].amount
    BY <2>1, <1>2
  <2> HIDE DEF f, g
  <2>4. Total(g) = Total(f) + g[c]
    BY <1>6, <1>7, <2>1, <2>2, TotalAdd
  <2> QED
    BY <1>6, <1>7, <1>8, <2>3, <2>4
<1>9. CASE u # handler[h].user
  <2>1. CreditsTo(u)' = CreditsTo(u)
    BY <1>1, <1>2, <1>9 DEF CreditsTo
  <2> QED
    BY <1>6, <1>7, <1>9, <2>1
<1> QED
  BY <1>8, <1>9

\* Only a commit changes the ledger and the wallets.
LEMMA OnlyCommitPays ==
    ASSUME [Next]_vars
    PROVE  (\E h \in Handlers : Commit(h)) \/ UNCHANGED <<ledger, wallet>>
  BY DEF Next, Serve, Receive, TryCreate, Lookup, Sum, Lock, Find, Insert, CommitReplay,
         Respond, Fail, vars

LEMMA BackedInit == Init => Backed
<1>0. Init => IsFiniteSet(ledger)
  BY FS_EmptySet DEF Init
<1> SUFFICES ASSUME Init, NEW u \in Users PROVE wallet[u] = CreditedToday(u)
  BY <1>0 DEF Backed
<1>1. ledger = {} /\ wallet[u] = 0
  BY DEF Init
<1>2. {p \in ledger : p.user = u} = {}
  BY <1>1
<1>3. [c \in {p \in ledger : p.user = u} |-> c.amount] \in AmountsOver({p \in ledger : p.user = u})
  BY <1>2 DEF AmountsOver
<1>4. CreditedToday(u) = 0
  BY <1>2, <1>3, TotalZero DEF CreditedToday
<1> QED
  BY <1>1, <1>4

LEMMA BackedStep == CreditInv /\ CreditInv' /\ Backed /\ [Next]_vars => Backed'
<1> SUFFICES ASSUME CreditInv, CreditInv', Backed, [Next]_vars PROVE Backed'
  OBVIOUS
<1>1. CASE UNCHANGED <<ledger, wallet>>
  BY <1>1 DEF Backed, CreditedToday
<1>2. ASSUME NEW h \in Handlers, Commit(h) PROVE Backed'
  <2>1. \A u \in Users : wallet'[u] = IF u = handler[h].user THEN wallet[u] + handler[h].amount
                                                             ELSE wallet[u]
    BY <1>2 DEF Commit, Credited, CreditInv, TypeOK
  <2> QED
    BY <1>2, <2>1, CommitCredits DEF Backed
<1> QED
  BY <1>1, <1>2, OnlyCommitPays

LEMMA BackedHolds == Spec => []Backed
  BY BackedInit, BackedStep, InvariantHolds, SpecSteps, PTL

\* Every wallet that the ledger writes is the total of its postings (INV-03).
THEOREM BalanceIsLedgerHolds == Spec => []BalanceIsLedger
<1>1. Backed => BalanceIsLedger
  BY DEF Backed, BalanceIsLedger
<1> QED
  BY <1>1, BackedHolds, PTL
-----------------------------------------------------------------------------
(* The refinement *)

AnsweredKeys == {<<r.user, r.key>> : r \in {s \in rows : s.answered}}

LEMMA PromiseInit == Init => Promise!Init
  BY DEF Init, Promise!Init

\* A response stored answers the user and the key of the request, if the key's
\* row is there, and nothing else.
LEMMA ResponseAnswers ==
    ASSUME TypeOK, NEW h \in Handlers, Respond(h)
    PROVE  \/ AnsweredKeys' = AnsweredKeys \cup {<<handler[h].user, handler[h].key>>}
           \/ AnsweredKeys' = AnsweredKeys
<1> DEFINE u == handler[h].user
           k == handler[h].key
           after(r) == [r EXCEPT !.answered = r.answered \/ (r.user = u /\ r.key = k)]
<1>1. rows' = {after(r) : r \in rows}
  BY DEF Respond, Answered
<1>2. \A r \in rows : /\ after(r).user = r.user /\ after(r).key = r.key
                      /\ after(r).answered <=> r.answered \/ (r.user = u /\ r.key = k)
  BY DEF TypeOK, KeyRow
<1> HIDE DEF u, k, after
<1>3. AnsweredKeys' = AnsweredKeys \cup {<<r.user, r.key>> : r \in {s \in rows : s.user = u /\ s.key = k}}
  BY <1>1, <1>2 DEF AnsweredKeys
<1>4. CASE {s \in rows : s.user = u /\ s.key = k} = {}
  BY <1>3, <1>4
<1>5. CASE {s \in rows : s.user = u /\ s.key = k} # {}
  <2>1. {<<r.user, r.key>> : r \in {s \in rows : s.user = u /\ s.key = k}} = {<<u, k>>}
    BY <1>5
  <2> QED
    BY <1>3, <2>1 DEF u, k
<1> QED
  BY <1>4, <1>5

\* The row of a claimed key has no response yet.
LEMMA ClaimAnswersNothing ==
    ASSUME NEW h \in Handlers, TryCreate(h)
    PROVE  AnsweredKeys' = AnsweredKeys
<1>1. {s \in rows' : s.answered} = {s \in rows : s.answered}
  <2> DEFINE c == [user |-> handler[h].user, key |-> handler[h].key,
                   amount |-> handler[h].amount, answered |-> FALSE]
  <2>1. rows' = rows \/ rows' = rows \cup {c}
    BY DEF TryCreate
  <2>2. ~ c.answered
    OBVIOUS
  <2> HIDE DEF c
  <2> QED
    BY <2>1, <2>2
<1> QED
  BY <1>1 DEF AnsweredKeys

LEMMA PromiseStep ==
    CreditInv /\ [Next]_vars => [Promise!Next]_<<ledger, wallet, AnsweredKeys>>
<1> SUFFICES ASSUME CreditInv, [Next]_vars
             PROVE  Promise!Next \/ UNCHANGED <<ledger, wallet, AnsweredKeys>>
  OBVIOUS
<1>t. TypeOK
  BY DEF CreditInv
<1>1. ASSUME NEW h \in Handlers, Commit(h) PROVE Promise!Next
  <2> DEFINE c == [key |-> handler[h].key, user |-> handler[h].user, amount |-> handler[h].amount]
  <2>1. c \in Promise!Credit
    BY <1>1, <1>t, BusyHandler, BusyFields DEF Commit, At, Promise!Credit
  <2>2. \A d \in ledger : d.key # c.key
    BY <1>1 DEF CreditInv, Reserved, Commit, Taken
  <2>3. rows' = rows
    BY <1>1 DEF Commit
  <2>4. Promise!Pay(c)
    BY <1>1, <2>2, <2>3 DEF Promise!Pay, Commit, Credited
  <2> QED
    BY <2>1, <2>4 DEF Promise!Next
<1>2. ASSUME NEW h \in Handlers, Respond(h)
      PROVE  Promise!Next \/ UNCHANGED <<ledger, wallet, AnsweredKeys>>
  <2>1. ledger' = ledger /\ wallet' = wallet
    BY <1>2 DEF Respond
  <2>2. CASE AnsweredKeys' = AnsweredKeys
    BY <2>1, <2>2
  <2>3. CASE AnsweredKeys' = AnsweredKeys \cup {<<handler[h].user, handler[h].key>>}
    <3>1. Taken(handler[h].key)
      BY <1>2 DEF CreditInv, PaidFirst, Respond, At
    <3>2. PICK u \in Users, k \in Keys : u = handler[h].user /\ k = handler[h].key
      BY <1>2, <1>t, BusyHandler, BusyFields DEF Respond, At
    <3>3. Promise!Answer(u, k)
      BY <2>1, <2>3, <3>1, <3>2 DEF Promise!Answer, Taken, AnsweredKeys
    <3> QED
      BY <3>3 DEF Promise!Next
  <2> QED
    BY <1>2, <1>t, <2>2, <2>3, ResponseAnswers
<1>3. ASSUME NEW h \in Handlers, TryCreate(h)
      PROVE  UNCHANGED <<ledger, wallet, AnsweredKeys>>
  BY <1>3, ClaimAnswersNothing DEF TryCreate
<1>4. CASE UNCHANGED <<ledger, wallet, rows>>
  BY <1>4 DEF AnsweredKeys
<1>5. \/ \E h \in Handlers : Commit(h) \/ Respond(h) \/ TryCreate(h)
      \/ UNCHANGED <<ledger, wallet, rows>>
  BY DEF Next, Serve, Receive, Lookup, Sum, Lock, Find, Insert, CommitReplay, Fail, vars
<1> QED
  BY <1>1, <1>2, <1>3, <1>4, <1>5

\* The four transactions of a request keep the promise of a single one: retries,
\* concurrent duplicates and failures between the transactions never pay a key
\* twice, change a wallet without a posting or answer a request whose key has
\* not paid.
THEOREM CreditsAsPromisedHolds == Spec => CreditsAsPromised
<1>1. Promise!Spec <=> Promise!Init /\ [][Promise!Next]_<<ledger, wallet, AnsweredKeys>>
  BY DEF Promise!Spec, AnsweredKeys
<1> QED
  BY <1>1, PromiseInit, PromiseStep, InvariantHolds, SpecSteps, PTL DEF CreditsAsPromised
-----------------------------------------------------------------------------
(* The daily cap *)

\* The requests of u that have passed the cap and whose posting is to come.
Pending(u) ==
    {h \in Handlers : handler[h].step \in {"lock", "find", "insert", "commit"}
                          /\ handler[h].user = u}

Asked(u) == Total([h \in Pending(u) |-> handler[h].amount])

\* Of the requests that have passed the cap, all but one were not counted.
CapInv ==
    \A u \in Users, m \in Amounts : (\A a \in Amounts : a <= m) =>
        CreditedToday(u) + Asked(u) <= DailyCap + (Cardinality(Handlers) - 1) * m

LEMMA PendingAmounts ==
    ASSUME TypeOK, NEW u \in Users
    PROVE  /\ IsFiniteSet(Pending(u))
           /\ [h \in Pending(u) |-> handler[h].amount] \in AmountsOver(Pending(u))
           /\ Asked(u) \in Nat
           /\ \A h \in Pending(u) : handler[h].amount \in Amounts
<1>1. Pending(u) \in SUBSET Handlers
  BY DEF Pending
<1>2. IsFiniteSet(Pending(u))
  BY <1>1, FS_Subset, CreditRequestsAssumption
<1>3. \A h \in Pending(u) : handler[h].amount \in Amounts /\ handler[h].amount \in Nat
  BY BusyHandler, BusyFields DEF Pending
<1>4. [h \in Pending(u) |-> handler[h].amount] \in AmountsOver(Pending(u))
  BY <1>3 DEF AmountsOver
<1> QED
  BY <1>2, <1>3, <1>4, TotalType DEF Asked

\* Fewer pending requests, with the same amounts, ask for less.
LEMMA FewerAskLess ==
    ASSUME TypeOK, TypeOK', NEW u \in Users, Pending(u)' \subseteq Pending(u),
           \A h \in Pending(u)' : handler'[h].amount = handler[h].amount
    PROVE  Asked(u)' <= Asked(u)
<1> DEFINE f == [h \in Pending(u) |-> handler[h].amount]
<1>1. IsFiniteSet(Pending(u)) /\ f \in AmountsOver(Pending(u))
  BY PendingAmounts
<1>2. [h \in Pending(u)' |-> handler'[h].amount] = [h \in Pending(u)' |-> f[h]]
  OBVIOUS
<1> HIDE DEF f
<1>3. Total([h \in Pending(u)' |-> f[h]]) <= Total(f)
  BY <1>1, TotalPart
<1> QED
  BY <1>2, <1>3 DEF Asked, f

\* One more pending request asks for its amount more.
LEMMA OneMoreAsks ==
    ASSUME TypeOK, TypeOK', NEW u \in Users, NEW h \in Handlers, h \notin Pending(u),
           Pending(u)' = Pending(u) \cup {h},
           \A g \in Pending(u) : handler'[g].amount = handler[g].amount
    PROVE  Asked(u)' = Asked(u) + handler'[h].amount
<1> DEFINE f == [g \in Pending(u) |-> handler[g].amount]
           d == [g \in Pending(u)' |-> handler'[g].amount]
<1>1. IsFiniteSet(Pending(u)) /\ f \in AmountsOver(Pending(u))
  BY PendingAmounts
<1>2. \A g \in Pending(u)' : handler'[g].amount \in Nat
  <2> SUFFICES ASSUME NEW g \in Handlers, handler'[g].step # "idle"
               PROVE  handler'[g].amount \in Nat
    BY DEF Pending
  <2>1. handler'[g] \in Busy
    BY IdleStep DEF TypeOK
  <2> QED
    BY <2>1, BusyFields
<1>3. d \in AmountsOver(Pending(u) \cup {h})
  BY <1>2 DEF AmountsOver
<1>4. \A g \in Pending(u) : d[g] = f[g]
  OBVIOUS
<1>5. d[h] = handler'[h].amount
  OBVIOUS
<1> HIDE DEF f, d
<1>6. Total(d) = Total(f) + d[h]
  BY <1>1, <1>3, <1>4, TotalAdd
<1> QED
  BY <1>5, <1>6 DEF Asked, f, d

PendingSteps == {"lock", "find", "insert", "commit"}

LEMMA CreditsSame == ASSUME ledger' = ledger PROVE \A u : CreditedToday(u)' = CreditedToday(u)
  BY DEF CreditedToday

\* What the handlers may add to the cap.
LEMMA CapSlack ==
    ASSUME NEW m \in Amounts
    PROVE  /\ Cardinality(Handlers) \in Nat /\ m \in Nat /\ DailyCap \in Nat
           /\ (Cardinality(Handlers) - 1) * m \in Nat
<1>1. Cardinality(Handlers) \in Nat /\ Cardinality(Handlers) # 0
  BY CreditRequestsAssumption, FS_CardinalityType, FS_EmptySet
<1>2. m \in Nat /\ DailyCap \in Nat
  BY CreditRequestsAssumption
<1>3. \A n \in Nat, k \in Nat : n # 0 => (n - 1) * k \in Nat
  OBVIOUS
<1> QED
  BY <1>1, <1>2, <1>3

\* A handler that neither passes the cap nor commits asks for no more.
LEMMA CapKept ==
    ASSUME TypeOK, TypeOK', IsFiniteSet(ledger), CapInv, NEW h \in Handlers, ledger' = ledger,
           \A g \in Handlers \ {h} : handler'[g] = handler[g],
           \/ handler'[h].step \notin PendingSteps
           \/ /\ handler[h].step \in PendingSteps
              /\ handler'[h].user = handler[h].user
              /\ handler'[h].amount = handler[h].amount
    PROVE  CapInv'
<1> SUFFICES ASSUME NEW u \in Users, NEW m \in Amounts, \A a \in Amounts : a <= m
             PROVE  CreditedToday(u)' + Asked(u)' <= DailyCap + (Cardinality(Handlers) - 1) * m
  BY DEF CapInv
<1>1. /\ Pending(u)' \subseteq Pending(u)
      /\ \A g \in Pending(u)' : handler'[g].amount = handler[g].amount
  BY DEF Pending, PendingSteps
<1>2. Asked(u)' <= Asked(u)
  BY <1>1, FewerAskLess
<1>3. CreditedToday(u)' = CreditedToday(u)
  BY CreditsSame
<1>4. CreditedToday(u) + Asked(u) <= DailyCap + (Cardinality(Handlers) - 1) * m
  BY DEF CapInv
<1>5. Asked(u) \in Nat /\ Asked(u)' \in Nat /\ CreditedToday(u) \in Nat
  <2>1. Asked(u)' \in Nat
    <3>1. IsFiniteSet(Pending(u)')
      BY <1>1, PendingAmounts, FS_Subset
    <3>2. [g \in Pending(u)' |-> handler'[g].amount] \in AmountsOver(Pending(u)')
      BY <1>1, PendingAmounts DEF AmountsOver
    <3> QED
      BY <3>1, <3>2, TotalType DEF Asked
  <2> QED
    BY <2>1, PendingAmounts, CreditsAreAmounts
<1> DEFINE K == DailyCap + (Cardinality(Handlers) - 1) * m
<1>6. K \in Nat
  BY CapSlack
<1> HIDE DEF K
<1>7. CreditedToday(u) + Asked(u) <= K
  BY <1>4 DEF K
<1>8. CreditedToday(u)' + Asked(u)' <= K
  BY <1>2, <1>3, <1>5, <1>6, <1>7
<1> QED
  BY <1>8 DEF K

\* The handler that passes the cap is none of those that have, so that they ask
\* for no more than the amounts of all the other handlers.
LEMMA CapPassed ==
    ASSUME TypeOK, TypeOK', IsFiniteSet(ledger), CapInv, NEW h \in Handlers, Sum(h),
           ~ ExceedsCap(handler[h].user, handler[h].amount)
    PROVE  CapInv'
<1>1. /\ \A g \in Handlers \ {h} : handler'[g] = handler[g]
      /\ handler'[h].step = "lock" /\ handler[h].step = "sum"
      /\ handler'[h].user = handler[h].user /\ handler'[h].amount = handler[h].amount
      /\ ledger' = ledger
  BY BusyHandler DEF Sum, GoTo, TypeOK, At, Busy
<1>2. handler[h].amount \in Nat
  BY <1>1, BusyHandler, BusyFields
<1> SUFFICES ASSUME NEW u \in Users, NEW m \in Amounts, \A a \in Amounts : a <= m
             PROVE  CreditedToday(u)' + Asked(u)' <= DailyCap + (Cardinality(Handlers) - 1) * m
  BY DEF CapInv
<1>3. CreditedToday(u)' = CreditedToday(u)
  BY <1>1, CreditsSame
<1>n. CreditedToday(u) \in Nat /\ Asked(u) \in Nat /\ DailyCap \in Nat
  BY PendingAmounts, CreditsAreAmounts, CapSlack
<1>4. CASE u = handler[h].user
  <2>1. h \notin Pending(u) /\ Pending(u)' = Pending(u) \cup {h}
    BY <1>1, <1>4 DEF Pending
  <2>2. \A g \in Pending(u) : handler'[g].amount = handler[g].amount
    BY <1>1, <2>1 DEF Pending
  <2>3. Asked(u)' = Asked(u) + handler[h].amount
    BY <1>1, <2>1, <2>2, OneMoreAsks
  <2>4. CreditedToday(u) + handler[h].amount <= DailyCap
    BY <1>2, <1>4, <1>n DEF ExceedsCap
  <2>5. Asked(u) <= Cardinality(Pending(u)) * m
    <3>1. \A g \in Pending(u) : handler[g].amount <= m
      BY PendingAmounts
    <3>2. m \in Nat
      BY CapSlack
    <3> DEFINE f == [g \in Pending(u) |-> handler[g].amount]
    <3>3. IsFiniteSet(Pending(u)) /\ f \in AmountsOver(Pending(u)) /\ \A g \in Pending(u) : f[g] <= m
      BY <3>1, PendingAmounts
    <3> HIDE DEF f
    <3>4. Total(f) <= Cardinality(Pending(u)) * m
      BY <3>2, <3>3, TotalBound
    <3> QED
      BY <3>4 DEF Asked, f
  <2>6. Cardinality(Pending(u)) <= Cardinality(Handlers) - 1 /\ Cardinality(Pending(u)) \in Nat
    <3>1. IsFiniteSet(Handlers \ {h}) /\ Cardinality(Handlers \ {h}) = Cardinality(Handlers) - 1
      BY CreditRequestsAssumption, FS_RemoveElement
    <3>2. Pending(u) \in SUBSET (Handlers \ {h})
      BY <2>1 DEF Pending
    <3> QED
      BY <3>1, <3>2, FS_Subset, FS_CardinalityType
  <2>7. Cardinality(Pending(u)) * m <= (Cardinality(Handlers) - 1) * m
    <3>1. \A p \in Nat, n \in Int, k \in Nat : p <= n => p * k <= n * k
      OBVIOUS
    <3> QED
      BY <2>6, <3>1, CapSlack
  <2> DEFINE P == Cardinality(Pending(u)) * m
             K == (Cardinality(Handlers) - 1) * m
  <2>8. P \in Int /\ K \in Int
    BY <2>6, CapSlack
  <2> HIDE DEF P, K
  <2>9. Asked(u) <= P /\ P <= K
    BY <2>5, <2>7 DEF P, K
  <2>10. CreditedToday(u)' + Asked(u)' <= DailyCap + K
    BY <1>2, <1>3, <1>n, <2>3, <2>4, <2>8, <2>9
  <2> QED
    BY <2>10 DEF K
<1>5. CASE u # handler[h].user
  <2>1. Pending(u)' = Pending(u) /\ \A g \in Pending(u) : handler'[g].amount = handler[g].amount
    BY <1>1, <1>5 DEF Pending
  <2>2. Asked(u)' = Asked(u)
    BY <2>1 DEF Asked
  <2> QED
    BY <1>3, <2>2 DEF CapInv
<1> QED
  BY <1>4, <1>5

\* A commit credits what was asked for.
LEMMA CapCommitted ==
    ASSUME CreditInv, CreditInv', IsFiniteSet(ledger), CapInv, NEW h \in Handlers, Commit(h)
    PROVE  CapInv'
<1>t. TypeOK /\ TypeOK'
  BY DEF CreditInv
<1>1. /\ \A g \in Handlers \ {h} : handler'[g] = handler[g]
      /\ handler'[h].step = "respond" /\ handler[h].step = "commit"
  BY <1>t, BusyHandler DEF Commit, GoTo, TypeOK, At, Busy
<1> SUFFICES ASSUME NEW u \in Users PROVE CreditedToday(u)' + Asked(u)' = CreditedToday(u) + Asked(u)
  BY DEF CapInv
<1>2. CreditedToday(u)' = IF u = handler[h].user THEN CreditedToday(u) + handler[h].amount
                                                 ELSE CreditedToday(u)
  BY CommitCredits
<1>3. CASE u = handler[h].user
  <2>1. h \in Pending(u) /\ Pending(u)' = Pending(u) \ {h}
    BY <1>1, <1>3 DEF Pending
  <2> DEFINE f == [g \in Pending(u) |-> handler[g].amount]
             d == [g \in Pending(u)' |-> handler'[g].amount]
  <2>2. IsFiniteSet(Pending(u)) /\ f \in AmountsOver(Pending(u))
    BY <1>t, PendingAmounts
  <2>3. IsFiniteSet(Pending(u)')
    BY <2>1, <2>2, FS_RemoveElement
  <2>4. \A g \in Pending(u)' : d[g] = f[g]
    BY <1>1, <2>1 DEF Pending
  <2>5. d \in AmountsOver(Pending(u)')
    BY <2>1, <2>2, <2>4 DEF AmountsOver
  <2>6. Pending(u) = Pending(u)' \cup {h} /\ h \notin Pending(u)'
    BY <2>1
  <2>7. f[h] = handler[h].amount
    BY <2>1
  <2>8. Asked(u) = Total(f) /\ Asked(u)' = Total(d)
    BY DEF Asked
  <2> HIDE DEF f, d
  <2>9. Total(f) = Total(d) + f[h]
    BY <2>2, <2>3, <2>4, <2>5, <2>6, TotalAdd
  <2>10. f[h] \in Nat /\ Total(d) \in Nat
    BY <2>1, <2>2, <2>3, <2>5, TotalType DEF AmountsOver
  <2>11. CreditedToday(u) \in Nat
    BY <1>t, CreditsAreAmounts
  <2> QED
    BY <1>2, <1>3, <2>7, <2>8, <2>9, <2>10, <2>11
<1>4. CASE u # handler[h].user
  <2>1. Pending(u)' = Pending(u) /\ \A g \in Pending(u) : handler'[g].amount = handler[g].amount
    BY <1>1, <1>4 DEF Pending
  <2>2. Asked(u)' = Asked(u)
    BY <2>1 DEF Asked
  <2> QED
    BY <1>2, <1>4, <2>2
<1> QED
  BY <1>3, <1>4

LEMMA CapInit == Init => CapInv
<1> SUFFICES ASSUME Init, NEW u \in Users, NEW m \in Amounts, \A a \in Amounts : a <= m
             PROVE  CreditedToday(u) + Asked(u) <= DailyCap + (Cardinality(Handlers) - 1) * m
  BY DEF CapInv
<1>1. CreditedToday(u) = 0
  BY BackedInit DEF Init, Backed
<1>2. Pending(u) = {}
  BY IdleStep DEF Init, Pending
<1>3. [h \in Pending(u) |-> handler[h].amount] \in AmountsOver(Pending(u))
  BY <1>2 DEF AmountsOver
<1>4. Asked(u) = 0
  BY <1>2, <1>3, TotalZero DEF Asked
<1> DEFINE K == (Cardinality(Handlers) - 1) * m
<1>5. K \in Nat /\ DailyCap \in Nat
  BY CapSlack
<1> HIDE DEF K
<1>6. CreditedToday(u) + Asked(u) <= DailyCap + K
  BY <1>1, <1>4, <1>5
<1> QED
  BY <1>6 DEF K

LEMMA CapStep ==
    CreditInv /\ CreditInv' /\ Backed /\ CapInv /\ [Next]_vars => CapInv'
<1> SUFFICES ASSUME CreditInv, CreditInv', Backed, CapInv, [Next]_vars PROVE CapInv'
  OBVIOUS
<1>t. TypeOK /\ TypeOK' /\ IsFiniteSet(ledger)
  BY DEF CreditInv, Backed
\* A step of one handler that ends it, or takes it on with what it was sent.
<1>e. ASSUME NEW h \in Handlers, NEW r, End(h, r), ledger' = ledger PROVE CapInv'
  <2>1. (\A g \in Handlers \ {h} : handler'[g] = handler[g]) /\ handler'[h].step = "idle"
    BY <1>e, <1>t, IdleStep DEF End, TypeOK
  <2> QED
    BY <1>e, <1>t, <2>1, CapKept DEF PendingSteps
<1>g. ASSUME NEW h \in Handlers, NEW s \in Step, GoTo(h, s), ledger' = ledger,
             handler[h].step # "idle", s \notin PendingSteps \/ handler[h].step \in PendingSteps
      PROVE  CapInv'
  <2>1. /\ \A g \in Handlers \ {h} : handler'[g] = handler[g]
        /\ handler'[h].step = s
        /\ handler'[h].user = handler[h].user /\ handler'[h].amount = handler[h].amount
    BY <1>g, <1>t, BusyHandler DEF GoTo, TypeOK, Busy
  <2> QED
    BY <1>g, <1>t, <2>1, CapKept
<1>1. ASSUME NEW h \in Handlers, NEW q \in Requests, Receive(h, q) PROVE CapInv'
  <2>1. (\A g \in Handlers \ {h} : handler'[g] = handler[g]) /\ handler'[h].step = "create"
    BY <1>1, <1>t DEF Receive, TypeOK
  <2> QED
    BY <1>1, <1>t, <2>1, CapKept DEF Receive, PendingSteps
<1>2. ASSUME NEW h \in Handlers, TryCreate(h) PROVE CapInv'
  BY <1>2, <1>g DEF TryCreate, At, Step, PendingSteps
<1>3. ASSUME NEW h \in Handlers, Lookup(h) PROVE CapInv'
  BY <1>3, <1>e DEF Lookup
<1>4. ASSUME NEW h \in Handlers, Respond(h) PROVE CapInv'
  BY <1>4, <1>e DEF Respond
<1>5. ASSUME NEW h \in Handlers, Sum(h) PROVE CapInv'
  <2>1. CASE ExceedsCap(handler[h].user, handler[h].amount)
    BY <1>5, <1>e, <2>1 DEF Sum
  <2>2. CASE ~ ExceedsCap(handler[h].user, handler[h].amount)
    BY <1>5, <1>t, <2>2, CapPassed
  <2> QED
    BY <2>1, <2>2
<1>6. ASSUME NEW h \in Handlers, Lock(h) PROVE CapInv'
  BY <1>6, <1>g DEF Lock, At, Step, PendingSteps
<1>7. ASSUME NEW h \in Handlers, Find(h) PROVE CapInv'
  BY <1>7, <1>g DEF Find, At, Step, PendingSteps
<1>8. ASSUME NEW h \in Handlers, Insert(h) PROVE CapInv'
  <2>1. CASE Taken(handler[h].key)
    BY <1>8, <1>e, <2>1 DEF Insert
  <2>2. CASE ~ Taken(handler[h].key)
    BY <1>8, <1>g, <2>2 DEF Insert, At, Step, PendingSteps
  <2> QED
    BY <2>1, <2>2
<1>9. ASSUME NEW h \in Handlers, Commit(h) PROVE CapInv'
  BY <1>9, <1>t, CapCommitted
<1>10. ASSUME NEW h \in Handlers, CommitReplay(h) PROVE CapInv'
  BY <1>10, <1>g DEF CommitReplay, At, Step, PendingSteps
<1>11. ASSUME NEW h \in Handlers, Fail(h) PROVE CapInv'
  BY <1>11, <1>e DEF Fail
<1>12. CASE UNCHANGED vars
  <2>1. ledger' = ledger /\ handler' = handler
    BY <1>12 DEF vars
  <2> QED
    BY <2>1 DEF CapInv, CreditedToday, Asked, Pending
<1> QED
  BY <1>1, <1>2, <1>3, <1>4, <1>5, <1>6, <1>7, <1>8, <1>9, <1>10, <1>11, <1>12 DEF Next, Serve

\* The daily cap is summed before the wallet is locked, and passed by no more
\* than the largest amount for every other request in flight.
THEOREM CapOvershootHolds == Spec => []CapOvershoot
<1>1. ASSUME CreditInv, Backed, CapInv PROVE CapOvershoot
  <2> SUFFICES ASSUME NEW u \in Users, NEW m \in Amounts, \A a \in Amounts : a <= m
               PROVE  CreditedToday(u) <= DailyCap + (Cardinality(Handlers) - 1) * m
    BY DEF CapOvershoot
  <2>1. CreditedToday(u) \in Nat /\ Asked(u) \in Nat
    BY <1>1, CreditsAreAmounts, PendingAmounts DEF CreditInv, Backed
  <2> DEFINE K == DailyCap + (Cardinality(Handlers) - 1) * m
  <2>2. K \in Nat
    BY CapSlack
  <2>3. CreditedToday(u) + Asked(u) <= K
    BY <1>1 DEF CapInv
  <2> HIDE DEF K
  <2>4. CreditedToday(u) <= K
    BY <2>1, <2>2, <2>3
  <2> QED
    BY <2>4 DEF K
<1>2. CreditInv /\ Backed /\ CapInv => CapOvershoot
  BY <1>1
<1>3. Spec => []CapInv
  BY CapInit, CapStep, InvariantHolds, BackedHolds, SpecSteps, PTL
<1> QED
  BY <1>2, <1>3, InvariantHolds, BackedHolds, PTL
=============================================================================
