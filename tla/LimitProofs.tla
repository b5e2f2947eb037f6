----------------------------- MODULE LimitProofs -----------------------------
(***************************************************************************)
(* Theorems on the daily stake limit, for any values, stakes, funds,       *)
(* number of requests in flight and number of days: the wallet's lock      *)
(* keeps what was checked true until it is posted, a change is never       *)
(* weaker than what was asked for, and a raise waits its time.             *)
(***************************************************************************)
EXTENDS StakeLimits, TLAPS

-----------------------------------------------------------------------------
(* The limit *)

\* A row's value in force is one of the two that it has.
LEMMA EffectiveType ==
    ASSUME NEW r \in LimitState, NEW now \in Int
    PROVE  /\ Effective(r, now) \in Values \cup {Default}
           /\ Effective(r, now) \in Nat
           /\ Effective(r, now) = r.current \/ Effective(r, now) = r.pending
  BY StakeLimitsAssumption DEF Effective, LimitState

LEMMA ChangedType ==
    ASSUME NEW r \in LimitState, NEW v \in Values, NEW now \in Days
    PROVE  Changed(r, v, now) \in LimitState /\ Changed(r, v, now).stored
<1>1. Effective(r, now) \in Values \cup {Default} /\ now \in Int
  BY EffectiveType DEF Days
<1>2. now + 1 \in 0 .. MaxDay + 1 /\ 0 \in 0 .. MaxDay + 1
  BY StakeLimitsAssumption DEF Days
<1> QED
  BY <1>1, <1>2 DEF Changed, Lowered, Raised, LimitState

\* What a change leaves in force or waiting is no more than it asked for.
LEMMA ChangedBelow ==
    ASSUME NEW r \in LimitState, NEW v \in Values, NEW now \in Days
    PROVE  Changed(r, v, now).current <= v /\ Changed(r, v, now).pending <= v
<1>1. Effective(r, now) \in Nat /\ v \in Nat
  BY EffectiveType, StakeLimitsAssumption DEF Days
<1> QED
  BY <1>1 DEF Changed, Lowered, Raised

\* A change does not raise at once what was in force when it was asked for.
LEMMA ChangedWaits ==
    ASSUME NEW r \in LimitState, NEW v \in Values, NEW now \in Days
    PROVE  Effective(Changed(r, v, now), now) <= Effective(r, now)
<1>1. Effective(r, now) \in Nat /\ v \in Nat /\ now \in Int
  BY EffectiveType, StakeLimitsAssumption DEF Days
<1>2. CASE v <= Effective(r, now)
  <2>1. Effective(Lowered(v), now) = v
    BY DEF Effective, Lowered
  <2> QED
    BY <1>1, <1>2, <2>1 DEF Changed
<1>3. CASE ~ (v <= Effective(r, now))
  <2>1. Effective(Raised(r, v, now), now) = Effective(r, now)
    <3>1. /\ Raised(r, v, now).pending = v /\ Raised(r, v, now).effectiveAt = now + 1
          /\ Raised(r, v, now).current = Effective(r, now)
      BY DEF Raised
    <3>2. Pending(Raised(r, v, now), now)
      BY <1>1, <3>1 DEF Pending
    <3> QED
      BY <1>1, <1>3, <3>1, <3>2 DEF Effective
  <2> QED
    BY <1>1, <1>3, <2>1 DEF Changed
<1> QED
  BY <1>2, <1>3

\* A row that is left alone rises on the day its change waited for.
LEMMA RisesInTime ==
    ASSUME NEW r \in LimitState, NEW now \in Nat,
           Effective(r, now + 1) > Effective(r, now)
    PROVE  now + 1 = r.effectiveAt
<1>1. r.pending \in Int /\ r.current \in Int /\ r.effectiveAt \in Int
  <2>1. /\ r.pending \in Values \cup {-1} /\ r.current \in Values \cup {Default}
        /\ r.effectiveAt \in 0 .. MaxDay + 1
    BY DEF LimitState
  <2>2. Values \cup {-1} \subseteq Int /\ Values \cup {Default} \subseteq Int
    BY StakeLimitsAssumption
  <2> QED
    BY <2>1, <2>2
<1> QED
  BY <1>1 DEF Effective, Pending

-----------------------------------------------------------------------------
(* The invariant *)

\* A placement has the wallet's lock from its check on.
Placing(q) == request[q].op \in {"check", "reserve"}

LockHeld == \A q \in Requests : Placing(q) => lock = q

\* What has passed the check is covered by the wallet, and reads no later day.
Covered ==
    \A q \in Requests :
        /\ request[q].op = "reserve" => request[q].value <= available
        /\ request[q].op \in {"update", "reserve"} => request[q].at <= day

\* Nothing is staked on a day to come.
NoFuture == \A d \in Days : d > day => staked[d] = 0

\* The last change asked for what is in force, or for less than waits.
WordKept == limit.stored => limit.current <= asked /\ limit.pending <= asked

ValueTyped ==
    \A q \in Requests :
        /\ request[q].op = "update" => request[q].value \in Values
        /\ request[q].op \in {"check", "reserve"} => request[q].value \in Stakes

LimitInv ==
    TypeOK /\ ValueTyped /\ LockHeld /\ Covered /\ NoFuture /\ WordKept /\ StakeStillFits

LEMMA IdleRequest == Idle \in Request /\ Idle.op = "idle"
  BY StakeLimitsAssumption DEF Idle, Request, Operation, Unset, LimitState, Days

LEMMA RequestFields ==
    ASSUME TypeOK, NEW q \in Requests
    PROVE  /\ request[q].row \in LimitState
           /\ request[q].value \in Nat
           /\ request[q].at \in Days
<1>1. request[q] \in Request
  BY DEF TypeOK
<1>2. /\ request[q].row \in LimitState /\ request[q].at \in Days
      /\ request[q].value \in Values \cup Stakes \cup {0}
  BY <1>1 DEF Request
<1>3. Values \cup Stakes \cup {0} \subseteq Nat
  BY StakeLimitsAssumption
<1> QED
  BY <1>2, <1>3

LEMMA LimitInit == Init => LimitInv
<1> SUFFICES ASSUME Init PROVE LimitInv
  OBVIOUS
<1>1. Unset \in LimitState /\ 0 \in Days /\ ~ Unset.stored
  BY StakeLimitsAssumption DEF Unset, LimitState, Days
<1>2. \A q \in Requests : request[q].op = "idle"
  BY IdleRequest DEF Init
<1>3. TypeOK
  BY <1>1, IdleRequest, StakeLimitsAssumption DEF Init, TypeOK
<1> QED
  BY <1>1, <1>2, <1>3, StakeLimitsAssumption
     DEF Init, LimitInv, ValueTyped, LockHeld, Covered, NoFuture, WordKept, StakeStillFits, Placing

-----------------------------------------------------------------------------
(* The steps *)

\* A request to change the limit only reads.
LEMMA UpdateReadStep ==
    ASSUME LimitInv, NEW q \in Requests, NEW v \in Values, UpdateRead(q, v)
    PROVE  LimitInv'
<1> DEFINE new == [op |-> "update", row |-> limit, value |-> v, at |-> day]
<1>1. new \in Request /\ new.op = "update" /\ new.value = v /\ new.at = day
  BY DEF LimitInv, TypeOK, Request, Operation
<1>2. /\ request' \in [Requests -> Request]
      /\ request'[q] = new
      /\ \A p \in Requests : p # q => request'[p] = request[p]
  BY <1>1 DEF UpdateRead, LimitInv, TypeOK
<1> HIDE DEF new
<1>3. UNCHANGED <<limit, asked, available, staked, lock, day>> /\ day \in Int
  BY DEF UpdateRead, LimitInv, TypeOK, Days
<1>4. TypeOK'
  BY <1>2, <1>3 DEF LimitInv, TypeOK
<1>5. /\ ValueTyped' /\ LockHeld' /\ StakeStillFits'
  BY <1>1, <1>2, <1>3 DEF LimitInv, ValueTyped, LockHeld, Placing, StakeStillFits
<1>6. Covered'
  BY <1>1, <1>2, <1>3 DEF LimitInv, Covered
<1> QED
  BY <1>3, <1>4, <1>5, <1>6 DEF LimitInv, NoFuture, WordKept

\* When a request ends, what is left to show is about the rows it has written.
LEMMA EndStep ==
    ASSUME LimitInv, NEW q \in Requests, End(q)
    PROVE  /\ request' \in [Requests -> Request]
           /\ request'[q].op = "idle"
           /\ \A p \in Requests : p # q => request'[p] = request[p]
  BY IdleRequest DEF End, LimitInv, TypeOK

LEMMA UpdateCommitStep ==
    ASSUME LimitInv, NEW q \in Requests, UpdateCommit(q)
    PROVE  LimitInv'
<1>1. /\ request[q].row \in LimitState /\ request[q].value \in Values
      /\ request[q].at \in Days
  BY RequestFields DEF UpdateCommit, LimitInv, ValueTyped
<1>2. /\ limit' \in LimitState
      /\ limit'.current <= asked' /\ limit'.pending <= asked'
  BY <1>1, ChangedType, ChangedBelow DEF UpdateCommit
<1>3. End(q) /\ UNCHANGED <<available, staked, lock, day>>
  BY DEF UpdateCommit
<1>4. TypeOK'
  BY <1>1, <1>2, <1>3, EndStep DEF UpdateCommit, LimitInv, TypeOK
<1>5. ValueTyped' /\ LockHeld' /\ StakeStillFits'
  BY <1>3, EndStep DEF LimitInv, ValueTyped, LockHeld, Placing, StakeStillFits
<1>6. Covered' /\ NoFuture'
  BY <1>3, EndStep DEF LimitInv, Covered, NoFuture
<1> QED
  BY <1>2, <1>4, <1>5, <1>6 DEF LimitInv, WordKept

LEMMA PlaceLockStep ==
    ASSUME LimitInv, NEW q \in Requests, NEW a \in Stakes, PlaceLock(q, a)
    PROVE  LimitInv'
<1> DEFINE new == [Idle EXCEPT !.op = "check", !.value = a]
<1>1. new \in Request /\ new.op = "check" /\ new.value = a
  BY IdleRequest DEF Idle, Request, Operation
<1>2. /\ request' \in [Requests -> Request]
      /\ request'[q] = new
      /\ \A p \in Requests : p # q => request'[p] = request[p]
  BY <1>1 DEF PlaceLock, LimitInv, TypeOK
<1> HIDE DEF new
<1>3. /\ UNCHANGED <<limit, asked, available, staked, day>>
      /\ lock = Nobody /\ lock' = q /\ Nobody \notin Requests
  BY StakeLimitsAssumption DEF PlaceLock, WalletFree
<1>4. TypeOK'
  BY <1>2, <1>3 DEF LimitInv, TypeOK
<1>5. \A p \in Requests : ~ Placing(p)
  BY <1>3 DEF LimitInv, LockHeld
<1>6. ValueTyped' /\ LockHeld' /\ StakeStillFits'
  BY <1>1, <1>2, <1>3, <1>5 DEF LimitInv, ValueTyped, LockHeld, Placing, StakeStillFits
<1>7. Covered' /\ NoFuture'
  BY <1>1, <1>2, <1>3 DEF LimitInv, Covered, NoFuture
<1> QED
  BY <1>3, <1>4, <1>6, <1>7 DEF LimitInv, WordKept

\* Whoever ends and gives the lock back leaves nobody placing who had it.
LEMMA QuitStep ==
    ASSUME LimitInv, NEW q \in Requests, End(q),
           (lock' = Nobody /\ lock = q) \/ lock' = lock,
           UNCHANGED <<limit, asked, available, staked, day>>
    PROVE  LimitInv'
<1>1. TypeOK'
  BY EndStep DEF LimitInv, TypeOK
<1>2. ValueTyped' /\ LockHeld' /\ StakeStillFits'
  BY EndStep DEF LimitInv, ValueTyped, LockHeld, Placing, StakeStillFits
<1>3. Covered' /\ NoFuture'
  BY EndStep DEF LimitInv, Covered, NoFuture
<1> QED
  BY <1>1, <1>2, <1>3 DEF LimitInv, WordKept

LEMMA CheckStep ==
    ASSUME LimitInv, NEW q \in Requests, Check(q)
    PROVE  LimitInv'
<1>1. lock = q
  BY DEF Check, LimitInv, LockHeld, Placing
<1>2. CASE End(q) /\ lock' = Nobody
  BY <1>1, <1>2, QuitStep DEF Check
<1>3. CASE /\ request[q].value <= available /\ Within(request[q].value)
           /\ request' = [request EXCEPT ![q].op = "reserve", ![q].row = limit, ![q].at = day]
           /\ UNCHANGED lock
  <2>1. /\ request'[q] \in Request
        /\ request'[q].op = "reserve" /\ request'[q].row = limit /\ request'[q].at = day
        /\ request'[q].value = request[q].value
        /\ \A p \in Requests : p # q => request'[p] = request[p]
    BY <1>3 DEF LimitInv, TypeOK, Request, Operation
  <2>2. request' \in [Requests -> Request]
    BY <1>3, <2>1 DEF LimitInv, TypeOK
  <2>3. UNCHANGED <<limit, asked, available, staked, day, lock>> /\ day \in Int
    BY <1>3 DEF Check, LimitInv, TypeOK, Days
  <2>4. TypeOK'
    BY <2>2, <2>3 DEF LimitInv, TypeOK
  <2>5. ValueTyped' /\ LockHeld'
    BY <1>1, <2>1, <2>3 DEF Check, LimitInv, ValueTyped, LockHeld, Placing
  <2>6. StakeStillFits'
    BY <1>3, <2>1, <2>3 DEF LimitInv, StakeStillFits, Within
  <2>7. Covered'
    <3>1. request'[q].value <= available /\ request'[q].at <= day
      BY <1>3, <2>1, <2>3
    <3> QED
      BY <2>1, <2>3, <3>1 DEF LimitInv, Covered
  <2> QED
    BY <2>3, <2>4, <2>5, <2>6, <2>7 DEF LimitInv, NoFuture, WordKept
<1> QED
  BY <1>2, <1>3 DEF Check

LEMMA ReserveStep ==
    ASSUME LimitInv, NEW q \in Requests, Reserve(q)
    PROVE  LimitInv'
<1>1. /\ lock = q /\ request[q].value <= available /\ request[q].value \in Nat
      /\ available \in Nat /\ day \in Days /\ staked \in [Days -> Nat]
  BY RequestFields DEF Reserve, LimitInv, LockHeld, Placing, Covered, TypeOK
<1>2. End(q) /\ lock' = Nobody /\ UNCHANGED <<limit, asked, day>>
  BY DEF Reserve
<1>3. available' \in Nat /\ staked' \in [Days -> Nat]
  BY <1>1 DEF Reserve
<1>4. \A p \in Requests : p # q => ~ Placing(p)
  BY <1>1 DEF LimitInv, LockHeld
<1>5. TypeOK'
  BY <1>2, <1>3, EndStep DEF LimitInv, TypeOK
<1>6. ValueTyped' /\ LockHeld' /\ StakeStillFits'
  BY <1>2, <1>4, EndStep DEF LimitInv, ValueTyped, LockHeld, Placing, StakeStillFits
<1>7. Covered'
  BY <1>2, <1>4, EndStep DEF LimitInv, Covered, Placing
<1>8. NoFuture'
  BY <1>1, <1>2 DEF Reserve, LimitInv, NoFuture, Days
<1> QED
  BY <1>2, <1>5, <1>6, <1>7, <1>8 DEF LimitInv, WordKept

LEMMA FailStep ==
    ASSUME LimitInv, NEW q \in Requests, Fail(q)
    PROVE  LimitInv'
  BY QuitStep DEF Fail

\* A new day starts with no stakes: what has fitted an earlier one fits it.
LEMMA TomorrowStep ==
    ASSUME LimitInv, Tomorrow
    PROVE  LimitInv'
<1>1. /\ UNCHANGED <<limit, asked, available, staked, lock, request>>
      /\ day \in Nat /\ day' = day + 1 /\ day' \in Days
      /\ staked[day'] = 0 /\ staked[day] \in Nat
  BY StakeLimitsAssumption DEF Tomorrow, LimitInv, TypeOK, NoFuture, Days
<1>2. TypeOK'
  BY <1>1 DEF LimitInv, TypeOK
<1>3. StakeStillFits'
  <2> SUFFICES ASSUME NEW q \in Requests, request[q].op = "reserve", request[q].row.stored
               PROVE  staked[day'] + request[q].value <= Effective(request[q].row, request[q].at)
    BY <1>1 DEF StakeStillFits
  <2>1. staked[day] + request[q].value <= Effective(request[q].row, request[q].at)
    BY DEF LimitInv, StakeStillFits
  <2>2. /\ request[q].value \in Nat
        /\ Effective(request[q].row, request[q].at) \in Nat
    BY RequestFields, EffectiveType DEF LimitInv, Days
  <2> QED
    BY <1>1, <2>1, <2>2
<1>4. Covered'
  BY <1>1, RequestFields DEF LimitInv, Covered, Days
<1>5. NoFuture'
  BY <1>1 DEF LimitInv, NoFuture, Days
<1> QED
  BY <1>1, <1>2, <1>3, <1>4, <1>5
     DEF LimitInv, ValueTyped, LockHeld, Placing, WordKept

LEMMA LimitStep == LimitInv /\ [Next]_vars => LimitInv'
<1> SUFFICES ASSUME LimitInv, [Next]_vars PROVE LimitInv'
  OBVIOUS
<1>1. CASE UNCHANGED vars
  BY <1>1 DEF vars, LimitInv, TypeOK, ValueTyped, LockHeld, Covered, NoFuture, WordKept,
              StakeStillFits, Placing
<1> QED
  BY <1>1, UpdateReadStep, UpdateCommitStep, PlaceLockStep, CheckStep, ReserveStep,
     FailStep, TomorrowStep DEF Next

LEMMA LimitHolds == Spec => []LimitInv
  BY LimitInit, LimitStep, PTL DEF Spec

-----------------------------------------------------------------------------
(* The theorems *)

\* The wallet is never overdrawn by a stake and every row and request stays
\* well formed (place-order.ts, limits.ts).
THEOREM LimitsTypeCorrect == Spec => []TypeOK
  BY LimitHolds, PTL DEF LimitInv

\* A stake that has passed the check still fits when it is reserved, whatever
\* other requests have done and whichever day it has become (check-limits.ts).
THEOREM StakeStillFitsHolds == Spec => []StakeStillFits
  BY LimitHolds, PTL DEF LimitInv

\* What is in force never exceeds what the player asked for last (limits.ts).
THEOREM LastWordCountsHolds == Spec => []LastWordCounts
<1>1. LimitInv => LastWordCounts
  <2> SUFFICES ASSUME LimitInv, limit.stored PROVE Effective(limit, day) <= asked
    BY DEF LastWordCounts
  <2>1. Effective(limit, day) = limit.current \/ Effective(limit, day) = limit.pending
    BY EffectiveType DEF LimitInv, TypeOK, Days
  <2> QED
    BY <2>1 DEF LimitInv, WordKept
<1> QED
  BY <1>1, LimitHolds, PTL

\* The limit rises only when a raise has waited its day, or by a write that puts
\* back at most what was in force when its request read the row (limits.ts,
\* RULE-K07).
THEOREM RaiseWaitsHolds == Spec => RaiseWaits
<1> DEFINE RaiseIsLate ==
               limit.stored /\ Effective(limit', day') > Effective(limit, day) =>
                   \/ limit' = limit /\ day' = limit.effectiveAt
                   \/ \E q \in Requests :
                         /\ UpdateCommit(q)
                         /\ \/ request[q].at < day
                            \/ Effective(limit', day')
                                 <= Effective(request[q].row, request[q].at)
<1>1. ASSUME LimitInv, Next PROVE RaiseIsLate
  <2> DEFINE Blind(q) ==
               /\ UpdateCommit(q)
               /\ \/ request[q].at < day
                  \/ Effective(limit', day') <= Effective(request[q].row, request[q].at)
  <2> SUFFICES ASSUME Effective(limit', day') > Effective(limit, day)
               PROVE  \/ limit' = limit /\ day' = limit.effectiveAt
                      \/ \E q \in Requests : Blind(q)
    OBVIOUS
  <2>1. CASE UNCHANGED <<limit, day>>
    BY <1>1, <2>1, EffectiveType DEF LimitInv, TypeOK, Days
  <2>2. CASE Tomorrow
    BY <1>1, <2>2, RisesInTime DEF Tomorrow, LimitInv, TypeOK, Days
  <2>3. ASSUME NEW q \in Requests, UpdateCommit(q) PROVE Blind(q)
    <3>1. request[q].op = "update" /\ request[q].at <= day
      BY <1>1, <2>3 DEF UpdateCommit, LimitInv, Covered
    <3>2. ASSUME request[q].at = day
          PROVE  Effective(limit', day') <= Effective(request[q].row, request[q].at)
      <4>1. request[q].row \in LimitState /\ day \in Days /\ request[q].value \in Values
        BY <1>1, <3>1, RequestFields DEF LimitInv, TypeOK, ValueTyped
      <4>2. day' = day /\ limit' = Changed(request[q].row, request[q].value, day)
        BY <2>3, <3>2 DEF UpdateCommit
      <4> QED
        BY <3>2, <4>1, <4>2, ChangedWaits
    <3>3. request[q].at \in Int /\ day \in Int
      BY <1>1, RequestFields DEF LimitInv, TypeOK, Days
    <3> QED
      BY <2>3, <3>1, <3>2, <3>3
  <2> QED
    BY <1>1, <2>1, <2>2, <2>3 DEF Next, UpdateRead, PlaceLock, Check, Reserve, Fail
<1>2. LimitInv /\ [Next]_vars => [RaiseIsLate]_vars
  BY <1>1
<1>3. [][RaiseIsLate]_vars <=> RaiseWaits
  BY DEF RaiseWaits
<1> HIDE DEF RaiseIsLate
<1> QED
  BY <1>2, <1>3, LimitHolds, PTL DEF Spec
=============================================================================
