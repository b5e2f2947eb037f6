------------------------------ MODULE Economics ------------------------------
(***************************************************************************)
(* The arithmetic of a market's economic profile: which profiles are        *)
(* accepted, when a pair of stakes can pay for the odds it promises, and    *)
(* what a settled pair pays.  Amounts are whole minor units and every       *)
(* division rounds down.                                                    *)
(***************************************************************************)
EXTENDS Integers

\* Odds are num/den; the commission and the platform's fee are basis points.
Profile == [num : Nat, den : Nat, commission : Nat, fee : Nat]

ScaleByRatio(m, num, den) == (m * num) \div den

\* Mutant: the commission is rounded up.
RoundedUpBps(m, bps) == (m * bps + 9999) \div 10000

MulBps(m, bps) == ScaleByRatio(m, bps, 10000)

\* Mutant: the fees are not taken off what the pool can pay.
FeelessProfile(p) ==
    /\ p \in Profile
    /\ p.num > 0 /\ p.den > 0
    /\ p.commission =< 10000 /\ p.fee =< 10000
    /\ p.num * 10000 =< p.den * 20000

\* Mutant: the odds need not be funded by the pool.
UnfundedProfile(p) ==
    /\ p \in Profile
    /\ p.num > 0 /\ p.den > 0
    /\ p.commission =< 10000 /\ p.fee =< 10000

\* A profile that an administrator can create: what the odds promise and the
\* fees are together no more than the two stakes of a pair.
Accepted(p) ==
    /\ p \in Profile
    /\ p.num > 0 /\ p.den > 0
    /\ p.commission =< 10000 /\ p.fee =< 10000
    /\ p.num * 10000 =< p.den * (20000 - p.commission - p.fee)

\* What the odds of a stake promise it.
Exposure(m, p) == ScaleByRatio(m, p.num, p.den)

\* The two stakes of a pair can pay what either of them is promised.
SelfFunding(a, p, b, q) == Exposure(a, p) =< a + b /\ Exposure(b, q) =< a + b

\* What a win pays: the two stakes without the commission on one of them.
ReturnOf(m, bps) == 2 * m - MulBps(m, bps)
=============================================================================
