-------------------------------- MODULE Logins --------------------------------
(***************************************************************************)
(* Logins from one address to one account.  A login passes the rate limit  *)
(* of its address, which counts requests in windows that follow each other, *)
(* and the lockout, which counts the failures of the time that has just    *)
(* passed; it verifies the password, records the attempt and opens a       *)
(* session, each in a transaction of its own.  A reset or a change of the  *)
(* password revokes the sessions that its UPDATE finds; the new password   *)
(* is visible, and the sessions are revoked, when its transaction commits. *)
(*                                                                         *)
(* Time passes in ticks, and the past is kept as far as it matters:        *)
(* f[i] is what happened i ticks ago.                                      *)
(***************************************************************************)
EXTENDS Integers, FiniteSets, Totals

CONSTANTS
    Requests,       \* logins that can be in flight
    MaxRate,        \* the auth-strict rule: max requests
    Window,         \*   in a window of so many ticks
    MaxFailures,    \* MAX_FAILED_ATTEMPTS
    Lockout,        \*   in the LOCKOUT_WINDOW, in ticks
    MaxSessions,    \* bound: while no password is written, more sessions opened
                    \*   with the current one than this are not told apart
    MaxLate         \* bound: logins that pass the rate limit while one is written

ASSUME LoginsAssumption ==
    /\ {MaxRate, Window, MaxFailures, Lockout, MaxSessions, MaxLate} \subseteq Nat \ {0}
    /\ IsFiniteSet(Requests)

VARIABLES
    phase,      \* the ticks since the rate limit's window has started
    count,      \* the window's row of rate_limit_buckets
    admitted,   \* the requests that the rate limit has let pass
    failures,   \* the failed rows of login_attempts
    request,    \* each login in flight
    sessions,   \* the live sessions: opened with the current password, or stale;
                \*   without those that a transaction in progress has revoked
    write,      \* the transaction that writes a password, once it has revoked
    late        \* history: the logins let pass between the revocation and the
                \*   commit of the last transaction that did

vars == <<phase, count, admitted, failures, request, sessions, write, late>>
-----------------------------------------------------------------------------
(* The past, and the requests *)

Nothing(n) == [i \in 0 .. n - 1 |-> 0]

Happened(f) == [f EXCEPT ![0] = @ + 1]

\* A tick later.
Shifted(f) == [i \in DOMAIN f |-> IF i = 0 THEN 0 ELSE f[i - 1]]

Idle == [step |-> "idle", ok |-> FALSE, stale |-> FALSE]

Request == [step : {"idle", "count", "verify", "record", "session"},
            ok : BOOLEAN, stale : BOOLEAN]

Sessions == [current : Nat, stale : Nat]

NoSessions == [current |-> 0, stale |-> 0]

\* The sessions that a transaction has revoked, which live until it commits.
Write == [open : BOOLEAN, seen : Sessions, late : 0 .. MaxLate]

NoWrite == [open |-> FALSE, seen |-> NoSessions, late |-> 0]

Init ==
    /\ phase = 0
    /\ count = 0
    /\ admitted = Nothing(Window)
    /\ failures = Nothing(Lockout)
    /\ request = [q \in Requests |-> Idle]
    /\ sessions = NoSessions
    /\ write = NoWrite
    /\ late = 0

GoTo(q, s) == request' = [request EXCEPT ![q].step = s]

End(q) == request' = [request EXCEPT ![q] = Idle]
-----------------------------------------------------------------------------
(* A login *)

\* Mutant: the request that crosses the limit passes.
AllowsOneMore(n) == n <= MaxRate + 1

Allows(n) == n <= MaxRate

\* The row is inserted or incremented, and read, by one statement.  A count
\* beyond the limit makes no difference.
Receive(q) ==
    /\ request[q] = Idle
    /\ write.late < MaxLate
    /\ count' = Smaller(count + 1, MaxRate + 2)
    /\ IF Allows(count + 1)
       THEN /\ admitted' = Happened(admitted)
            /\ write' = IF write.open THEN [write EXCEPT !.late = @ + 1] ELSE write
            /\ GoTo(q, "count")
       ELSE UNCHANGED <<admitted, write, request>>
    /\ UNCHANGED <<phase, failures, sessions, late>>

\* Mutant: one failure more than the maximum locks the account.
LockedAbove == Total(failures) > MaxFailures

LockedOut == Total(failures) >= MaxFailures

\* Mutant: an attempt while the account is locked counts as a failure.
RejectedFails == Happened(failures)

\* An attempt that is turned away leaves no trace.
Rejected == failures

Count(q) ==
    /\ request[q].step = "count"
    /\ IF LockedOut
       THEN End(q) /\ failures' = Rejected
       ELSE GoTo(q, "verify") /\ UNCHANGED failures
    /\ UNCHANGED <<phase, count, admitted, sessions, write, late>>

\* The account is read, and the password verified against what was read.
Verify(q) ==
    /\ request[q].step = "verify"
    /\ \E ok \in BOOLEAN : request' = [request EXCEPT ![q].step = "record", ![q].ok = ok]
    /\ UNCHANGED <<phase, count, admitted, failures, sessions, write, late>>

Record(q) ==
    /\ request[q].step = "record"
    /\ IF request[q].ok
       THEN GoTo(q, "session") /\ UNCHANGED failures
       ELSE End(q) /\ failures' = Happened(failures)
    /\ UNCHANGED <<phase, count, admitted, sessions, write, late>>

\* So many sessions opened with the current password, told apart while they may
\* all become stale.
Told(n) == IF write.open THEN n ELSE Smaller(n, MaxSessions)

CreateSession(q) ==
    /\ request[q].step = "session"
    /\ sessions' = IF request[q].stale
                   THEN [sessions EXCEPT !.stale = @ + 1]
                   ELSE [sessions EXCEPT !.current = Told(@ + 1)]
    /\ End(q)
    /\ UNCHANGED <<phase, count, admitted, failures, write, late>>
-----------------------------------------------------------------------------
(* The password and the sessions *)

One(kind) == [NoSessions EXCEPT ![kind] = 1]

\* Mutant: the sessions stay.
SeesNone(kept) == NoSessions

\* The rows that the UPDATE finds: those of the live sessions, but the one kept.
Sees(kept) == [k \in DOMAIN sessions |-> sessions[k] - kept[k]]

\* The new password is written and the sessions revoked, with the account's row
\* locked: two transactions that do so follow each other.
Revoke(kept) ==
    /\ ~ write.open
    /\ write' = [NoWrite EXCEPT !.open = TRUE, !.seen = Sees(kept)]
    /\ sessions' = [k \in DOMAIN sessions |-> sessions[k] - write'.seen[k]]
    /\ UNCHANGED <<phase, count, admitted, failures, request, late>>

\* A reset with a valid token.
ResetPassword == Revoke(NoSessions)

\* A change from within a session, which is kept.  It was authorised, and the
\* password verified, earlier: by now it may be stale, or have ended, and then
\* there is nothing to keep, as in a reset.
ChangePassword == \E kind \in {k \in DOMAIN sessions : sessions[k] > 0} : Revoke(One(kind))

\* What was verified against the password is stale once there is another.
Outdated == [q \in Requests |-> [request[q] EXCEPT !.stale = request[q].ok]]

\* The audit entry is inserted, and the transaction commits: a session that was
\* opened meanwhile, with what is now the old password, stays.
CommitPassword ==
    /\ write.open
    /\ sessions' = [current |-> 0, stale |-> sessions.stale + sessions.current]
    /\ request' = Outdated
    /\ late' = write.late
    /\ write' = NoWrite
    /\ UNCHANGED <<phase, count, admitted, failures>>

\* It fails, and what it has revoked lives on.
FailPassword ==
    /\ write.open
    /\ sessions' = [current |-> Smaller(sessions.current + write.seen.current, MaxSessions),
                    stale |-> sessions.stale + write.seen.stale]
    /\ write' = NoWrite
    /\ UNCHANGED <<phase, count, admitted, failures, request, late>>

\* Every session but the one of either kind that asks for it.  The UPDATE waits
\* for the rows that a new password has revoked.
RevokeOthers ==
    /\ write.seen = NoSessions
    /\ \E kind \in {k \in DOMAIN sessions : sessions[k] > 0} : sessions' = One(kind)
    /\ UNCHANGED <<phase, count, admitted, failures, request, write, late>>

\* A session is revoked, or expires.
EndSession ==
    /\ \E kind \in {k \in DOMAIN sessions : sessions[k] > 0} :
          sessions' = [sessions EXCEPT ![kind] = @ - 1]
    /\ UNCHANGED <<phase, count, admitted, failures, request, write, late>>

\* One that a new password is about to end expires.
ExpireSeen ==
    /\ \E kind \in {k \in DOMAIN sessions : write.seen[k] > 0} :
          write' = [write EXCEPT !.seen[kind] = @ - 1]
    /\ UNCHANGED <<phase, count, admitted, failures, request, sessions, late>>

Tick ==
    /\ phase' = (phase + 1) % Window
    /\ count' = IF phase' = 0 THEN 0 ELSE count
    /\ admitted' = Shifted(admitted)
    /\ failures' = Shifted(failures)
    /\ UNCHANGED <<request, sessions, write, late>>

Serve(q) == Count(q) \/ Verify(q) \/ Record(q) \/ CreateSession(q)

Next ==
    \/ \E q \in Requests : Receive(q) \/ Serve(q)
    \/ ResetPassword \/ ChangePassword \/ CommitPassword \/ FailPassword
    \/ RevokeOthers \/ EndSession \/ ExpireSeen
    \/ Tick

\* Time passes, and a login that runs gets on.
Fairness == WF_vars(Tick) /\ \A q \in Requests : WF_vars(Serve(q))

Spec == Init /\ [][Next]_vars /\ Fairness
-----------------------------------------------------------------------------
(* Properties *)

TypeOK ==
    /\ phase \in 0 .. Window - 1
    /\ count \in 0 .. MaxRate + 2
    /\ admitted \in [0 .. Window - 1 -> 0 .. MaxRate]
    /\ failures \in [0 .. Lockout - 1 -> Nat]
    /\ request \in [Requests -> Request]
    /\ sessions \in Sessions
    /\ write \in Write
    /\ late \in 0 .. MaxLate

\* Two windows that touch let twice the limit pass in the time of one, and no
\* more: a window's count starts anew whatever came just before it.
RateBound == Total(admitted) <= 2 * MaxRate

\* Failures are counted before the password is verified and recorded after, so
\* that the logins in flight all pass the lockout: it lets one failure less
\* than there are of them pass beyond the maximum.
LockoutBound == Total(failures) <= MaxFailures + Cardinality(Requests) - 1

\* A lockout ends, however often the locked account is tried: an attempt that
\* is turned away does not prolong it.
LockoutEnds == []<>(~ LockedOut)

\* The live sessions that were opened with a password that has been replaced are
\* of logins that were in flight when the last password's transaction revoked, or
\* came between that and its commit; and one is the session that asked for the
\* change (revokeAllForUser, Security.md 5).
StaleSessionsBound ==
    sessions.stale + write.seen.stale <= Cardinality(Requests) + late + 1
=============================================================================
