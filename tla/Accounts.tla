------------------------------- MODULE Accounts -------------------------------
(***************************************************************************)
(* The status of one account: email verification, the player's own         *)
(* exclusion, and the administrators' changes.  Every use case reads the   *)
(* account or the token without a lock, checks what it saw, and writes the *)
(* row by its id, so that two of them may overwrite each other.            *)
(*                                                                         *)
(* The clock counts days, the lifetime of a verification token.  The use   *)
(* case that sets any status (admin-update-user-status.ts) is left out: no *)
(* route calls it.                                                         *)
(***************************************************************************)
EXTENDS Integers

CONSTANTS
    Tokens,     \* the verification tokens that the account can be mailed
    Periods,    \* the lengths of the exclusions that the player chooses, in days
    Requests,   \* requests that can be in flight
    MaxDay      \* bound: the days that are modelled

\* The end of a permanent exclusion; the tokens that have no expiry.
Never == MaxDay + 1
Unissued == -2
Used == -1

VARIABLES
    status,     \* users.status
    revocable,  \* users.revocable_at, 0 when null and the account not excluded
    exclusions, \* self_exclusions: the end of every exclusion of the player
    tokens,     \* email_verification_tokens: when each expires
    request,    \* what each request in flight is about to write
    day         \* the server's clock

vars == <<status, revocable, exclusions, tokens, request, day>>
-----------------------------------------------------------------------------
(* The account *)

UserStatus == {"PENDING_VERIFICATION", "ACTIVE", "SUSPENDED", "SELF_EXCLUDED", "CLOSED"}

Days == 0 .. MaxDay

Idle == [op |-> "idle"]

Request ==
    {Idle}
    \cup [op : {"verify"}, token : Tokens]
    \cup [op : {"email", "suspend", "restore"}]
    \cup [op : {"exclude"}, period : Periods]

\* The account has just been registered, and its first token mailed.
Init ==
    /\ status = "PENDING_VERIFICATION"
    /\ revocable = 0
    /\ exclusions = {}
    /\ \E t \in Tokens : tokens = [u \in Tokens |-> IF u = t THEN 1 ELSE Unissued]
    /\ request = [q \in Requests |-> Idle]
    /\ day = 0

Receive(q, m) ==
    /\ request[q] = Idle
    /\ request' = [request EXCEPT ![q] = m]
    /\ UNCHANGED <<status, revocable, exclusions, tokens, day>>

Commit(q, op) ==
    /\ request[q].op = op
    /\ request' = [request EXCEPT ![q] = Idle]
    /\ UNCHANGED day
-----------------------------------------------------------------------------
(* Verification *)

Valid(t) == tokens[t] \notin {Unissued, Used} /\ day <= tokens[t]

VerifyRead(q, t) == Valid(t) /\ Receive(q, [op |-> "verify", token |-> t])

\* The account becomes active whatever it is.
VerifyCommit(q) ==
    /\ Commit(q, "verify")
    /\ tokens' = [tokens EXCEPT ![request[q].token] = Used]
    /\ status' = "ACTIVE"
    /\ UNCHANGED <<revocable, exclusions>>

\* An active player changes the address, which is verified with a new token.
EmailRead(q) == status = "ACTIVE" /\ Receive(q, [op |-> "email"])

EmailCommit(q) ==
    /\ Commit(q, "email")
    /\ \E t \in Tokens : tokens[t] = Unissued /\ tokens' = [tokens EXCEPT ![t] = day + 1]
    /\ UNCHANGED <<status, revocable, exclusions>>
-----------------------------------------------------------------------------
(* Exclusion *)

RevocableAt(p) == IF day + p < Never THEN day + p ELSE Never

ExcludeRead(q, p) == status = "ACTIVE" /\ Receive(q, [op |-> "exclude", period |-> p])

ExcludeCommit(q) ==
    LET end == RevocableAt(request[q].period) IN
    /\ Commit(q, "exclude")
    /\ exclusions' = exclusions \cup {end}
    /\ revocable' = end
    /\ status' = "SELF_EXCLUDED"
    /\ UNCHANGED tokens
-----------------------------------------------------------------------------
(* Administration *)

CanSuspend == status \notin {"SUSPENDED", "CLOSED"}

SuspendRead(q) == CanSuspend /\ Receive(q, [op |-> "suspend"])

SuspendCommit(q) ==
    /\ Commit(q, "suspend")
    /\ status' = "SUSPENDED"
    /\ UNCHANGED <<revocable, exclusions, tokens>>

CanRestore == status = "SUSPENDED"

RestoreRead(q) == CanRestore /\ Receive(q, [op |-> "restore"])

RestoreCommit(q) ==
    /\ Commit(q, "restore")
    /\ status' = "ACTIVE"
    /\ UNCHANGED <<revocable, exclusions, tokens>>

Tomorrow ==
    /\ day < MaxDay
    /\ day' = day + 1
    /\ UNCHANGED <<status, revocable, exclusions, tokens, request>>

Next ==
    \/ \E q \in Requests, t \in Tokens : VerifyRead(q, t)
    \/ \E q \in Requests, p \in Periods : ExcludeRead(q, p)
    \/ \E q \in Requests : \/ EmailRead(q) \/ SuspendRead(q) \/ RestoreRead(q)
                           \/ VerifyCommit(q) \/ EmailCommit(q) \/ ExcludeCommit(q)
                           \/ SuspendCommit(q) \/ RestoreCommit(q)
    \/ Tomorrow

Spec == Init /\ [][Next]_vars
-----------------------------------------------------------------------------
(* Properties *)

TypeOK ==
    /\ status \in UserStatus
    /\ revocable \in 0 .. Never
    /\ exclusions \subseteq 0 .. Never
    /\ tokens \in [Tokens -> {Unissued, Used} \cup 0 .. Never]
    /\ request \in [Requests -> Request]
    /\ day \in Days

\* self-exclude.ts:34-35: an exclusion is "irrevocable before `revocableAt`", and
\* self-exclude.ts:36: this use case "never lowers the protection"; status.ts:34:
\* restoring "is not a way to lift self-exclusion".
ExclusionHolds == \A e \in exclusions : day < e => status # "ACTIVE"
=============================================================================
