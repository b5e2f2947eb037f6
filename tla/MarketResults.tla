---------------------------- MODULE MarketResults ----------------------------
(***************************************************************************)
(* The results of one market: administrators propose, confirm, dispute and *)
(* replace them, and settlement reads the confirmed one.  Every use case   *)
(* reads the result's row without a lock, checks the status it saw against *)
(* the transition rules, and then writes the row by its id, so that it may *)
(* be overwriting what another one has written meanwhile.                  *)
(*                                                                         *)
(* Module Exchange takes from here only that a result is proposed and then *)
(* confirmed; what settlement does with it is there.                       *)
(***************************************************************************)
EXTENDS Integers, Sequences

CONSTANTS
    Admins,     \* the accounts that manage results, less those with an order on
                \* the market, which every operation but a dispute refuses (R-10)
    Outcomes,   \* the market's outcomes
    Requests,   \* concurrent requests of the administrators
    MaxResults  \* bound: the rows of market_results

\* The absence of a winner, of a confirmer and of a result.
NoWinner == "no_winner"
Nobody == "nobody"
None == 0

ASSUME MarketResultsAssumption ==
    /\ NoWinner \notin Outcomes
    /\ Nobody \notin Admins
    /\ MaxResults \in Nat

VARIABLES
    results,    \* market_results, in the order of their insertion
    market,     \* markets.status; OTHER is any but CLOSED, SETTLING, SETTLED
    run,        \* the settlement_runs row: its status and its result
    request     \* what each request in flight has read

vars == <<results, market, run, request>>
-----------------------------------------------------------------------------
(* Rows *)

Winners == Outcomes \cup {NoWinner}

ResultStatus == {"PROPOSED", "VOID_PROPOSED", "CONFIRMED", "DISPUTED", "SUPERSEDED"}

ResultRow == [winner : Winners, status : ResultStatus, proposer : Admins,
              confirmer : Admins \cup {Nobody}, supersedes : 0 .. MaxResults]

Run == [status : {"NONE", "IN_PROGRESS", "COMPLETED"}, result : 0 .. MaxResults]

Operation == {"idle", "propose", "confirm", "dispute", "resolve", "settle"}

Request == [op : Operation, actor : Admins \cup {Nobody},
            row : 0 .. MaxResults, winner : Winners]

Idle == [op |-> "idle", actor |-> Nobody, row |-> None, winner |-> NoWinner]

Init ==
    /\ results = <<>>
    /\ market = "CLOSED"
    /\ run = [status |-> "NONE", result |-> None]
    /\ request = [q \in Requests |-> Idle]
-----------------------------------------------------------------------------
(* The rules *)

Current == {r \in DOMAIN results : results[r].status # "SUPERSEDED"}

Confirmed == {r \in DOMAIN results : results[r].status = "CONFIRMED"}

Proposed(r) == results[r].status \in {"PROPOSED", "VOID_PROPOSED"}

\* Mutant: the proposer may confirm as well.
AnyConfirmer(r, a) == Proposed(r)

\* The four-eyes rule.
CanConfirm(r, a) == Proposed(r) /\ a # results[r].proposer

\* Mutant: the status of a void proposal is that of any other.
PlainProposal(v) == "PROPOSED"

ProposalStatus(v) == IF v = NoWinner THEN "VOID_PROPOSED" ELSE "PROPOSED"

Proposal(a, v, r) == [winner |-> v, status |-> ProposalStatus(v), proposer |-> a,
                      confirmer |-> Nobody, supersedes |-> r]

Receive(q, m) == request[q] = Idle /\ request' = [request EXCEPT ![q] = m]

Finish(q) == request' = [request EXCEPT ![q] = Idle]
-----------------------------------------------------------------------------
(* The life of a result *)

\* A result is proposed for a closed market that has no current one.
ProposeRead(q, a, v) ==
    /\ market = "CLOSED"
    /\ Current = {}
    /\ Receive(q, [op |-> "propose", actor |-> a, row |-> None, winner |-> v])
    /\ UNCHANGED <<results, market, run>>

ProposeCommit(q) ==
    /\ request[q].op = "propose"
    /\ Len(results) < MaxResults
    /\ results' = Append(results, Proposal(request[q].actor, request[q].winner, None))
    /\ Finish(q)
    /\ UNCHANGED <<market, run>>

\* Another administrator confirms it.
ConfirmRead(q, a, r) ==
    /\ CanConfirm(r, a)
    /\ Receive(q, [op |-> "confirm", actor |-> a, row |-> r, winner |-> NoWinner])
    /\ UNCHANGED <<results, market, run>>

\* The row is written by id.  The check for a confirmed result, read last, is
\* repeated by the unique index when the row is written.
ConfirmCommit(q) ==
    /\ request[q].op = "confirm"
    /\ Confirmed \subseteq {request[q].row}
    /\ results' = [results EXCEPT ![request[q].row] =
                      [@ EXCEPT !.status = "CONFIRMED", !.confirmer = request[q].actor]]
    /\ Finish(q)
    /\ UNCHANGED <<market, run>>

\* A proposed result is disputed.
DisputeRead(q, r) ==
    /\ Proposed(r)
    /\ Receive(q, [Idle EXCEPT !.op = "dispute", !.row = r])
    /\ UNCHANGED <<results, market, run>>

DisputeCommit(q) ==
    /\ request[q].op = "dispute"
    /\ results' = [results EXCEPT ![request[q].row].status = "DISPUTED"]
    /\ Finish(q)
    /\ UNCHANGED <<market, run>>

\* A dispute is resolved by a new result in place of the disputed one.
ResolveRead(q, a, r, v) ==
    /\ results[r].status = "DISPUTED"
    /\ Receive(q, [op |-> "resolve", actor |-> a, row |-> r, winner |-> v])
    /\ UNCHANGED <<results, market, run>>

Superseded(r) == [results EXCEPT ![r].status = "SUPERSEDED"]

\* Mutant: the row is superseded and nothing replaces it.
SupersededOnly(q) == Superseded(request[q].row)

Resolved(q) ==
    Append(Superseded(request[q].row),
           Proposal(request[q].actor, request[q].winner, request[q].row))

ResolveCommit(q) ==
    /\ request[q].op = "resolve"
    /\ Len(results) < MaxResults
    /\ results' = Resolved(q)
    /\ Finish(q)
    /\ UNCHANGED <<market, run>>
-----------------------------------------------------------------------------
(* Settlement, and what else reaches the market *)

\* Mutant: a run that is in progress is resumed.
AnyRun == TRUE

Resumable == run.status = "NONE"

\* Settlement holds the advisory lock from its first read to its commit.
AdvisoryFree == \A q \in Requests : request[q].op # "settle"

SettleRead(q, r) ==
    /\ AdvisoryFree
    /\ market \in {"CLOSED", "SETTLING"}
    /\ r \in Confirmed
    /\ Resumable
    /\ Receive(q, [Idle EXCEPT !.op = "settle", !.row = r])
    /\ UNCHANGED <<results, market, run>>

\* A result without a winner leaves the run in progress.
SettleCommit(q) ==
    /\ request[q].op = "settle"
    /\ IF results[request[q].row].winner = NoWinner
       THEN /\ run' = [status |-> "IN_PROGRESS", result |-> request[q].row]
            /\ market' = "SETTLING"
       ELSE /\ run' = [status |-> "COMPLETED", result |-> request[q].row]
            /\ market' = "SETTLED"
    /\ Finish(q)
    /\ UNCHANGED results

\* The market's transitions hold no lock on what they have checked, so that
\* one checked before the market closed, or settled, may still be written.
TransitionWrites(to) ==
    /\ market' = to
    /\ UNCHANGED <<results, run, request>>

\* A request fails or its process does.
Abort(q) ==
    /\ request[q] # Idle
    /\ Finish(q)
    /\ UNCHANGED <<results, market, run>>

Read(q) ==
    \/ \E a \in Admins, v \in Winners : ProposeRead(q, a, v)
    \/ \E r \in DOMAIN results :
          \/ \E a \in Admins : ConfirmRead(q, a, r)
          \/ DisputeRead(q, r)
          \/ \E a \in Admins, v \in Winners : ResolveRead(q, a, r, v)
          \/ SettleRead(q, r)

Commit(q) ==
    \/ ProposeCommit(q) \/ ConfirmCommit(q) \/ DisputeCommit(q) \/ ResolveCommit(q)
    \/ SettleCommit(q)

Next ==
    \/ \E q \in Requests : Read(q) \/ Commit(q) \/ Abort(q)
    \/ \E to \in {"CLOSED", "OTHER"} : TransitionWrites(to)

Spec == Init /\ [][Next]_vars
-----------------------------------------------------------------------------
(* Properties *)

\* Rows and requests are well formed, and a proposal's status says whether it
\* has a winner.
TypeOK ==
    /\ results \in Seq(ResultRow) /\ Len(results) =< MaxResults
    /\ market \in {"CLOSED", "SETTLING", "SETTLED", "OTHER"}
    /\ run \in Run
    /\ request \in [Requests -> Request]
    /\ \A r \in DOMAIN results :
          /\ results[r].status = "PROPOSED" => results[r].winner # NoWinner
          /\ results[r].status = "VOID_PROPOSED" => results[r].winner = NoWinner

\* The four-eyes rule: two administrators stand behind every confirmed result
\* and behind the one the market was settled on, even if it has been disputed
\* or replaced since.
FourEyes ==
    \A r \in DOMAIN results :
        results[r].status = "CONFIRMED" \/ run.result = r =>
            results[r].confirmer \notin {Nobody, results[r].proposer}

\* However disputes and resolutions overlap, a superseded result is followed by
\* one that names it: the last result is current, and none is lost.
ResultNeverLost ==
    \A r \in DOMAIN results :
        results[r].status = "SUPERSEDED" =>
            \E s \in DOMAIN results : s > r /\ results[s].supersedes = r

\* A market is settled on one result, once, although a result can be disputed
\* and replaced after its settlement and the market's status be overwritten.
SettledOnce == [][run.status # "NONE" => UNCHANGED run]_vars
=============================================================================
