---------------------------- MODULE ResultsProofs ----------------------------
(***************************************************************************)
(* Theorems about the results of a market, for any administrators,         *)
(* outcomes, concurrent requests and number of rows.                       *)
(***************************************************************************)
EXTENDS MarketResults, SequenceTheorems, TLAPS

USE MarketResultsAssumption DEF None, NoWinner, Nobody
-----------------------------------------------------------------------------
(* Rows that are written *)

\* A row that is written leaves the others as they are.
LEMMA RowWritten ==
    ASSUME NEW S \in Seq(ResultRow), NEW r \in DOMAIN S, NEW row \in ResultRow,
           NEW T, T = [S EXCEPT ![r] = row]
    PROVE  /\ T \in Seq(ResultRow) /\ Len(T) = Len(S) /\ DOMAIN T = DOMAIN S
           /\ T[r] = row
           /\ \A i \in DOMAIN S : i # r => T[i] = S[i]
  BY ExceptSeq, LenProperties

\* A row that is inserted comes after those there are.
LEMMA RowInserted ==
    ASSUME NEW S \in Seq(ResultRow), NEW row \in ResultRow, NEW T, T = Append(S, row)
    PROVE  /\ T \in Seq(ResultRow) /\ Len(T) = Len(S) + 1 /\ Len(S) \in Nat
           /\ DOMAIN S = 1 .. Len(S) /\ DOMAIN T = 1 .. Len(S) + 1
           /\ T[Len(S) + 1] = row
           /\ \A i \in DOMAIN S : T[i] = S[i]
  BY AppendProperties, LenProperties

\* A proposal is a row.
LEMMA ProposalIsRow ==
    ASSUME NEW a \in Admins, NEW v \in Winners, NEW r \in 0 .. MaxResults
    PROVE  /\ Proposal(a, v, r) \in ResultRow
           /\ Proposal(a, v, r).status \in {"PROPOSED", "VOID_PROPOSED"}
           /\ Proposal(a, v, r).status = "PROPOSED" => v # NoWinner
           /\ Proposal(a, v, r).status = "VOID_PROPOSED" => v = NoWinner
           /\ Proposal(a, v, r).winner = v /\ Proposal(a, v, r).confirmer = Nobody
           /\ Proposal(a, v, r).supersedes = r
  BY DEF Proposal, ProposalStatus, ResultRow, ResultStatus
-----------------------------------------------------------------------------
(* Types *)

\* What a request in flight has read names a row, and whoever writes one is an
\* administrator.
RequestsOK ==
    \A q \in Requests :
        /\ request[q].op \in {"confirm", "dispute", "resolve", "settle"} =>
               request[q].row \in DOMAIN results
        /\ request[q].op \in {"propose", "confirm", "resolve"} => request[q].actor \in Admins

Typed == TypeOK /\ RequestsOK

LEMMA InitTyped == Init => Typed
<1>1. Len(<<>>) = 0 /\ <<>> \in Seq(ResultRow) /\ DOMAIN <<>> = {}
  OBVIOUS
<1> QED
  BY <1>1 DEF Init, Typed, TypeOK, RequestsOK, Run, Request, Idle, Operation, Winners

\* A request that is received or done changes nothing but itself.
LEMMA Receives ==
    ASSUME Typed, NEW q \in Requests, NEW m \in Request, Receive(q, m)
    PROVE  /\ request' \in [Requests -> Request] /\ request'[q] = m
           /\ \A p \in Requests : p # q => request'[p] = request[p]
  BY DEF Typed, TypeOK, Receive

LEMMA Finishes ==
    ASSUME Typed, NEW q \in Requests, Finish(q)
    PROVE  /\ request' \in [Requests -> Request] /\ request'[q] = Idle
           /\ \A p \in Requests : p # q => request'[p] = request[p]
<1>1. Idle \in Request
  BY DEF Idle, Request, Operation, Winners
<1> QED
  BY <1>1 DEF Typed, TypeOK, Finish

\* The rows as a step finds them.
LEMMA RowsTyped ==
    ASSUME Typed
    PROVE  /\ results \in Seq(ResultRow) /\ DOMAIN results \subseteq 1 .. MaxResults
           /\ \A r \in DOMAIN results : results[r] \in ResultRow
           /\ request \in [Requests -> Request]
  BY DEF Typed, TypeOK

\* A step that reads, for a request that is well formed, keeps what is typed.
LEMMA ReadTyped ==
    ASSUME Typed, NEW q \in Requests, NEW m \in Request, Receive(q, m),
           UNCHANGED <<results, market, run>>,
           m.op \in {"confirm", "dispute", "resolve", "settle"} => m.row \in DOMAIN results,
           m.op \in {"propose", "confirm", "resolve"} => m.actor \in Admins
    PROVE  Typed'
  BY Receives DEF Typed, TypeOK, RequestsOK, Run

\* So does one that is done and writes the rows, if it keeps those there are.
LEMMA CommitTyped ==
    ASSUME Typed, NEW q \in Requests, Finish(q),
           results' \in Seq(ResultRow), Len(results') =< MaxResults,
           DOMAIN results \subseteq DOMAIN results',
           \A r \in DOMAIN results' :
               /\ results'[r].status = "PROPOSED" => results'[r].winner # NoWinner
               /\ results'[r].status = "VOID_PROPOSED" => results'[r].winner = NoWinner,
           market' \in {"CLOSED", "SETTLING", "SETTLED", "OTHER"}, run' \in Run
    PROVE  Typed'
<1>1. Idle.op = "idle"
  BY DEF Idle
<1> QED
  BY <1>1, Finishes DEF Typed, TypeOK, RequestsOK, Run

\* A row of which a step writes the status and the confirmer, and nothing else.
Rewritten(r, st, c) ==
    /\ results'[r].status = st /\ results'[r].confirmer = c
    /\ results'[r].winner = results[r].winner
    /\ results'[r].proposer = results[r].proposer
    /\ results'[r].supersedes = results[r].supersedes
    /\ \A i \in DOMAIN results : i # r => results'[i] = results[i]

\* A step that inserts no row, and one that inserts one.
SameRows ==
    /\ results' \in Seq(ResultRow) /\ Len(results') = Len(results)
    /\ DOMAIN results' = DOMAIN results

OneMoreRow(row) ==
    /\ results' \in Seq(ResultRow) /\ Len(results') = Len(results) + 1
    /\ Len(results) \in Nat /\ Len(results) < MaxResults
    /\ DOMAIN results = 1 .. Len(results) /\ DOMAIN results' = 1 .. Len(results) + 1
    /\ results'[Len(results) + 1] = row

\* A commit of a confirmation.
LEMMA ConfirmWrites ==
    ASSUME Typed, NEW q \in Requests, ConfirmCommit(q)
    PROVE  \E r \in DOMAIN results, a \in Admins :
              /\ r = request[q].row /\ a = request[q].actor
              /\ SameRows /\ Rewritten(r, "CONFIRMED", a)
<1>1. PICK r \in DOMAIN results, a \in Admins : r = request[q].row /\ a = request[q].actor
  BY DEF Typed, RequestsOK, ConfirmCommit
<1> DEFINE row == [results[r] EXCEPT !.status = "CONFIRMED", !.confirmer = a]
<1>2. results[r] \in ResultRow
  BY RowsTyped
<1>3. /\ row \in ResultRow /\ row.status = "CONFIRMED" /\ row.confirmer = a
      /\ row.winner = results[r].winner /\ row.proposer = results[r].proposer
      /\ row.supersedes = results[r].supersedes
  BY <1>2 DEF ResultRow, ResultStatus
<1>4. results' = [results EXCEPT ![r] = row]
  BY <1>1 DEF ConfirmCommit
<1> HIDE DEF row
<1>5. /\ results' \in Seq(ResultRow) /\ Len(results') = Len(results)
      /\ DOMAIN results' = DOMAIN results /\ results'[r] = row
      /\ \A i \in DOMAIN results : i # r => results'[i] = results[i]
  BY <1>3, <1>4, RowsTyped, RowWritten
<1> QED
  BY <1>1, <1>3, <1>5 DEF SameRows, Rewritten

\* A commit of a dispute.
LEMMA DisputeWrites ==
    ASSUME Typed, NEW q \in Requests, DisputeCommit(q)
    PROVE  \E r \in DOMAIN results : SameRows /\ Rewritten(r, "DISPUTED", results[r].confirmer)
<1>1. PICK r \in DOMAIN results : r = request[q].row
  BY DEF Typed, RequestsOK, DisputeCommit
<1> DEFINE row == [results[r] EXCEPT !.status = "DISPUTED"]
<1>2. results[r] \in ResultRow
  BY RowsTyped
<1>3. /\ row \in ResultRow /\ row.status = "DISPUTED" /\ row.confirmer = results[r].confirmer
      /\ row.winner = results[r].winner /\ row.proposer = results[r].proposer
      /\ row.supersedes = results[r].supersedes
  BY <1>2 DEF ResultRow, ResultStatus
<1>4. results' = [results EXCEPT ![r] = row]
  BY <1>1 DEF DisputeCommit
<1> HIDE DEF row
<1>5. /\ results' \in Seq(ResultRow) /\ Len(results') = Len(results)
      /\ DOMAIN results' = DOMAIN results /\ results'[r] = row
      /\ \A i \in DOMAIN results : i # r => results'[i] = results[i]
  BY <1>3, <1>4, RowsTyped, RowWritten
<1> QED
  BY <1>1, <1>3, <1>5 DEF SameRows, Rewritten

\* A commit of a proposal: a row of an administrator that nobody has confirmed.
LEMMA ProposeWrites ==
    ASSUME Typed, NEW q \in Requests, ProposeCommit(q)
    PROVE  \E a \in Admins, v \in Winners :
              /\ OneMoreRow(Proposal(a, v, None))
              /\ \A i \in DOMAIN results : results'[i] = results[i]
<1>1. PICK a \in Admins, v \in Winners : a = request[q].actor /\ v = request[q].winner
  BY RowsTyped DEF Typed, RequestsOK, ProposeCommit, Request
<1>2. Proposal(a, v, None) \in ResultRow
  BY ProposalIsRow
<1>3. results' = Append(results, Proposal(a, v, None)) /\ Len(results) < MaxResults
  BY <1>1 DEF ProposeCommit
<1> QED
  BY <1>2, <1>3, RowsTyped, RowInserted DEF OneMoreRow

\* A commit of a resolution: the disputed row, and one that names it.
LEMMA ResolveWrites ==
    ASSUME Typed, NEW q \in Requests, ResolveCommit(q)
    PROVE  \E a \in Admins, v \in Winners, r \in DOMAIN results :
              /\ OneMoreRow(Proposal(a, v, r))
              /\ Rewritten(r, "SUPERSEDED", results[r].confirmer)
<1>1. PICK a \in Admins, v \in Winners, r \in DOMAIN results :
          a = request[q].actor /\ v = request[q].winner /\ r = request[q].row
  BY RowsTyped DEF Typed, RequestsOK, ResolveCommit, Request
<1> DEFINE row == [results[r] EXCEPT !.status = "SUPERSEDED"]
           S == [results EXCEPT ![r] = row]
<1>2. results[r] \in ResultRow /\ r \in 0 .. MaxResults
  BY RowsTyped
<1>3. /\ row \in ResultRow /\ row.status = "SUPERSEDED"
      /\ row.confirmer = results[r].confirmer
      /\ row.winner = results[r].winner /\ row.proposer = results[r].proposer
      /\ row.supersedes = results[r].supersedes
  BY <1>2 DEF ResultRow, ResultStatus
<1>4. results' = Append(S, Proposal(a, v, r)) /\ Len(results) < MaxResults
  BY <1>1 DEF ResolveCommit, Resolved, Superseded
<1>5. S = [results EXCEPT ![r] = row]
  OBVIOUS
<1> HIDE DEF row, S
<1>6. /\ S \in Seq(ResultRow) /\ Len(S) = Len(results) /\ DOMAIN S = DOMAIN results
      /\ S[r] = row
      /\ \A i \in DOMAIN results : i # r => S[i] = results[i]
  BY <1>3, <1>5, RowsTyped, RowWritten
<1>7. Proposal(a, v, r) \in ResultRow
  BY <1>2, ProposalIsRow
<1>8. /\ results' \in Seq(ResultRow) /\ Len(results') = Len(S) + 1 /\ Len(S) \in Nat
      /\ DOMAIN S = 1 .. Len(S) /\ DOMAIN results' = 1 .. Len(S) + 1
      /\ results'[Len(S) + 1] = Proposal(a, v, r)
      /\ \A i \in DOMAIN S : results'[i] = S[i]
  BY <1>4, <1>6, <1>7, RowInserted
<1>9. OneMoreRow(Proposal(a, v, r))
  BY <1>4, <1>6, <1>8 DEF OneMoreRow
<1>10. Rewritten(r, "SUPERSEDED", results[r].confirmer)
  BY <1>3, <1>6, <1>8 DEF Rewritten
<1> QED
  BY <1>9, <1>10

\* What a request knows when it has read.
LEMMA Reads ==
    ASSUME Typed, NEW q \in Requests, Read(q)
    PROVE  \E m \in Request :
              /\ Receive(q, m) /\ UNCHANGED <<results, market, run>>
              /\ m.op \in {"confirm", "dispute", "resolve", "settle"} => m.row \in DOMAIN results
              /\ m.op \in {"propose", "confirm", "resolve"} => m.actor \in Admins
              /\ m.op = "confirm" => m.actor # results[m.row].proposer
              /\ m.op = "settle" => /\ results[m.row].status = "CONFIRMED"
                                    /\ Resumable /\ AdvisoryFree
<1>1. DOMAIN results \subseteq 0 .. MaxResults
  BY RowsTyped
<1>2. CASE \E a \in Admins, v \in Winners : ProposeRead(q, a, v)
  BY <1>2 DEF ProposeRead, Request, Operation
<1>3. CASE \E r \in DOMAIN results, a \in Admins : ConfirmRead(q, a, r)
  <2>1. PICK r \in DOMAIN results, a \in Admins : ConfirmRead(q, a, r)
    BY <1>3
  <2> DEFINE m == [op |-> "confirm", actor |-> a, row |-> r, winner |-> NoWinner]
  <2>2. m \in Request
    BY <1>1 DEF Request, Operation, Winners
  <2> QED
    BY <2>1, <2>2 DEF ConfirmRead, CanConfirm
<1>4. CASE \E r \in DOMAIN results : DisputeRead(q, r)
  <2>1. PICK r \in DOMAIN results : DisputeRead(q, r)
    BY <1>4
  <2> DEFINE m == [Idle EXCEPT !.op = "dispute", !.row = r]
  <2>2. m \in Request /\ m.op = "dispute" /\ m.row = r
    BY <1>1 DEF Request, Operation, Winners, Idle
  <2>3. Receive(q, m) /\ UNCHANGED <<results, market, run>>
    BY <2>1 DEF DisputeRead
  <2> HIDE DEF m
  <2> QED
    BY <2>2, <2>3
<1>5. CASE \E r \in DOMAIN results, a \in Admins, v \in Winners : ResolveRead(q, a, r, v)
  BY <1>1, <1>5 DEF ResolveRead, Request, Operation
<1>6. CASE \E r \in DOMAIN results : SettleRead(q, r)
  <2>1. PICK r \in DOMAIN results : SettleRead(q, r)
    BY <1>6
  <2> DEFINE m == [Idle EXCEPT !.op = "settle", !.row = r]
  <2>2. m \in Request /\ m.op = "settle" /\ m.row = r
    BY <1>1 DEF Request, Operation, Winners, Idle
  <2>3. /\ Receive(q, m) /\ UNCHANGED <<results, market, run>>
        /\ results[r].status = "CONFIRMED" /\ Resumable /\ AdvisoryFree
    BY <2>1 DEF SettleRead, Confirmed
  <2> HIDE DEF m
  <2> QED
    BY <2>2, <2>3
<1> QED
  BY <1>2, <1>3, <1>4, <1>5, <1>6 DEF Read

\* The steps that leave the rows and the run as they are.
Quiet ==
    /\ UNCHANGED <<results, run>>
    /\ market' \in {"CLOSED", "SETTLING", "SETTLED", "OTHER"}
    /\ \/ UNCHANGED request
       \/ \E q \in Requests : Finish(q)

LEMMA QuietSteps ==
    ASSUME Typed,
           \/ UNCHANGED vars
           \/ \E to \in {"CLOSED", "OTHER"} : TransitionWrites(to)
           \/ \E q \in Requests : Abort(q)
    PROVE  Quiet
  BY DEF Typed, TypeOK, vars, TransitionWrites, Abort, Quiet

\* A commit of a settlement: the run is of the row that was read.
LEMMA SettleWrites ==
    ASSUME Typed, NEW q \in Requests, SettleCommit(q)
    PROVE  /\ request[q].row \in DOMAIN results /\ UNCHANGED results /\ Finish(q)
           /\ run' \in Run /\ run'.result = request[q].row /\ run'.status # "NONE"
           /\ market' \in {"CLOSED", "SETTLING", "SETTLED", "OTHER"}
<1>1. request[q].row \in DOMAIN results /\ request[q].row \in 0 .. MaxResults
  BY RowsTyped DEF Typed, RequestsOK, SettleCommit
<1>2. CASE results[request[q].row].winner = NoWinner
  BY <1>1, <1>2 DEF SettleCommit, Run
<1>3. CASE results[request[q].row].winner # NoWinner
  BY <1>1, <1>3 DEF SettleCommit, Run
<1> QED
  BY <1>2, <1>3

\* Every step is one of these.
LEMMA Steps ==
    ASSUME Typed, [Next]_vars
    PROVE  \/ Quiet
           \/ \E q \in Requests :
                 \/ Read(q) \/ ProposeCommit(q) \/ ConfirmCommit(q) \/ DisputeCommit(q)
                 \/ ResolveCommit(q) \/ SettleCommit(q)
  BY QuietSteps DEF Next, Commit
-----------------------------------------------------------------------------
(* Type correctness *)

LEMMA StepTyped ==
    ASSUME Typed, [Next]_vars
    PROVE  Typed'
<1> USE DEF Run
<1>1. /\ results \in Seq(ResultRow) /\ Len(results) =< MaxResults
      /\ market \in {"CLOSED", "SETTLING", "SETTLED", "OTHER"} /\ run \in Run
      /\ \A r \in DOMAIN results :
            /\ results[r].status = "PROPOSED" => results[r].winner # NoWinner
            /\ results[r].status = "VOID_PROPOSED" => results[r].winner = NoWinner
            /\ results[r] \in ResultRow
  BY RowsTyped DEF Typed, TypeOK
<1>2. CASE Quiet
  <2>1. CASE UNCHANGED request
    BY <1>2, <2>1 DEF Quiet, Typed, TypeOK, RequestsOK
  <2>2. CASE \E q \in Requests : Finish(q)
    BY <1>1, <1>2, <2>2, CommitTyped DEF Quiet
  <2> QED
    BY <1>2, <2>1, <2>2 DEF Quiet
<1>3. ASSUME NEW q \in Requests, Read(q)
      PROVE  Typed'
  BY <1>3, Reads, ReadTyped
<1>4. ASSUME NEW q \in Requests, ProposeCommit(q)
      PROVE  Typed'
  <2>1. PICK a \in Admins, v \in Winners :
            /\ OneMoreRow(Proposal(a, v, None))
            /\ \A i \in DOMAIN results : results'[i] = results[i]
    BY <1>4, ProposeWrites
  <2>2. /\ Proposal(a, v, None).status = "PROPOSED" => Proposal(a, v, None).winner # NoWinner
        /\ Proposal(a, v, None).status = "VOID_PROPOSED" => Proposal(a, v, None).winner = NoWinner
    BY ProposalIsRow
  <2>3. Finish(q) /\ UNCHANGED <<market, run>>
    BY <1>4 DEF ProposeCommit
  <2> QED
    BY <1>1, <2>1, <2>2, <2>3, CommitTyped DEF OneMoreRow
<1>5. ASSUME NEW q \in Requests, ConfirmCommit(q)
      PROVE  Typed'
  <2>1. Finish(q) /\ UNCHANGED <<market, run>>
    BY <1>5 DEF ConfirmCommit
  <2>2. PICK r \in DOMAIN results, a \in Admins : SameRows /\ Rewritten(r, "CONFIRMED", a)
    BY <1>5, ConfirmWrites
  <2> QED
    BY <1>1, <2>1, <2>2, CommitTyped DEF SameRows, Rewritten
<1>6. ASSUME NEW q \in Requests, DisputeCommit(q)
      PROVE  Typed'
  <2>1. Finish(q) /\ UNCHANGED <<market, run>>
    BY <1>6 DEF DisputeCommit
  <2>2. PICK r \in DOMAIN results :
            SameRows /\ Rewritten(r, "DISPUTED", results[r].confirmer)
    BY <1>6, DisputeWrites
  <2> QED
    BY <1>1, <2>1, <2>2, CommitTyped DEF SameRows, Rewritten
<1>7. ASSUME NEW q \in Requests, ResolveCommit(q)
      PROVE  Typed'
  <2>1. PICK a \in Admins, v \in Winners, r \in DOMAIN results :
            /\ OneMoreRow(Proposal(a, v, r))
            /\ Rewritten(r, "SUPERSEDED", results[r].confirmer)
    BY <1>7, ResolveWrites
  <2>2. r \in 0 .. MaxResults
    BY RowsTyped
  <2>3. /\ Proposal(a, v, r).status = "PROPOSED" => Proposal(a, v, r).winner # NoWinner
        /\ Proposal(a, v, r).status = "VOID_PROPOSED" => Proposal(a, v, r).winner = NoWinner
    BY <2>2, ProposalIsRow
  <2>4. Finish(q) /\ UNCHANGED <<market, run>>
    BY <1>7 DEF ResolveCommit
  <2> QED
    BY <1>1, <2>1, <2>3, <2>4, CommitTyped DEF OneMoreRow, Rewritten
<1>8. ASSUME NEW q \in Requests, SettleCommit(q)
      PROVE  Typed'
  BY <1>1, <1>8, SettleWrites, CommitTyped
<1> QED
  BY <1>2, <1>3, <1>4, <1>5, <1>6, <1>7, <1>8, Steps

\* Rows, requests and the run are always well formed, and the status of a
\* proposal says whether it has a winner.
THEOREM ResultsTypeCorrect == Spec => []TypeOK
<1>1. Typed /\ [Next]_vars => Typed'
  BY StepTyped
<1>2. Typed => TypeOK
  BY DEF Typed
<1> QED
  BY <1>1, <1>2, InitTyped, PTL DEF Spec
-----------------------------------------------------------------------------
(* No result is lost *)

LEMMA StepKeepsResults ==
    ASSUME Typed, ResultNeverLost, [Next]_vars
    PROVE  ResultNeverLost'
<1>1. CASE UNCHANGED results
  BY <1>1 DEF ResultNeverLost
<1>2. ASSUME NEW q \in Requests, ProposeCommit(q)
      PROVE  ResultNeverLost'
  <2>1. PICK a \in Admins, v \in Winners :
            /\ OneMoreRow(Proposal(a, v, None))
            /\ \A i \in DOMAIN results : results'[i] = results[i]
    BY <1>2, ProposeWrites
  <2>2. Proposal(a, v, None).status \in {"PROPOSED", "VOID_PROPOSED"}
    BY ProposalIsRow
  <2> QED
    BY <2>1, <2>2 DEF OneMoreRow, ResultNeverLost
<1>3. ASSUME NEW r \in DOMAIN results, NEW st \in {"CONFIRMED", "DISPUTED"}, NEW c,
             SameRows, Rewritten(r, st, c)
      PROVE  ResultNeverLost'
  <2>1. \A i \in DOMAIN results : results'[i].supersedes = results[i].supersedes
    BY <1>3 DEF Rewritten
  <2>2. \A i \in DOMAIN results :
            results'[i].status = "SUPERSEDED" => results[i].status = "SUPERSEDED"
    BY <1>3 DEF Rewritten
  <2> QED
    BY <1>3, <2>1, <2>2 DEF SameRows, ResultNeverLost
<1>4. ASSUME NEW q \in Requests, ResolveCommit(q)
      PROVE  ResultNeverLost'
  <2>1. PICK a \in Admins, v \in Winners, r \in DOMAIN results :
            /\ OneMoreRow(Proposal(a, v, r))
            /\ Rewritten(r, "SUPERSEDED", results[r].confirmer)
    BY <1>4, ResolveWrites
  <2>2. r \in 0 .. MaxResults
    BY RowsTyped
  <2>3. /\ Proposal(a, v, r).status \in {"PROPOSED", "VOID_PROPOSED"}
        /\ Proposal(a, v, r).supersedes = r
    BY <2>2, ProposalIsRow
  <2>4. \A i \in DOMAIN results : results'[i].supersedes = results[i].supersedes
    BY <2>1 DEF Rewritten
  <2>5. ASSUME NEW i \in DOMAIN results, results'[i].status = "SUPERSEDED"
        PROVE  \E s \in DOMAIN results' : s > i /\ results'[s].supersedes = i
    <3>1. CASE i = r
      BY <2>1, <2>3, <3>1 DEF OneMoreRow
    <3>2. CASE i # r
      <4>1. results[i].status = "SUPERSEDED"
        BY <2>1, <2>5, <3>2 DEF Rewritten
      <4>2. PICK s \in DOMAIN results : s > i /\ results[s].supersedes = i
        BY <4>1 DEF ResultNeverLost
      <4> QED
        BY <2>1, <2>4, <4>2 DEF OneMoreRow
    <3> QED
      BY <3>1, <3>2
  <2> QED
    BY <2>1, <2>3, <2>5 DEF OneMoreRow, ResultNeverLost
<1> QED
  BY <1>1, <1>2, <1>3, <1>4, Steps, Reads, ConfirmWrites, DisputeWrites, SettleWrites DEF Quiet

\* However disputes and their resolutions overlap, a superseded result is always
\* followed by one that names it.
THEOREM ResultNeverLostHolds == Spec => []ResultNeverLost
<1>1. Init => ResultNeverLost
  BY DEF Init, ResultNeverLost
<1>2. Typed /\ ResultNeverLost /\ [Next]_vars => Typed' /\ ResultNeverLost'
  BY StepTyped, StepKeepsResults
<1> QED
  BY <1>1, <1>2, InitTyped, PTL DEF Spec
-----------------------------------------------------------------------------
(* The four-eyes rule *)

\* Nobody confirms a proposal of their own, a confirmation in flight included; a
\* result that settlement has read, or that the market was settled on, has been
\* confirmed, whatever became of it since.
EyesOK ==
    /\ \A r \in DOMAIN results :
          /\ results[r].confirmer # results[r].proposer
          /\ results[r].status = "CONFIRMED" => results[r].confirmer # Nobody
    /\ run.result # None =>
          /\ run.result \in DOMAIN results
          /\ results[run.result].confirmer # Nobody
    /\ \A q \in Requests :
          /\ request[q].op = "confirm" =>
                 request[q].actor # results[request[q].row].proposer
          /\ request[q].op = "settle" => results[request[q].row].confirmer # Nobody

LEMMA InitEyes == Init => EyesOK
  BY DEF Init, EyesOK, Idle

\* A step that is done with its request, and whose rows keep their proposer and,
\* once they have one, a confirmer other than it.
LEMMA CommitEyes ==
    ASSUME Typed, EyesOK, NEW q \in Requests, Finish(q),
           DOMAIN results \subseteq DOMAIN results',
           \A i \in DOMAIN results :
               /\ results'[i].proposer = results[i].proposer
               /\ results[i].confirmer # Nobody => results'[i].confirmer # Nobody,
           \A i \in DOMAIN results' :
               /\ results'[i].confirmer # results'[i].proposer
               /\ results'[i].status = "CONFIRMED" => results'[i].confirmer # Nobody,
           \/ UNCHANGED run
           \/ /\ run'.result \in DOMAIN results
              /\ results[run'.result].confirmer # Nobody
    PROVE  EyesOK'
<1>1. /\ request'[q].op = "idle"
      /\ \A p \in Requests : p # q => request'[p] = request[p]
  BY Finishes DEF Idle
<1>2. \A p \in Requests : request[p].op \in {"confirm", "settle"} =>
          request[p].row \in DOMAIN results
  BY DEF Typed, RequestsOK
<1>3. run'.result # None => run'.result \in DOMAIN results' /\ results'[run'.result].confirmer # Nobody
  BY DEF EyesOK
<1>4. ASSUME NEW p \in Requests
      PROVE  /\ request'[p].op = "confirm" =>
                    request'[p].actor # results'[request'[p].row].proposer
             /\ request'[p].op = "settle" => results'[request'[p].row].confirmer # Nobody
  BY <1>1, <1>2 DEF EyesOK
<1> QED
  BY <1>3, <1>4 DEF EyesOK

LEMMA StepEyes ==
    ASSUME Typed, EyesOK, [Next]_vars
    PROVE  EyesOK'
<1>1. \A r \in DOMAIN results : results[r] \in ResultRow
  BY RowsTyped
<1>2. CASE Quiet
  <2>1. CASE UNCHANGED request
    BY <1>2, <2>1 DEF Quiet, EyesOK
  <2>2. CASE \E q \in Requests : Finish(q)
    BY <1>2, <2>2, CommitEyes DEF Quiet, EyesOK
  <2> QED
    BY <1>2, <2>1, <2>2 DEF Quiet
<1>3. ASSUME NEW q \in Requests, Read(q)
      PROVE  EyesOK'
  <2>1. PICK m \in Request :
            /\ Receive(q, m) /\ UNCHANGED <<results, market, run>>
            /\ m.op = "confirm" => m.actor # results[m.row].proposer
            /\ m.op = "settle" => /\ m.row \in DOMAIN results
                                  /\ results[m.row].status = "CONFIRMED"
    BY <1>3, Reads
  <2>2. /\ request'[q] = m
        /\ \A p \in Requests : p # q => request'[p] = request[p]
    BY <2>1, Receives
  <2> QED
    BY <2>1, <2>2 DEF EyesOK
<1>4. ASSUME NEW q \in Requests, ProposeCommit(q)
      PROVE  EyesOK'
  <2>1. PICK a \in Admins, v \in Winners :
            /\ OneMoreRow(Proposal(a, v, None))
            /\ \A i \in DOMAIN results : results'[i] = results[i]
    BY <1>4, ProposeWrites
  <2>2. /\ Proposal(a, v, None).status # "CONFIRMED"
        /\ Proposal(a, v, None).confirmer # Proposal(a, v, None).proposer
    BY DEF Proposal, ProposalStatus
  <2>3. Finish(q) /\ UNCHANGED run
    BY <1>4 DEF ProposeCommit
  <2> QED
    BY <2>1, <2>2, <2>3, CommitEyes DEF OneMoreRow, EyesOK
<1>5. ASSUME NEW q \in Requests, ConfirmCommit(q)
      PROVE  EyesOK'
  <2>1. PICK r \in DOMAIN results, a \in Admins :
            /\ r = request[q].row /\ a = request[q].actor
            /\ SameRows /\ Rewritten(r, "CONFIRMED", a)
    BY <1>5, ConfirmWrites
  <2>2. a # results[r].proposer /\ a # Nobody
    BY <1>5, <2>1 DEF ConfirmCommit, EyesOK
  <2>3. Finish(q) /\ UNCHANGED run
    BY <1>5 DEF ConfirmCommit
  <2> QED
    BY <2>1, <2>2, <2>3, CommitEyes DEF SameRows, Rewritten, EyesOK
<1>6. ASSUME NEW q \in Requests, DisputeCommit(q)
      PROVE  EyesOK'
  <2>1. PICK r \in DOMAIN results :
            SameRows /\ Rewritten(r, "DISPUTED", results[r].confirmer)
    BY <1>6, DisputeWrites
  <2>2. Finish(q) /\ UNCHANGED run
    BY <1>6 DEF DisputeCommit
  <2> QED
    BY <2>1, <2>2, CommitEyes DEF SameRows, Rewritten, EyesOK
<1>7. ASSUME NEW q \in Requests, ResolveCommit(q)
      PROVE  EyesOK'
  <2>1. PICK a \in Admins, v \in Winners, r \in DOMAIN results :
            /\ OneMoreRow(Proposal(a, v, r))
            /\ Rewritten(r, "SUPERSEDED", results[r].confirmer)
    BY <1>7, ResolveWrites
  <2>2. /\ Proposal(a, v, r).status # "CONFIRMED"
        /\ Proposal(a, v, r).confirmer # Proposal(a, v, r).proposer
    BY DEF Proposal, ProposalStatus
  <2>3. Finish(q) /\ UNCHANGED run
    BY <1>7 DEF ResolveCommit
  <2> QED
    BY <2>1, <2>2, <2>3, CommitEyes DEF OneMoreRow, Rewritten, EyesOK
<1>8. ASSUME NEW q \in Requests, SettleCommit(q)
      PROVE  EyesOK'
  <2>1. results[request[q].row].confirmer # Nobody
    BY <1>8 DEF SettleCommit, EyesOK
  <2> QED
    BY <1>8, <2>1, SettleWrites, CommitEyes DEF EyesOK
<1> QED
  BY <1>2, <1>3, <1>4, <1>5, <1>6, <1>7, <1>8, Steps

\* Two administrators stand behind every confirmed result and behind the one the
\* market was settled on.
THEOREM FourEyesHolds == Spec => []FourEyes
<1>1. Typed /\ EyesOK /\ [Next]_vars => Typed' /\ EyesOK'
  BY StepTyped, StepEyes
<1>2. Typed /\ EyesOK => FourEyes
  <2>1. ASSUME Typed, EyesOK, NEW r \in DOMAIN results
        PROVE  results[r].status = "CONFIRMED" \/ run.result = r =>
                   results[r].confirmer \notin {Nobody, results[r].proposer}
    <3>1. r # None
      BY <2>1, RowsTyped
    <3> QED
      BY <2>1, <3>1 DEF EyesOK
  <2> QED
    BY <2>1 DEF FourEyes
<1> QED
  BY <1>1, <1>2, InitTyped, InitEyes, PTL DEF Spec
-----------------------------------------------------------------------------
(* One settlement *)

\* The advisory lock: one settlement is in flight at most, and then the market
\* has not been settled.
OneSettlement ==
    \A q \in Requests : request[q].op = "settle" =>
        /\ run.status = "NONE"
        /\ \A p \in Requests : request[p].op = "settle" => p = q

LEMMA StepSettlesOnce ==
    ASSUME Typed, OneSettlement, [Next]_vars
    PROVE  OneSettlement' /\ (run.status # "NONE" => UNCHANGED run)
<1>1. ASSUME NEW q \in Requests, Finish(q), UNCHANGED run
      PROVE  OneSettlement'
  <2>1. /\ request'[q].op = "idle"
        /\ \A p \in Requests : p # q => request'[p] = request[p]
    BY <1>1, Finishes DEF Idle
  <2> QED
    BY <1>1, <2>1 DEF OneSettlement
<1>2. CASE Quiet
  BY <1>1, <1>2 DEF Quiet, OneSettlement
<1>3. ASSUME NEW q \in Requests, Read(q)
      PROVE  OneSettlement' /\ UNCHANGED run
  <2>1. PICK m \in Request :
            /\ Receive(q, m) /\ UNCHANGED <<results, market, run>>
            /\ m.op = "settle" => Resumable /\ AdvisoryFree
    BY <1>3, Reads
  <2>2. /\ request'[q] = m
        /\ \A p \in Requests : p # q => request'[p] = request[p]
    BY <2>1, Receives
  <2> QED
    BY <2>1, <2>2 DEF OneSettlement, Resumable, AdvisoryFree
<1>4. ASSUME NEW q \in Requests,
             ProposeCommit(q) \/ ConfirmCommit(q) \/ DisputeCommit(q) \/ ResolveCommit(q)
      PROVE  OneSettlement' /\ UNCHANGED run
  BY <1>1, <1>4 DEF ProposeCommit, ConfirmCommit, DisputeCommit, ResolveCommit
<1>5. ASSUME NEW q \in Requests, SettleCommit(q)
      PROVE  OneSettlement' /\ run.status = "NONE"
  <2>1. request[q].op = "settle" /\ Finish(q)
    BY <1>5 DEF SettleCommit
  <2>2. /\ request'[q].op = "idle"
        /\ \A p \in Requests : p # q => request'[p] = request[p]
    BY <2>1, Finishes DEF Idle
  <2> QED
    BY <2>1, <2>2 DEF OneSettlement
<1> QED
  BY <1>2, <1>3, <1>4, <1>5, Steps DEF Quiet

\* A market is settled once, on one result.
THEOREM SettledOnceHolds == Spec => SettledOnce
<1>1. Init => OneSettlement
  BY DEF Init, OneSettlement, Idle
<1>2. Typed /\ OneSettlement /\ [Next]_vars => Typed' /\ OneSettlement'
  BY StepTyped, StepSettlesOnce
<1>3. Typed /\ OneSettlement /\ [Next]_vars =>
          [run.status # "NONE" => UNCHANGED run]_vars
  BY StepSettlesOnce
<1> QED
  BY <1>1, <1>2, <1>3, InitTyped, PTL DEF Spec, SettledOnce
=============================================================================
