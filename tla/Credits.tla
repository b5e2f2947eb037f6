------------------------------- MODULE Credits -------------------------------
(***************************************************************************)
(* What a financial route promises of the credits it makes: a key pays at  *)
(* most once, the balance is what the keys have paid, and only a request   *)
(* whose key has paid is answered with success.  Module CreditRequests is  *)
(* the code that keeps this promise with four transactions a request.      *)
(***************************************************************************)
EXTENDS Integers

CONSTANTS
    Users,      \* the owners of the wallets
    Keys,       \* idempotency keys
    Amounts     \* the amounts that are asked for

VARIABLES
    credits,    \* the credits made, each under its key
    balance,    \* the wallets
    answered    \* the users and keys whose response is stored

Credit == [key : Keys, user : Users, amount : Amounts]

Init ==
    /\ credits = {}
    /\ balance = [u \in Users |-> 0]
    /\ answered = {}

Pay(c) ==
    /\ \A d \in credits : d.key # c.key
    /\ credits' = credits \cup {c}
    /\ balance' = [balance EXCEPT ![c.user] = @ + c.amount]
    /\ UNCHANGED answered

\* The key need not have paid this user: it is unique in the whole ledger.
Answer(u, k) ==
    /\ \E c \in credits : c.key = k
    /\ answered' = answered \cup {<<u, k>>}
    /\ UNCHANGED <<credits, balance>>

Next ==
    \/ \E c \in Credit : Pay(c)
    \/ \E u \in Users, k \in Keys : Answer(u, k)

Spec == Init /\ [][Next]_<<credits, balance, answered>>
=============================================================================
