----------------------------- MODULE PrivateLedger -----------------------------
(***************************************************************************)
(* What STRK20 promises its user: private balances change only by batches  *)
(* the user consented to, each once, by exactly the amounts the prompt     *)
(* named, and by what others send.                                         *)
(***************************************************************************)
EXTENDS Integers, Sequences, SequencesExt

CONSTANTS Users, Owner, Tokens, Requests, Gifts, Nothing,
          Intents,              \* what a prompt may name
          OtherIntents          \* what the owner's other wallets do

VARIABLES balance,              \* what each user owns in the pool, per token
          consent,              \* the intent each request's prompt named, once it was approved
          settled               \* the requests that took effect

vars == <<balance, consent, settled>>

Sum(list, ok(_)) == FoldLeft(LAMBDA sum, x : IF ok(x) THEN sum + x.amount ELSE sum, 0, list)

\* What the owner pays for an intent, and what a user receives by it.
Pays(intent, t) == Sum(intent.transfers \o intent.withdrawals, LAMBDA x : x.token = t)
                     - Sum(intent.deposits, LAMBDA x : x.token = t)

Receives(intent, u, t) == Sum(intent.transfers, LAMBDA x : x.token = t /\ x.to = u)

Init == /\ balance \in [Users -> [Tokens -> Nat]]
        /\ consent = [r \in Requests |-> Nothing]
        /\ settled = {}

Consent(r) == /\ consent[r] = Nothing
              /\ \E i \in Intents : consent' = [consent EXCEPT ![r] = i]
              /\ UNCHANGED <<balance, settled>>

Take(i) == balance' = [u \in Users |-> [t \in Tokens |->
                           balance[u][t] + Receives(i, u, t) - (IF u = Owner THEN Pays(i, t) ELSE 0)]]

Settle(r) == /\ consent[r] # Nothing
             /\ r \notin settled
             /\ settled' = settled \cup {r}
             /\ Take(consent[r])
             /\ UNCHANGED consent

\* A request that was approved and then failed never takes effect.
Abandon(r) == /\ consent[r] # Nothing
              /\ r \notin settled
              /\ consent' = [consent EXCEPT ![r] = Nothing]
              /\ UNCHANGED <<balance, settled>>

\* Someone else pays the owner.
Receive == /\ \E t \in Tokens, gift \in Gifts : balance' = [balance EXCEPT ![Owner][t] = @ + gift]
           /\ UNCHANGED <<consent, settled>>

\* The owner does something with another wallet, without these requests.
OtherWallet == /\ \E i \in OtherIntents : Take(i)
               /\ UNCHANGED <<consent, settled>>

Next == Receive \/ OtherWallet \/ \E r \in Requests : Consent(r) \/ Settle(r) \/ Abandon(r)

Spec == Init /\ [][Next]_vars
================================================================================
