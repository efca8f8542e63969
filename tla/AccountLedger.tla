----------------------------- MODULE AccountLedger -----------------------------
(***************************************************************************)
(* What the wallet promises about accounts: an account is on disk before   *)
(* its address is handed out, it stays there, and no address is ever given *)
(* to a second owner.                                                      *)
(***************************************************************************)
CONSTANTS Accounts,             \* account records
          Address(_)            \* the address of an account

VARIABLES durable,              \* accounts in the vault file
          issued                \* accounts whose creation was acknowledged

vars == <<durable, issued>>

Init == durable = {} /\ issued = {}

\* The account is written; its caller may die, or learn of it in the same step.
Persist(a) ==
  /\ \A b \in durable : Address(b) # Address(a)
  /\ durable' = durable \cup {a}
  /\ issued' \in {issued, issued \cup {a}}

Next == \E a \in Accounts : Persist(a)

Spec == Init /\ [][Next]_vars
================================================================================
