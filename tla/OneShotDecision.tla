---------------------------- MODULE OneShotDecision ----------------------------
(***************************************************************************)
(* What Approver::request_approval promises to the request handlers: every *)
(* call gets at most one decision, the decision never changes, Approve     *)
(* comes only after the user consented to this very prompt, and a call     *)
(* whose handler is still there is always decided in the end.              *)
(***************************************************************************)
CONSTANT Requests               \* the calls of request_approval

VARIABLES decision,             \* what each call has got so far
          consent               \* the prompts the user said yes to

vars == <<decision, consent>>

Undecided == {"none", "asked"}

TypeOK == /\ decision \in [Requests -> {"none", "asked", "Approve", "Reject", "abandoned"}]
          /\ consent \subseteq Requests

Init == /\ decision = [r \in Requests |-> "none"]
        /\ consent = {}

Ask(r) == /\ decision[r] = "none"
          /\ decision' = [decision EXCEPT ![r] = "asked"]
          /\ UNCHANGED consent

\* The user's yes may come after the call was decided (a late click).
Consent(r) == /\ decision[r] # "none"
              /\ consent' = consent \cup {r}
              /\ UNCHANGED decision

Decide(r) == /\ decision[r] = "asked"
             /\ \/ decision' = [decision EXCEPT ![r] = "Reject"]
                \/ r \in consent /\ decision' = [decision EXCEPT ![r] = "Approve"]
             /\ UNCHANGED consent

\* The caller disconnected: its handler is dropped and waits no more.
Abandon(r) == /\ decision[r] = "asked"
              /\ decision' = [decision EXCEPT ![r] = "abandoned"]
              /\ UNCHANGED consent

Next == \E r \in Requests : Ask(r) \/ Consent(r) \/ Decide(r) \/ Abandon(r)

Spec == /\ Init /\ [][Next]_vars
        /\ \A r \in Requests : WF_vars(Decide(r))
================================================================================
