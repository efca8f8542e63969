-------------------------------- MODULE AccountsTab --------------------------------
(***************************************************************************)
(* The Accounts tab (desktop/src/components/Accounts.tsx) and the commands *)
(* behind it: deploy_status and deploy_account of the desktop's lib.rs,    *)
(* with the node they ask (wallet-rpc/src/node.rs). The page asks again    *)
(* every ten seconds and its answers come back in any order; the wallet's  *)
(* network is moved under it by its own switch and by other clients; a     *)
(* deploy holds the session mutex until the node has taken it.             *)
(*                                                                         *)
(* Every network has a node, and balances are left out: a balance of zero  *)
(* only makes a press of Deploy do nothing.                                *)
(***************************************************************************)
EXTENDS Naturals, FiniteSets

CONSTANTS Accounts,             \* addresses, the same on every network
          Networks,
          Nobody,               \* no account
          MaxClicks,            \* bound: presses of Deploy
          MaxTroubles           \* bound: changes of the wallet's network, times the tab is left, and what
                                \* the node answers wrong or not at all, refuses or drops, all together

ASSUME ConstantsAssumption == Accounts # {} /\ Networks # {} /\ Nobody \notin Accounts /\ MaxClicks \in Nat

VARIABLES active,               \* the session's network
          there,                \* [net, acct] that are deployed
          sent,                 \* broadcast deploys that have neither landed nor been dropped
          status,               \* status answers on their way to the page, by their network
          net,                  \* the network of the last status the page has had
          page,                 \* the tab: up, and per account what it knows and marks
          asks,                 \* deploy_status calls, and their answers on the way
          call,                 \* deploy_account calls, in the order of the presses
          wallet,               \* history: [net, acct] a deploy has been broadcast for
          crossed,              \* history: accounts whose marker something else has crossed
          moved,                \* history: the wallet's network has been changed
          troubles

history == <<wallet, crossed, moved, troubles>>
world == <<there, sent>>
vars == <<active, world, status, net, page, asks, call, history>>

Clicks == 1..MaxClicks
Places == [net : Networks, acct : Accounts]

\* deploying is one account at a time, whichever was pressed last.
Fresh == [up |-> TRUE, deployed |-> [a \in Accounts |-> "unknown"], pending |-> {}, deploying |-> Nobody]
Closed == [Fresh EXCEPT !.up = FALSE]
Idle == [at |-> "idle", acct |-> Nobody, net |-> Nobody, mine |-> FALSE]

Ask(a, clears) == [acct |-> a, clears |-> clears, answer |-> "none", net |-> Nobody]
FetchStatuses == {Ask(a, TRUE) : a \in Accounts}

\* deploy_account keeps the session mutex from its first line to its last.
Held == \E c \in Clicks : call[c].at = "send"
Running(c) == call[c].at \notin {"idle", "over"}

TypeOK ==
    /\ active \in Networks /\ net \in Networks /\ status \subseteq Networks
    /\ there \subseteq Places /\ sent \in [Places -> Nat] /\ wallet \subseteq Places
    /\ page.up \in BOOLEAN /\ page.deployed \in [Accounts -> {"unknown", "yes", "no"}]
    /\ page.pending \subseteq Accounts /\ page.deploying \in Accounts \cup {Nobody}
    /\ asks \subseteq [acct : Accounts, clears : BOOLEAN, answer : {"none", "yes", "no"},
                     net : Networks \cup {Nobody}]
    /\ ~page.up => asks = {}
    /\ \A c \in Clicks : call[c].at \in {"idle", "queued", "send", "ok", "failed", "over"}
    /\ Cardinality({c \in Clicks : call[c].at = "send"}) <= 1
    /\ crossed \subseteq Accounts

\* One account is there on the other network, the rest nowhere.
Init ==
    /\ active = CHOOSE n \in Networks : TRUE
    /\ net = active /\ status = {}
    /\ there = {[net |-> n, acct |-> CHOOSE a \in Accounts : TRUE] : n \in Networks \ {active}}
    /\ sent = [p \in Places |-> 0]
    /\ page = Fresh /\ asks = FetchStatuses
    /\ call = [c \in Clicks |-> Idle]
    /\ wallet = {} /\ crossed = {} /\ moved = FALSE /\ troubles = 0

Trouble == troubles < MaxTroubles /\ troubles' = troubles + 1
Cross(S) == crossed' = crossed \cup S
Marked == page.pending \cup {call[c].acct : c \in {d \in Clicks : Running(d)}}

--------------------------------------------------------------------------------
(* What the page shows.                                                    *)

\* App asks for the status every two seconds; answers that would change nothing are left out.
PollStatus ==
    /\ ~Held /\ active # net
    /\ status' = status \cup {active}
    /\ UNCHANGED <<active, world, net, page, asks, call, history>>

\* A network that is new to the page empties what it knows, not what it marks, and asks again.
StatusArrives ==
    /\ \E n \in status :
          /\ status' = status \ {n} /\ net' = n
          /\ IF n # net /\ page.up
             THEN /\ page' = [page EXCEPT !.deployed = Fresh.deployed]
                  /\ asks' = asks \cup FetchStatuses
             ELSE UNCHANGED <<page, asks>>
    /\ UNCHANGED <<active, world, call, history>>

RefreshOfFirstRender ==                                         \* mutant: the interval sees the list of its first render, which is empty
    /\ page.up /\ asks = {}
    /\ UNCHANGED vars
\* The interval; the next one does not overtake the last here.
Refresh ==
    /\ page.up /\ asks = {}
    /\ asks' = FetchStatuses
    /\ UNCHANGED <<active, world, status, net, page, call, history>>

\* is_deployed: an error of the node's own means no, one of the connection is no answer.
Truth(a) == IF [net |-> active, acct |-> a] \in there THEN "yes" ELSE "no"
Told(q, b) == (asks \ {q}) \cup {[q EXCEPT !.answer = b, !.net = active]}
DeployStatus ==
    /\ ~Held
    /\ \E q \in asks :
          /\ q.answer = "none"
          /\ \/ asks' = Told(q, Truth(q.acct)) /\ UNCHANGED troubles
             \/ Trouble /\ asks' \in {asks \ {q}, Told(q, "no")}
    /\ UNCHANGED <<active, world, status, net, page, call, wallet, crossed, moved>>

\* The marker goes with any "yes" of a fetch, whichever network it was given for.
AnswerArrives ==
    /\ \E q \in asks :
          /\ q.answer # "none"
          /\ asks' = asks \ {q}
          /\ LET clears == q.answer = "yes" /\ q.clears IN
             /\ page' = [page EXCEPT !.deployed[q.acct] = q.answer,
                                     !.pending = IF clears THEN @ \ {q.acct} ELSE @]
             /\ Cross({a \in Marked : clears /\ a = q.acct /\ q.net # active})
    /\ UNCHANGED <<active, world, status, net, call, wallet, moved, troubles>>

\* Another tab: the page's state goes, its deploys go on.
Leave ==
    /\ page.up /\ Trouble
    /\ page' = Closed /\ asks' = {}
    /\ call' = [c \in Clicks |-> [call[c] EXCEPT !.mine = FALSE]]
    /\ Cross(Marked)
    /\ UNCHANGED <<active, world, status, net, wallet, moved>>

Open ==
    /\ ~page.up
    /\ page' = Fresh /\ asks' = FetchStatuses
    /\ UNCHANGED <<active, world, status, net, call, history>>

--------------------------------------------------------------------------------
(* Deploying.                                                              *)

IsPending(a) == a \in page.pending \/ page.deploying = a

Deploy(c, a) ==
    /\ call[c].at = "idle" /\ \A d \in 1..c-1 : call[d].at # "idle"
    /\ page.up
    /\ page.deployed[a] = "no" /\ ~IsPending(a)
    /\ call' = [call EXCEPT ![c] = [Idle EXCEPT !.at = "queued", !.acct = a, !.mine = TRUE]]
    /\ page' = [page EXCEPT !.deploying = a]
    /\ Cross({page.deploying} \ {Nobody})
    /\ UNCHANGED <<active, world, status, net, asks, wallet, moved, troubles>>

Place(c) == [net |-> call[c].net, acct |-> call[c].acct]
EndAs(c, at) == call' = [call EXCEPT ![c].at = at]

\* deploy_account is for the network of the moment it gets the mutex, and holds that to its end. An answer of the
\* node's own that is an error passes for undeployed; is_deployed without an answer, or the estimate, fails it.
TakeSession(c) ==
    /\ call[c].at = "queued" /\ ~Held
    /\ \E told \in {"yes", "no"} :
          /\ IF told = "yes" THEN EndAs(c, "failed")
             ELSE call' = [call EXCEPT ![c].at = "send", ![c].net = active]
          /\ IF told = Truth(call[c].acct) THEN UNCHANGED troubles ELSE Trouble
    /\ UNCHANGED <<active, world, status, net, page, asks, wallet, crossed, moved>>

\* add_deploy_account: taken, refused, or taken with the answer lost. A node may take two for one account.
Broadcast(c) ==
    /\ call[c].at = "send"
    /\ IF Place(c) \in there
       THEN EndAs(c, "failed") /\ UNCHANGED <<sent, wallet, crossed, troubles>>
       ELSE \/ EndAs(c, "failed") /\ Trouble /\ UNCHANGED <<sent, wallet, crossed>>
            \/ /\ sent' = [sent EXCEPT ![Place(c)] = @ + 1]
               /\ wallet' = wallet \cup {Place(c)}
               /\ \/ EndAs(c, "ok") /\ UNCHANGED <<crossed, troubles>>
                  \/ EndAs(c, "failed") /\ Trouble /\ Cross({call[c].acct})
    /\ UNCHANGED <<active, there, status, net, page, asks, moved>>

Over(c) == call' = [call EXCEPT ![c] = [Idle EXCEPT !.at = "over"]]

\* Whichever call returns takes the marker of the one pressed last.
Unmark(c) == [page EXCEPT !.deploying = Nobody]
Return(c, marked, again) ==
    /\ Over(c)
    /\ IF call[c].mine
       THEN /\ page' = [Unmark(c) EXCEPT !.pending = @ \cup marked]
            /\ asks' = asks \cup again
            /\ Cross({page.deploying} \ {Nobody, call[c].acct})
       ELSE UNCHANGED <<page, asks, crossed>>
    /\ UNCHANGED <<active, world, status, net, wallet, moved, troubles>>

DeployedUnmarked(c) ==                                          \* mutant: back to the Deploy button until the node shows it
    /\ call[c].at = "ok"
    /\ Return(c, {}, {Ask(call[c].acct, TRUE)})
Deployed(c) ==
    /\ call[c].at = "ok"
    /\ Return(c, {call[c].acct}, {Ask(call[c].acct, TRUE)})

DeployFailedMarked(c) ==                                        \* mutant: marked before the answer is there
    /\ call[c].at = "failed"
    /\ Return(c, {call[c].acct}, {Ask(call[c].acct, FALSE)})
\* An error may mean that it was deployed before: the page asks, and leaves its markers.
DeployFailed(c) ==
    /\ call[c].at = "failed"
    /\ Return(c, {}, {Ask(call[c].acct, FALSE)})

--------------------------------------------------------------------------------
(* The rest.                                                               *)

\* The tab's own switch, or another client's wallet_switchStarknetChain.
SetNetwork ==
    /\ ~Held /\ Trouble /\ moved' = TRUE
    /\ active' \in Networks \ {active}
    /\ Cross(Marked)
    /\ status' \in {status, status \cup {active}}        \* a poll of before may be on its way
    /\ UNCHANGED <<world, net, page, asks, call, wallet>>

\* A broadcast deploy is included, or dropped; one that comes second is void.
Land ==
    /\ \E p \in Places :
          /\ sent[p] > 0
          /\ sent' = [sent EXCEPT ![p] = 0]
          /\ \/ there' = there \cup {p} /\ UNCHANGED troubles
             \/ UNCHANGED there /\ Trouble
    /\ UNCHANGED <<active, status, net, page, asks, call, wallet, crossed, moved>>

--------------------------------------------------------------------------------
Command(c) == TakeSession(c) \/ Broadcast(c) \/ Deployed(c) \/ DeployFailed(c)

Next == \/ PollStatus \/ StatusArrives \/ Refresh \/ DeployStatus \/ AnswerArrives
        \/ Leave \/ Open \/ SetNetwork \/ Land
        \/ \E c \in Clicks : Command(c) \/ \E a \in Accounts : Deploy(c, a)

\* The intervals go on, the node answers, and what has begun ends.
Fairness == /\ WF_vars(PollStatus) /\ WF_vars(StatusArrives)
            /\ WF_vars(Refresh) /\ WF_vars(DeployStatus) /\ WF_vars(AnswerArrives)
            /\ \A c \in Clicks : WF_vars(Command(c))

Spec == Init /\ [][Next]_vars /\ Fairness

--------------------------------------------------------------------------------
(* Properties.                                                             *)

\* "so we don't revert to a Deploy button and let the user submit a second, nonce-conflicting tx" (Accounts.tsx): one
\* deploy of an account is in flight per network, with answers of before the deploy still on their way and nodes that
\* err. What the marker does not cover, and the property leaves out: the tab was left or the network moved, another
\* account's Deploy was pressed or returned meanwhile, an answer of
\* the other network came late, or the answer of the broadcast was lost.
OneDeployInFlight == \A p \in Places : sent[p] <= 1 \/ p.acct \in crossed

\* The page says "Deploying" only of what was broadcast to the network it is on, and "deployed" only of what is, as
\* long as the network stays (Accounts.tsx, deploy and fetchStatuses; is_deployed).
MarkersAreTrue ==
    /\ TypeOK
    /\ ~moved =>
          /\ \A a \in page.pending : [net |-> active, acct |-> a] \in wallet
          /\ \A a \in Accounts : page.deployed[a] = "yes" => [net |-> active, acct |-> a] \in there

\* On a tab that stays open the page ends up on the wallet's network, with every account shown as it is there: late
\* answers of another network or of before the deploy, and wrong ones, do not last (Accounts.tsx, the interval and
\* the effect on activeNet).
ShownSettles ==
    <>[]page.up => <>[](net = active /\ \A a \in Accounts : page.deployed[a] = Truth(a))
================================================================================
