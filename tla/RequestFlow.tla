------------------------------- MODULE RequestFlow -------------------------------
(***************************************************************************)
(* One JSON-RPC request through wallet-rpc/src/dispatch.rs: verify the     *)
(* token, resolve account and chain, ask the node, take the decision,      *)
(* sign, broadcast, log, while other requests, the desktop's settings, the *)
(* auto-lock and other wallets of the same accounts move in between.       *)
(*                                                                         *)
(* A handler is a sequence of short critical sections (session, clients,   *)
(* nodes, log) with awaits between them; each section is one action. The   *)
(* approval broker behind a prompt is ApprovalBroker, the registry behind  *)
(* CreateAgentAccount is AccountVault.                                     *)
(***************************************************************************)
EXTENDS Naturals, FiniteSets

CONSTANTS Requests,             \* requests that may be sent
          Clients, Apps,        \* paired clients; those of kind App
          Accounts, Manager,    \* accounts; the user's own one, number 0
          Owner,                \* the client each other account belongs to
          Chains, Default,      \* networks; "no chainId in the params"
          Methods,              \* the methods called in this instance
          Desktop,              \* the user, as the source of a grant
          MaxNonce,             \* bound on an account's nonce
          MaxMoves              \* bound on what the desktop, the auto-lock and
                                \* other wallets do in between

VARIABLES
  flow,         \* each request: control state, parameters, what it has read
  unlocked,     \* the session
  active,       \* the session's chain, the default of all clients
  nodes,        \* chains with a node configured
  grants,       \* each client's grant, by number, or 0
  granted,      \* history: every grant given
  lapsed,       \* grants whose window is over
  nonces,       \* external: each account's nonce on each chain, 0 if undeployed
  effects,      \* history: what was signed or done
  landed,       \* external: transactions the chains took from this wallet
  log,          \* the request log
  moves         \* counts the steps of the desktop and of other wallets

wallet == <<unlocked, active, nodes>>
permission == <<grants, granted, lapsed>>
world == <<nonces, landed>>
vars == <<flow, unlocked, active, nodes, grants, granted, lapsed, nonces, effects, landed, log, moves>>

--------------------------------------------------------------------------------
(* The handlers, by what they do on the way.                                    *)
(*   account    resolves an account in the caller's scope; then signs with it   *)
(*   onchain    resolves a chain, a nonce and a fee                             *)
(*   must       what the node must say of the sender before the quote           *)
(*   gated      an active grant stands for the prompt                           *)
(*   agentOnly  refused to a client of kind App                                 *)

SignTypedData == [account |-> TRUE, onchain |-> FALSE, must |-> "any", gated |-> TRUE, agentOnly |-> FALSE]
AddInvoke == [SignTypedData EXCEPT !.onchain = TRUE]
AddDeclare == AddInvoke
SignAndProve == AddInvoke
DeployAccount == [AddInvoke EXCEPT !.must = "undeployed"]
RequestFunding == [AddInvoke EXCEPT !.must = "deployed", !.gated = FALSE, !.agentOnly = TRUE]
CreateAgentAccount == [SignTypedData EXCEPT !.account = FALSE, !.agentOnly = TRUE]
\* Mutant: requestGrant goes through gated_approval.
RequestGrantGated == [SignTypedData EXCEPT !.account = FALSE]
RequestGrant == [SignTypedData EXCEPT !.account = FALSE, !.gated = FALSE]
SwitchChain == RequestGrant
WatchAsset == RequestGrant

Plan == [sign |-> SignTypedData, invoke |-> AddInvoke, declare |-> AddDeclare,
         prove |-> SignAndProve, deploy |-> DeployAccount, fund |-> RequestFunding, create |-> CreateAgentAccount,
         grant |-> RequestGrant, switch |-> SwitchChain, watch |-> WatchAsset]

ASSUME ConstantsAssumption ==
  /\ Apps \subseteq Clients
  /\ Manager \in Accounts
  /\ Owner \in [Accounts \ {Manager} -> Clients \ Apps]
  /\ Default \notin Chains
  /\ Methods \subseteq DOMAIN Plan
  /\ Clients # {} /\ Methods # {} /\ Chains # {}
  /\ Desktop \notin Requests
  /\ MaxNonce \in Nat \ {0} /\ MaxMoves \in Nat

\* Mutant: the registry without the owner filter.
ScopeUnfiltered(c) == Accounts

\* Registry::scoped_for: an agent has the accounts it made, an app the user's.
Scope(c) == IF c \in Apps THEN {Manager} ELSE {a \in Accounts \ {Manager} : Owner[a] = c}

\* What a caller can ask. Only an on-chain method reads chainId, submit (not for
\* a proof) and its own nonce, a deploy's own fee (offline); switch names the
\* chain to switch to.
Params == {p \in [client : Clients, method : Methods, to : Chains \cup {Default},
                  submit : BOOLEAN, offline : BOOLEAN] :
             \/ Plan[p.method].onchain /\ (p.method = "prove" => ~p.submit)
             \/ ~p.submit /\ ~p.offline /\ (p.method = "switch" <=> p.to # Default)}

Locals == [pc : {"idle", "verify", "resolve", "precheck", "quote", "gate", "prompt",
                 "act", "submit", "reply", "done", "gone"},
           param : Params,
           snap : Nat,                          \* the grant in the client's snapshot
           acct : Accounts,                     \* account found in scope
           chain : Chains \cup {Default},       \* chain resolved
           nonce : 0..MaxNonce,
           shown : SUBSET [from : Accounts, to : Accounts, chain : Chains \cup {Default}],
           decision : {"none", "auto", "approved", "rejected"},
           result : {"none", "ok", "refused", "error"}]

Effect == [req : Requests, from : Accounts, to : Accounts,
           chain : Chains \cup {Default}, nonce : 0..MaxNonce]

TypeOK ==
  /\ flow \in [Requests -> Locals]
  /\ unlocked \in BOOLEAN /\ active \in Chains /\ nodes \subseteq Chains
  /\ grants \in [Clients -> Nat]
  /\ granted \subseteq [number : Nat \ {0}, client : Clients, by : Requests \cup {Desktop}]
  /\ lapsed \subseteq Nat
  /\ nonces \in [Chains -> [Accounts -> 0..MaxNonce]]
  /\ effects \subseteq Effect
  /\ landed \subseteq [tx : Effect, on : Chains]
  /\ log \subseteq [req : Requests, network : Chains, decision : {"approved", "rejected", "n/a"},
                    outcome : {"ok", "refused", "error"}]
  /\ moves \in 0..MaxMoves

Idle(p) == [pc |-> "idle", param |-> p, snap |-> 0, acct |-> Manager, chain |-> Default,
            nonce |-> 0, shown |-> {}, decision |-> "none", result |-> "none"]

\* The manager is deployed and can pay; the agents' accounts are new.
Init ==
  /\ flow = [r \in Requests |-> Idle(CHOOSE p \in Params : TRUE)]
  /\ unlocked \in BOOLEAN /\ active \in Chains /\ nodes \in SUBSET Chains
  /\ grants = [c \in Clients |-> 0] /\ granted = {} /\ lapsed = {}
  /\ nonces = [ch \in Chains |-> [a \in Accounts |-> IF a = Manager THEN 1 ELSE 0]]
  /\ effects = {} /\ landed = {} /\ log = {} /\ moves = 0

--------------------------------------------------------------------------------
(* The handler.                                                                 *)

At(r, pc) == flow[r].pc = pc
PlanOf(r) == Plan[flow[r].param.method]
Sender(f) == IF f.param.method = "fund" THEN Manager ELSE f.acct

\* has_node_for, node_for: looked up anew each time, never held.
HasNode(ch) == ch \in nodes

Goto(r, pc) == flow' = [flow EXCEPT ![r].pc = pc]
Finish(r, result) == flow' = [flow EXCEPT ![r].pc = "reply", ![r].result = result]

Arrive(r, p) ==
  /\ At(r, "idle")
  /\ flow' = [flow EXCEPT ![r].pc = "verify", ![r].param = p]
  /\ UNCHANGED <<wallet, permission, world, effects, log, moves>>

\* ClientStore::verify clones the client, its grant included; the handler
\* works with that clone to its end. Bad parameters and wrong kinds end here.
Verify(r) ==
  /\ At(r, "verify")
  /\ \/ Finish(r, "error")
     \/ /\ PlanOf(r).agentOnly => flow[r].param.client \notin Apps
        /\ flow' = [flow EXCEPT ![r].pc = IF PlanOf(r).account THEN "resolve" ELSE "gate",
                                ![r].snap = grants[flow[r].param.client]]
  /\ UNCHANGED <<wallet, permission, world, effects, log, moves>>

\* Locked, Forbidden, or an account of the caller's; then resolve_chain.
Resolve(r) ==
  /\ At(r, "resolve")
  /\ \/ Finish(r, "error")
     \/ /\ unlocked
        /\ \E a \in Scope(flow[r].param.client) :
             flow' = [flow EXCEPT
               ![r].pc = IF PlanOf(r).onchain THEN "precheck" ELSE "gate",
               ![r].acct = a,
               ![r].chain = IF PlanOf(r).onchain /\ flow[r].param.to = Default
                            THEN active ELSE flow[r].param.to]
  /\ UNCHANGED <<wallet, permission, world, effects, log, moves>>

\* Mutant: waits until the chain has a node instead of going on without.
PrecheckNeedsNode(r) ==
  /\ At(r, "precheck") /\ HasNode(flow[r].chain)
  /\ Goto(r, "quote")
  /\ UNCHANGED <<wallet, permission, world, effects, log, moves>>

\* is_deployed, where the handler asks and a node is configured for the chain.
Precheck(r) ==
  /\ At(r, "precheck")
  /\ LET deployed == nonces[flow[r].chain][Sender(flow[r])] > 0
         asks     == PlanOf(r).must # "any" /\ HasNode(flow[r].chain)
     IN \/ asks /\ Finish(r, "error")                   \* the node failed, or said no
        \/ /\ asks => deployed = (PlanOf(r).must = "deployed")
           /\ Goto(r, "quote")
  /\ UNCHANGED <<wallet, permission, world, effects, log, moves>>

\* The class, the salt and the address to deploy come from the seed (deployment_data_for).
DeploymentData == unlocked

\* resolve_exec: the nonce from the caller or from the node, the fee from
\* either, so that the quote can fail (no node, its error) whoever gave the
\* nonce. A deploy has nonce 0, and derives its data from the session first.
Quote(r) ==
  /\ At(r, "quote")
  /\ LET f       == flow[r]
         deploy  == f.param.method = "deploy"
         offered == IF deploy THEN {0}
                    ELSE IF f.param.offline THEN 0..MaxNonce
                    ELSE {nonces[f.chain][Sender(f)]}
     IN \/ Finish(r, "error")
        \/ /\ f.param.offline \/ HasNode(f.chain)
           /\ deploy => DeploymentData
           /\ \E n \in offered : flow' = [flow EXCEPT ![r].pc = "gate", ![r].nonce = n]
  /\ UNCHANGED <<wallet, permission, world, effects, log, moves>>

\* PairedClient::grant_active, of the snapshot.
GrantActive(f) == f.snap # 0 /\ f.snap \notin lapsed

Summary(f) == [from |-> Sender(f), to |-> f.acct, chain |-> f.chain]

\* gated_approval: an active grant is the decision; else ask the user. The
\* handlers that are not gated always ask.
Gate(r) ==
  /\ At(r, "gate")
  /\ flow' = IF PlanOf(r).gated /\ GrantActive(flow[r])
             THEN [flow EXCEPT ![r].pc = "act", ![r].decision = "auto"]
             ELSE [flow EXCEPT ![r].pc = "prompt", ![r].shown = {Summary(flow[r])}]
  /\ UNCHANGED <<wallet, permission, world, effects, log, moves>>

Approve(r) ==
  /\ At(r, "prompt")
  /\ flow' = [flow EXCEPT ![r].pc = "act", ![r].decision = "approved"]
  /\ UNCHANGED <<wallet, permission, world, effects, log, moves>>

\* The user, the 60 s timer, or a broker that is gone.
Reject(r) ==
  /\ At(r, "prompt")
  /\ flow' = [flow EXCEPT ![r].pc = "reply", ![r].decision = "rejected", ![r].result = "refused"]
  /\ UNCHANGED <<wallet, permission, world, effects, log, moves>>

\* Mutant: the chain is resolved again when it comes to signing.
SignedForActive(r) == [req |-> r, from |-> Sender(flow[r]), to |-> flow[r].acct,
                       chain |-> IF flow[r].param.to = Default /\ PlanOf(r).onchain
                                 THEN active ELSE flow[r].chain,
                       nonce |-> flow[r].nonce]

Signed(r) == [req |-> r, from |-> Sender(flow[r]), to |-> flow[r].acct,
              chain |-> flow[r].chain, nonce |-> flow[r].nonce]
Record(r) == effects' = effects \cup {Signed(r)}

\* A grant, from the user or by an approved request; a newer one replaces it.
GiveGrant(c, by) ==
  LET n == Cardinality(granted) + 1
  IN /\ grants' = [grants EXCEPT ![c] = n]
     /\ granted' = granted \cup {[number |-> n, client |-> c, by |-> by]}

\* sign_typed_data_for, sign_invoke_for and their like, under the session mutex: Locked if it is.
Sign(r) ==
  /\ PlanOf(r).account
  /\ \/ ~unlocked /\ Finish(r, "error") /\ UNCHANGED effects
     \/ /\ unlocked /\ Record(r)
        /\ IF flow[r].param.submit THEN Goto(r, "submit") ELSE Finish(r, "ok")
  /\ UNCHANGED <<active, permission>>

\* The account is in the registry and in the vault, or (Locked, a failed save)
\* in neither.
MakeAccount(r) ==
  /\ flow[r].param.method = "create"
  /\ \/ unlocked /\ Record(r) /\ Finish(r, "ok")
     \/ Finish(r, "error") /\ UNCHANGED effects
  /\ UNCHANGED <<active, permission>>

GrantRequested(r) ==
  /\ flow[r].param.method = "grant"
  /\ GiveGrant(flow[r].param.client, r)
  /\ Record(r) /\ Finish(r, "ok")
  /\ UNCHANGED <<active, lapsed>>

SetChain(r) ==
  /\ flow[r].param.method = "switch"
  /\ active' = flow[r].param.to
  /\ Record(r) /\ Finish(r, "ok")
  /\ UNCHANGED permission

AddWatchedAsset(r) ==
  /\ flow[r].param.method = "watch"
  /\ Record(r) /\ Finish(r, "ok")
  /\ UNCHANGED <<active, permission>>

Act(r) ==
  /\ At(r, "act")
  /\ Sign(r) \/ MakeAccount(r) \/ GrantRequested(r) \/ SetChain(r) \/ AddWatchedAsset(r)
  /\ UNCHANGED <<unlocked, nodes, world, log, moves>>

\* The chain takes a transaction that carries the account's next nonce; nonce 0
\* is a deploy, and an account is deployed once.
Takes(ch, tx, deploy) ==
  /\ tx.nonce = nonces[ch][tx.from]
  /\ deploy <=> tx.nonce = 0
  /\ tx.nonce < MaxNonce                                \* bound

\* Mutant: the node's refusal is not reported.
SubmitIgnoresError(r) ==
  /\ At(r, "submit")
  /\ Finish(r, "ok")
  /\ UNCHANGED <<wallet, permission, world, effects, log, moves>>

\* The node is looked up again. It refuses, it takes the transaction, or it
\* takes it and the answer is lost.
Submit(r) ==
  /\ At(r, "submit")
  /\ LET ch == flow[r].chain IN
     \/ Finish(r, "error") /\ UNCHANGED world
     \/ /\ HasNode(ch)
        /\ Takes(ch, Signed(r), flow[r].param.method = "deploy")
        /\ nonces' = [nonces EXCEPT ![ch][Signed(r).from] = @ + 1]
        /\ landed' = landed \cup {[tx |-> Signed(r), on |-> ch]}
        /\ Finish(r, "ok") \/ Finish(r, "error")
  /\ UNCHANGED <<wallet, permission, effects, log, moves>>

DecisionLabel(result) == CASE result = "refused" -> "rejected"
                           [] result = "ok" -> "approved"
                           [] OTHER -> "n/a"

\* dispatch, after the handler: the network is the session's, now.
LogAndReply(r) ==
  /\ At(r, "reply")
  /\ log' = log \cup {[req |-> r, network |-> active, decision |-> DecisionLabel(flow[r].result),
                       outcome |-> flow[r].result]}
  /\ Goto(r, "done")
  /\ UNCHANGED <<wallet, permission, world, effects, moves>>

\* The caller closes its connection: the server drops the handler where it is.
Disconnect(r) ==
  /\ flow[r].pc \notin {"idle", "done", "gone"}
  /\ Goto(r, "gone")
  /\ UNCHANGED <<wallet, permission, world, effects, log, moves>>

--------------------------------------------------------------------------------
(* What moves meanwhile.                                                        *)

Move == moves < MaxMoves /\ moves' = moves + 1          \* bound

LockOrUnlock ==
  /\ unlocked' = ~unlocked
  /\ UNCHANGED <<flow, active, nodes, permission, world, effects, log>>

SetNetwork(ch) ==
  /\ active' = ch /\ ch # active
  /\ UNCHANGED <<flow, unlocked, nodes, permission, world, effects, log>>

\* set_settings gives a chain a node or takes it away, one chain at a time.
SetNode(ch) ==
  /\ nodes' \in {nodes \cup {ch}, nodes \ {ch}} /\ nodes' # nodes
  /\ UNCHANGED <<flow, unlocked, active, permission, world, effects, log>>

GrantPermission(c) ==
  /\ GiveGrant(c, Desktop)
  /\ UNCHANGED <<flow, wallet, lapsed, world, effects, log>>

RevokePermission(c) ==
  /\ grants[c] # 0
  /\ grants' = [grants EXCEPT ![c] = 0]
  /\ UNCHANGED <<flow, wallet, granted, lapsed, world, effects, log>>

GrantLapses(n) ==
  /\ lapsed' = lapsed \cup {n} /\ n \notin lapsed
  /\ UNCHANGED <<flow, wallet, grants, granted, world, effects, log>>

\* A transaction of the account from elsewhere: a signed one broadcast by its
\* caller, another wallet with the same phrase.
OtherTransaction(ch, a) ==
  /\ nonces[ch][a] < MaxNonce                           \* bound
  /\ nonces' = [nonces EXCEPT ![ch][a] = @ + 1]
  /\ UNCHANGED <<flow, wallet, permission, effects, landed, log>>

--------------------------------------------------------------------------------
Step(r) == \/ Verify(r) \/ Resolve(r) \/ Precheck(r) \/ Quote(r) \/ Gate(r)
           \/ Act(r) \/ Submit(r) \/ LogAndReply(r)

Elsewhere ==
  \/ LockOrUnlock
  \/ \E ch \in Chains : \/ SetNetwork(ch) \/ SetNode(ch)
                        \/ \E a \in Accounts : OtherTransaction(ch, a)
  \/ \E c \in Clients : GrantPermission(c) \/ RevokePermission(c)
  \/ \E g \in granted : GrantLapses(g.number)

Next == \/ \E r \in Requests, p \in Params : Arrive(r, p)
        \/ \E r \in Requests : Step(r) \/ Approve(r) \/ Reject(r) \/ Disconnect(r)
        \/ Move /\ Elsewhere

\* The runtime runs every handler that can go on, the node answers or the call
\* to it fails, and ApprovalBroker's DecidesOnce ends every prompt.
Fairness == \A r \in Requests : WF_vars(Step(r)) /\ WF_vars(Approve(r) \/ Reject(r))

Spec == Init /\ [][Next]_vars /\ Fairness
--------------------------------------------------------------------------------
(* Properties *)

Client(r) == flow[r].param.client
Method(r) == flow[r].param.method
Of(set, r) == {x \in set : x.req = r}

\* What is done for a request the user approved is what the prompt showed, the
\* network included, whatever was switched while it was on screen; and nothing
\* is broadcast to another network than it was signed for, or for a caller that
\* asked for a signature only (resolve_chain, sign_and_submit).
DoneAsShown ==
  /\ \A e \in effects : flow[e.req].decision = "approved" =>
       [from |-> e.from, to |-> e.to, chain |-> e.chain] \in flow[e.req].shown
  /\ \A t \in landed : t.on = t.tx.chain /\ t.tx \in effects /\ flow[t.tx.req].param.submit

\* Every effect was approved by the user, or by a grant the user gave to this
\* very client; a grant never stands in for funding, for a further grant or for
\* a change of the wallet's own settings (gated_approval).
ConsentBehindEverything ==
  \A e \in effects :
    \/ flow[e.req].decision = "approved"
    \/ /\ flow[e.req].decision = "auto"
       /\ Method(e.req) \notin {"fund", "grant", "switch", "watch"}
       /\ \E g \in granted : /\ g.number = flow[e.req].snap
                             /\ g.client = Client(e.req)
                             /\ g.by = Desktop \/ flow[g.by].decision = "approved"

\* An agent's request touches the agent's own accounts, as sender or, when the
\* manager pays, as recipient (scoped_for, handle_request_funding).
AgentsReachOwnAccounts ==
  \A e \in effects : PlanOf(e.req).account /\ Client(e.req) \notin Apps =>
    /\ e.to # Manager /\ Owner[e.to] = Client(e.req)
    /\ e.from = e.to \/ (Method(e.req) = "fund" /\ e.from = Manager)

\* The log says ok exactly of what was done, and on the chain if that was
\* asked; it says rejected only of what left no trace (LogEntry).
LogTellsTheTruth ==
  \A l \in log :
    /\ l.outcome = "ok" => Of(effects, l.req) # {}
    /\ l.outcome = "ok" /\ flow[l.req].param.submit => \E t \in landed : t.tx.req = l.req
    /\ l.decision = "rejected" => Of(effects, l.req) = {} /\ flow[l.req].decision = "rejected"

\* Every request is answered and logged, or its caller has gone.
AnsweredOrGone == \A r \in Requests : At(r, "verify") ~> flow[r].pc \in {"done", "gone"}

\* Types, and consent behind what is done, with grants that other requests ask for (gated_approval).
Consistent == TypeOK /\ ConsentBehindEverything

\* What is done for a request is consented to, and an agent's stays with the agent's accounts (gated_approval, scoped_for).
Permitted == ConsentBehindEverything /\ AgentsReachOwnAccounts
================================================================================
