---------------------------- MODULE RequestFlowProofs ----------------------------
(***************************************************************************)
(* Theorems about RequestFlow, for any number of requests, clients,        *)
(* accounts and networks: consent, what was shown and the log.             *)
(***************************************************************************)
EXTENDS RequestFlow, FiniteSetTheorems, TLAPS

--------------------------------------------------------------------------------
(* The inductive invariant.                                                     *)

\* Before the decision, and after the handler.
Undecided == {"idle", "verify", "resolve", "precheck", "quote", "gate", "prompt"}
Ended == {"reply", "done", "gone"}

\* What holds of one handler by itself: the decision comes once and late, the
\* account is in the caller's scope from the moment it is resolved, and what the
\* prompt showed is what the handler still holds.
Sound(f) ==
  /\ f.pc \in Undecided => f.decision = "none" /\ f.result = "none"
  /\ f.pc \in {"idle", "verify"} => f.snap = 0
  /\ f.pc = "resolve" => Plan[f.param.method].account
  /\ f.pc \in {"precheck", "quote"} => Plan[f.param.method].onchain
  /\ f.pc \in {"precheck", "quote", "gate", "prompt", "act", "submit"} /\ Plan[f.param.method].account =>
       /\ f.acct \in Scope(f.param.client)
       /\ Plan[f.param.method].onchain => f.chain \in Chains
  /\ f.pc = "prompt" \/ f.decision = "approved" => f.shown = {Summary(f)}
  /\ f.decision = "auto" => Plan[f.param.method].gated /\ f.snap # 0
  /\ f.pc \in {"act", "submit"} => f.decision \in {"auto", "approved"} /\ f.result = "none"
  /\ f.pc = "submit" => f.param.submit
  /\ f.pc \in {"reply", "done"} => f.result # "none"
  /\ f.result = "refused" => f.decision = "rejected"

\* The number n is a grant of client c.
Given(n, c) == \E g \in granted : g.number = n /\ g.client = c

\* A grant that a request asked for was approved by the user, for good.
GrantsAsked == \A g \in granted : g.by # Desktop =>
                 flow[g.by].decision = "approved" /\ flow[g.by].pc \in Ended

GrantsReal ==
  /\ \A c \in Clients : grants[c] # 0 => Given(grants[c], c)
  /\ \A r \in Requests : flow[r].snap # 0 => Given(flow[r].snap, flow[r].param.client)

\* An effect is its request's own, and that request will not change any more.
EffectsOwn == \A e \in effects :
  /\ flow[e.req].pc \in {"submit"} \cup Ended
  /\ flow[e.req].decision \in {"auto", "approved"}
  /\ e = Signed(e.req)
  /\ PlanOf(e.req).account => flow[e.req].acct \in Scope(flow[e.req].param.client)

LandedOwn == \A t \in landed :
  /\ t.tx \in effects /\ t.on = t.tx.chain
  /\ flow[t.tx.req].param.submit /\ flow[t.tx.req].pc \in Ended

\* A request that says ok has done what it was asked for.
OkIsDone == \A r \in Requests :
  /\ flow[r].pc = "submit" \/ flow[r].result = "ok" => Signed(r) \in effects
  /\ flow[r].result = "ok" /\ flow[r].param.submit => \E t \in landed : t.tx.req = r

LogIsResult == \A l \in log :
  /\ flow[l.req].pc = "done" /\ l.outcome = flow[l.req].result
  /\ l.decision = DecisionLabel(flow[l.req].result)

FlowInv ==
  /\ TypeOK /\ IsFiniteSet(granted)
  /\ \A r \in Requests : Sound(flow[r])
  /\ GrantsAsked /\ GrantsReal /\ EffectsOwn /\ LandedOwn /\ OkIsDone /\ LogIsResult

--------------------------------------------------------------------------------
(* The parameters and the parts of a handler's state.                           *)

\* What the table of the handlers says of each of them.
LEMMA PlanFacts ==
  ASSUME NEW m \in DOMAIN Plan
  PROVE  /\ Plan[m].account \in BOOLEAN /\ Plan[m].onchain \in BOOLEAN /\ Plan[m].gated \in BOOLEAN
         /\ Plan[m].onchain => Plan[m].account
         /\ m \in {"fund", "grant", "switch", "watch"} => ~Plan[m].gated
         /\ m \in {"create", "grant", "switch", "watch"} => ~Plan[m].account
         /\ m = "fund" => Plan[m].account
<1>1. SignTypedData.account = TRUE /\ SignTypedData.onchain = FALSE /\ SignTypedData.gated = TRUE
  BY DEF SignTypedData
<1>2. AddInvoke.account = TRUE /\ AddInvoke.onchain = TRUE /\ AddInvoke.gated = TRUE
  BY <1>1 DEF AddInvoke, SignTypedData
<1>3. DeployAccount.account = TRUE /\ DeployAccount.onchain = TRUE /\ DeployAccount.gated = TRUE
  BY DEF DeployAccount, AddInvoke, SignTypedData
<1>4. RequestFunding.account = TRUE /\ RequestFunding.onchain = TRUE /\ RequestFunding.gated = FALSE
  BY DEF RequestFunding, AddInvoke, SignTypedData
<1>5. CreateAgentAccount.account = FALSE /\ CreateAgentAccount.onchain = FALSE /\ CreateAgentAccount.gated = TRUE
  BY DEF CreateAgentAccount, SignTypedData
<1>6. RequestGrant.account = FALSE /\ RequestGrant.onchain = FALSE /\ RequestGrant.gated = FALSE
  BY DEF RequestGrant, SignTypedData
<1>7. /\ Plan["sign"] = SignTypedData /\ Plan["invoke"] = AddInvoke /\ Plan["declare"] = AddInvoke
      /\ Plan["prove"] = AddInvoke /\ Plan["deploy"] = DeployAccount /\ Plan["fund"] = RequestFunding
      /\ Plan["create"] = CreateAgentAccount /\ Plan["grant"] = RequestGrant
      /\ Plan["switch"] = RequestGrant /\ Plan["watch"] = RequestGrant
  BY DEF Plan, AddDeclare, SignAndProve, SwitchChain, WatchAsset
<1>8. m \in {"sign", "invoke", "declare", "prove", "deploy", "fund", "create", "grant", "switch", "watch"}
  BY DEF Plan
<1> QED BY <1>1, <1>2, <1>3, <1>4, <1>5, <1>6, <1>7, <1>8

LEMMA ParamFacts ==
  ASSUME NEW p \in Params
  PROVE  /\ p.client \in Clients /\ p.method \in DOMAIN Plan /\ p.method \in Methods
         /\ p.to \in Chains \cup {Default} /\ p.submit \in BOOLEAN /\ p.offline \in BOOLEAN
         /\ p.submit => Plan[p.method].onchain
         /\ p.method = "switch" => p.to \in Chains
<1>1. p.method = "switch" => ~Plan[p.method].account /\ ~Plan[p.method].onchain
  BY PlanFacts, ConstantsAssumption DEF Params
<1> QED BY <1>1, ConstantsAssumption DEF Params

LEMMA SomeParams == (CHOOSE p \in Params : TRUE) \in Params
<1>1. PICK m \in Methods, c \in Clients, ch \in Chains : TRUE
  BY ConstantsAssumption
<1> DEFINE p == [client |-> c, method |-> m, to |-> IF m = "switch" THEN ch ELSE Default,
                 submit |-> FALSE, offline |-> FALSE]
<1>2. p \in Params
  BY <1>1, ConstantsAssumption DEF Params
<1> QED BY <1>2

LEMMA ScopeFacts ==
  ASSUME NEW c \in Clients, NEW a \in Scope(c)
  PROVE  /\ a \in Accounts
         /\ c \notin Apps => a # Manager /\ Owner[a] = c
BY ConstantsAssumption DEF Scope

LEMMA LocalsFacts ==
  ASSUME NEW f \in Locals
  PROVE  /\ f.param \in Params /\ f.snap \in Nat /\ f.acct \in Accounts
         /\ f.chain \in Chains \cup {Default} /\ f.nonce \in 0..MaxNonce
         /\ Sender(f) \in Accounts
BY ConstantsAssumption DEF Locals, Sender

LEMMA SignedTyped ==
  ASSUME TypeOK, NEW r \in Requests
  PROVE  /\ Signed(r) \in Effect /\ Signed(r).req = r /\ flow[r] \in Locals
         /\ Summary(flow[r]) = [from |-> Signed(r).from, to |-> Signed(r).to, chain |-> Signed(r).chain]
<1>1. flow[r] \in Locals BY DEF TypeOK
<1> QED BY <1>1, LocalsFacts DEF Signed, Effect, Summary

--------------------------------------------------------------------------------
(* One handler moves.                                                           *)

\* Handler r moves to f, and no other handler moves.
Moves(r, f) == /\ f \in Locals /\ flow' \in [Requests -> Locals]
               /\ flow'[r] = f /\ \A q \in Requests \ {r} : flow'[q] = flow[q]

LEMMA MovesTo ==
  ASSUME TypeOK, NEW r \in Requests, NEW f \in Locals, flow' = [flow EXCEPT ![r] = f]
  PROVE  Moves(r, f)
BY DEF TypeOK, Moves

\* What handlers that do not move, or end what they had begun, keep.
LEMMA OthersKeep ==
  ASSUME FlowInv, NEW r \in Requests, NEW f, Moves(r, f),
         flow[r].decision = "approved" => f.decision = "approved" /\ (flow[r].pc \in Ended => f.pc \in Ended)
  PROVE  \A g \in granted : g.by # Desktop => flow'[g.by].decision = "approved" /\ flow'[g.by].pc \in Ended
<1> SUFFICES ASSUME NEW g \in granted, g.by # Desktop
             PROVE  flow'[g.by].decision = "approved" /\ flow'[g.by].pc \in Ended
  OBVIOUS
<1>1. g.by \in Requests BY DEF FlowInv, TypeOK
<1>2. flow[g.by].decision = "approved" /\ flow[g.by].pc \in Ended BY DEF FlowInv, GrantsAsked
<1> QED BY <1>1, <1>2 DEF Moves

\* A step that leaves the request undecided, or decides it, and touches nothing else.
LEMMA ReadingKeeps ==
  ASSUME FlowInv, NEW r \in Requests, NEW f, Moves(r, f), Sound(f),
         flow[r].pc \in Undecided, f.pc \notin {"submit", "done"}, f.result # "ok",
         f.snap # 0 => Given(f.snap, f.param.client),
         UNCHANGED <<wallet, permission, world, effects, log, moves>>
  PROVE  FlowInv'
<1>1. /\ flow' \in [Requests -> Locals] /\ flow'[r] = f /\ f \in Locals
      /\ \A q \in Requests \ {r} : flow'[q] = flow[q]
  BY DEF Moves
<1>2. /\ unlocked' = unlocked /\ active' = active /\ nodes' = nodes /\ grants' = grants
      /\ granted' = granted /\ lapsed' = lapsed /\ nonces' = nonces /\ landed' = landed
      /\ effects' = effects /\ log' = log /\ moves' = moves
  BY DEF wallet, permission, world
<1>3. flow[r].decision = "none" /\ flow[r].result = "none" /\ flow[r].pc \notin {"submit"} \cup Ended
  BY DEF FlowInv, Sound, Undecided, Ended
<1>4. TypeOK' /\ IsFiniteSet(granted')
  BY <1>1, <1>2 DEF FlowInv, TypeOK
<1>5. \A q \in Requests : Sound(flow'[q])
  BY <1>1 DEF FlowInv
<1>6. GrantsAsked'
  BY <1>2, <1>3, OthersKeep DEF GrantsAsked
<1>7. GrantsReal'
  BY <1>1, <1>2 DEF FlowInv, GrantsReal, Given
<1>8. \A e \in effects : e.req \in Requests \ {r} /\ Signed(e.req)' = Signed(e.req)
  BY <1>1, <1>3 DEF FlowInv, TypeOK, Effect, EffectsOwn, Signed
<1>9. EffectsOwn'
  BY <1>1, <1>2, <1>8 DEF FlowInv, EffectsOwn, PlanOf
<1>10. LandedOwn'
  BY <1>1, <1>2, <1>8 DEF FlowInv, LandedOwn
<1>11. OkIsDone'
  <2>1. \A q \in Requests \ {r} : Signed(q)' = Signed(q) BY <1>1 DEF Signed
  <2> QED BY <1>1, <1>2, <2>1 DEF FlowInv, OkIsDone
<1>12. LogIsResult'
  <2>1. \A l \in log : l.req \in Requests \ {r}
    BY <1>3 DEF FlowInv, TypeOK, LogIsResult, Ended
  <2> QED BY <1>1, <1>2, <2>1 DEF FlowInv, LogIsResult
<1> QED BY <1>4, <1>5, <1>6, <1>7, <1>9, <1>10, <1>11, <1>12 DEF FlowInv

LEMMA GotoMoves ==
  ASSUME TypeOK, NEW r \in Requests, NEW pc, Goto(r, pc),
         pc \in {"idle", "verify", "resolve", "precheck", "quote", "gate", "prompt", "act", "submit", "reply",
                 "done", "gone"}
  PROVE  Moves(r, [flow[r] EXCEPT !.pc = pc])
<1>1. flow[r] \in Locals BY DEF TypeOK
<1>2. [flow[r] EXCEPT !.pc = pc] \in Locals BY <1>1 DEF Locals
<1>3. flow' = [flow EXCEPT ![r] = [flow[r] EXCEPT !.pc = pc]] BY DEF Goto
<1> QED BY <1>2, <1>3, MovesTo

LEMMA FinishMoves ==
  ASSUME TypeOK, NEW r \in Requests, NEW result \in {"ok", "refused", "error"}, Finish(r, result)
  PROVE  Moves(r, [flow[r] EXCEPT !.pc = "reply", !.result = result])
<1> DEFINE f == [flow[r] EXCEPT !.pc = "reply", !.result = result]
<1>1. flow[r] \in Locals BY DEF TypeOK
<1>2. f \in Locals BY <1>1 DEF Locals
<1>3. flow' = [flow EXCEPT ![r] = f] BY <1>1 DEF Finish, TypeOK, Locals
<1> QED BY <1>2, <1>3, MovesTo

\* An error before the decision.
LEMMA ErrorKeeps ==
  ASSUME FlowInv, NEW r \in Requests, flow[r].pc \in Undecided, Finish(r, "error"),
         UNCHANGED <<wallet, permission, world, effects, log, moves>>
  PROVE  FlowInv'
<1> DEFINE f == [flow[r] EXCEPT !.pc = "reply", !.result = "error"]
<1>1. Moves(r, f) BY FinishMoves DEF FlowInv
<1>2. flow[r] \in Locals /\ Sound(flow[r]) BY DEF FlowInv, TypeOK
<1>3. Sound(f) BY <1>2 DEF Sound, Undecided, Locals
<1>4. f.snap # 0 => Given(f.snap, f.param.client) BY <1>2 DEF FlowInv, GrantsReal, Locals
<1>5. f.pc \notin {"submit", "done"} /\ f.result # "ok" BY <1>2 DEF Locals
<1> HIDE DEF f
<1> QED BY <1>1, <1>3, <1>4, <1>5, ReadingKeeps

--------------------------------------------------------------------------------
(* The steps up to the decision.                                                *)

LEMMA ArriveKeeps == ASSUME FlowInv, NEW r \in Requests, NEW p \in Params, Arrive(r, p) PROVE FlowInv'
<1> DEFINE f == [flow[r] EXCEPT !.pc = "verify", !.param = p]
<1>1. flow[r] \in Locals /\ Sound(flow[r]) /\ flow[r].pc = "idle" BY DEF FlowInv, TypeOK, Arrive, At
<1>2. f \in Locals BY <1>1 DEF Locals
<1>3. flow' = [flow EXCEPT ![r] = f] BY <1>1 DEF Arrive, Locals
<1>4. Moves(r, f) BY <1>2, <1>3, MovesTo DEF FlowInv
<1>5. Sound(f) /\ f.snap = 0 /\ f.pc = "verify" /\ f.result = "none" BY <1>1 DEF Sound, Undecided, Locals
<1>6. UNCHANGED <<wallet, permission, world, effects, log, moves>> BY DEF Arrive
<1> HIDE DEF f
<1> QED BY <1>1, <1>4, <1>5, <1>6, ReadingKeeps DEF Undecided

LEMMA VerifyKeeps == ASSUME FlowInv, NEW r \in Requests, Verify(r) PROVE FlowInv'
<1> DEFINE f == [flow[r] EXCEPT !.pc = IF PlanOf(r).account THEN "resolve" ELSE "gate",
                                !.snap = grants[flow[r].param.client]]
<1>1. flow[r] \in Locals /\ Sound(flow[r]) /\ flow[r].pc = "verify" BY DEF FlowInv, TypeOK, Verify, At
<1>2. UNCHANGED <<wallet, permission, world, effects, log, moves>> BY DEF Verify
<1>3. flow[r].param \in Params /\ flow[r].param.client \in Clients /\ flow[r].param.method \in DOMAIN Plan
  BY <1>1, LocalsFacts, ParamFacts
<1>4. CASE Finish(r, "error") BY <1>1, <1>2, <1>4, ErrorKeeps DEF Undecided
<1>5. CASE flow' = [flow EXCEPT ![r].pc = IF PlanOf(r).account THEN "resolve" ELSE "gate",
                                ![r].snap = grants[flow[r].param.client]]
  <2>1. grants[flow[r].param.client] \in Nat BY <1>3 DEF FlowInv, TypeOK
  <2>2. f \in Locals BY <1>1, <2>1 DEF Locals
  <2>3. flow' = [flow EXCEPT ![r] = f] BY <1>1, <1>5 DEF Locals
  <2>4. Moves(r, f) BY <2>2, <2>3, MovesTo DEF FlowInv
  <2>5. /\ f.pc = (IF PlanOf(r).account THEN "resolve" ELSE "gate") /\ f.snap = grants[flow[r].param.client]
        /\ f.param = flow[r].param /\ f.decision = flow[r].decision /\ f.result = flow[r].result
    BY <1>1 DEF Locals
  <2>6. Sound(f)
    <3> HIDE DEF f
    <3> QED BY <1>1, <1>3, <2>5, PlanFacts DEF Sound, Undecided, PlanOf
  <2>7. f.snap # 0 => Given(f.snap, f.param.client) BY <1>3, <2>5 DEF FlowInv, GrantsReal
  <2>8. f.pc \notin {"submit", "done"} /\ f.result # "ok" BY <1>1, <2>5 DEF Sound, Undecided
  <2> HIDE DEF f
  <2> QED BY <1>1, <1>2, <2>4, <2>6, <2>7, <2>8, ReadingKeeps DEF Undecided
<1> QED BY <1>4, <1>5 DEF Verify

LEMMA ResolveKeeps == ASSUME FlowInv, NEW r \in Requests, Resolve(r) PROVE FlowInv'
<1>1. flow[r] \in Locals /\ Sound(flow[r]) /\ flow[r].pc = "resolve" BY DEF FlowInv, TypeOK, Resolve, At
<1>2. UNCHANGED <<wallet, permission, world, effects, log, moves>> BY DEF Resolve
<1>3. /\ flow[r].param \in Params /\ flow[r].param.client \in Clients /\ flow[r].param.method \in DOMAIN Plan
      /\ flow[r].param.to \in Chains \cup {Default} /\ active \in Chains
  BY <1>1, LocalsFacts, ParamFacts DEF FlowInv, TypeOK
<1>4. CASE Finish(r, "error") BY <1>1, <1>2, <1>4, ErrorKeeps DEF Undecided
<1>5. ASSUME NEW a \in Scope(flow[r].param.client),
             flow' = [flow EXCEPT
               ![r].pc = IF PlanOf(r).onchain THEN "precheck" ELSE "gate",
               ![r].acct = a,
               ![r].chain = IF PlanOf(r).onchain /\ flow[r].param.to = Default
                            THEN active ELSE flow[r].param.to]
      PROVE  FlowInv'
  <2> DEFINE f == [flow[r] EXCEPT !.pc = IF PlanOf(r).onchain THEN "precheck" ELSE "gate", !.acct = a,
                                  !.chain = IF PlanOf(r).onchain /\ flow[r].param.to = Default
                                            THEN active ELSE flow[r].param.to]
  <2>1. a \in Accounts BY <1>3, <1>5, ScopeFacts
  <2>2. f \in Locals BY <1>1, <1>3, <2>1 DEF Locals
  <2>3. flow' = [flow EXCEPT ![r] = f] BY <1>1, <1>5 DEF Locals
  <2>4. Moves(r, f) BY <2>2, <2>3, MovesTo DEF FlowInv
  <2>5. /\ f.pc = (IF PlanOf(r).onchain THEN "precheck" ELSE "gate") /\ f.acct = a /\ f.snap = flow[r].snap
        /\ PlanOf(r).onchain => f.chain \in Chains
        /\ f.param = flow[r].param /\ f.decision = flow[r].decision /\ f.result = flow[r].result
    BY <1>1, <1>3 DEF Locals
  <2>6. Sound(f)
    <3> HIDE DEF f
    <3> QED BY <1>1, <1>3, <1>5, <2>5, PlanFacts DEF Sound, Undecided, PlanOf
  <2>7. f.snap # 0 => Given(f.snap, f.param.client) BY <1>3, <2>5 DEF FlowInv, GrantsReal
  <2>8. f.pc \notin {"submit", "done"} /\ f.result # "ok" BY <1>1, <2>5 DEF Sound, Undecided
  <2> HIDE DEF f
  <2> QED BY <1>1, <1>2, <2>4, <2>6, <2>7, <2>8, ReadingKeeps DEF Undecided
<1> QED BY <1>4, <1>5 DEF Resolve

LEMMA PrecheckKeeps == ASSUME FlowInv, NEW r \in Requests, Precheck(r) PROVE FlowInv'
<1> DEFINE f == [flow[r] EXCEPT !.pc = "quote"]
<1>1. flow[r] \in Locals /\ Sound(flow[r]) /\ flow[r].pc = "precheck" BY DEF FlowInv, TypeOK, Precheck, At
<1>2. UNCHANGED <<wallet, permission, world, effects, log, moves>> BY DEF Precheck
<1>3. CASE Finish(r, "error") BY <1>1, <1>2, <1>3, ErrorKeeps DEF Undecided
<1>4. CASE Goto(r, "quote")
  <2>1. Moves(r, f) BY <1>4, GotoMoves DEF FlowInv
  <2>2. Sound(f) BY <1>1 DEF Sound, Undecided, Locals, Summary, Sender
  <2>3. f.snap # 0 => Given(f.snap, f.param.client) BY <1>1 DEF FlowInv, GrantsReal, Locals
  <2>4. f.pc \notin {"submit", "done"} /\ f.result # "ok" BY <1>1 DEF Sound, Undecided, Locals
  <2> HIDE DEF f
  <2> QED BY <1>1, <1>2, <2>1, <2>2, <2>3, <2>4, ReadingKeeps DEF Undecided
<1> QED BY <1>3, <1>4 DEF Precheck

LEMMA QuoteKeeps == ASSUME FlowInv, NEW r \in Requests, Quote(r) PROVE FlowInv'
<1>1. flow[r] \in Locals /\ Sound(flow[r]) /\ flow[r].pc = "quote" BY DEF FlowInv, TypeOK, Quote, At
<1>2. UNCHANGED <<wallet, permission, world, effects, log, moves>> BY DEF Quote
<1>3. CASE Finish(r, "error") BY <1>1, <1>2, <1>3, ErrorKeeps DEF Undecided
<1>4. ASSUME NEW n \in 0..MaxNonce, flow' = [flow EXCEPT ![r].pc = "gate", ![r].nonce = n] PROVE FlowInv'
  <2> DEFINE f == [flow[r] EXCEPT !.pc = "gate", !.nonce = n]
  <2>1. f \in Locals BY <1>1 DEF Locals
  <2>2. flow' = [flow EXCEPT ![r] = f] BY <1>1, <1>4 DEF Locals
  <2>3. Moves(r, f) BY <2>1, <2>2, MovesTo DEF FlowInv
  <2>4. Sound(f) BY <1>1, LocalsFacts, ParamFacts, PlanFacts DEF Sound, Undecided, Locals
  <2>5. f.snap # 0 => Given(f.snap, f.param.client) BY <1>1 DEF FlowInv, GrantsReal, Locals
  <2>6. f.pc \notin {"submit", "done"} /\ f.result # "ok" BY <1>1 DEF Sound, Undecided, Locals
  <2> HIDE DEF f
  <2> QED BY <1>1, <1>2, <2>3, <2>4, <2>5, <2>6, ReadingKeeps DEF Undecided
<1>5. /\ flow[r].param.method \in DOMAIN Plan /\ Sender(flow[r]) \in Accounts
      /\ flow[r].chain \in Chains
  BY <1>1, LocalsFacts, ParamFacts, PlanFacts DEF Sound
<1>6. {0} \subseteq 0..MaxNonce /\ nonces[flow[r].chain][Sender(flow[r])] \in 0..MaxNonce
  BY <1>5, ConstantsAssumption DEF FlowInv, TypeOK
<1> QED BY <1>3, <1>4, <1>6 DEF Quote

LEMMA GateKeeps == ASSUME FlowInv, NEW r \in Requests, Gate(r) PROVE FlowInv'
<1>1. flow[r] \in Locals /\ Sound(flow[r]) /\ flow[r].pc = "gate" BY DEF FlowInv, TypeOK, Gate, At
<1>2. UNCHANGED <<wallet, permission, world, effects, log, moves>> BY DEF Gate
<1>3. /\ flow[r].decision = "none" /\ flow[r].result = "none"
      /\ flow[r].snap # 0 => Given(flow[r].snap, flow[r].param.client)
  BY <1>1 DEF FlowInv, GrantsReal, Sound, Undecided
<1>4. CASE PlanOf(r).gated /\ GrantActive(flow[r])
  <2> DEFINE f == [flow[r] EXCEPT !.pc = "act", !.decision = "auto"]
  <2>1. f \in Locals BY <1>1 DEF Locals
  <2>2. flow' = [flow EXCEPT ![r] = f] BY <1>1, <1>4 DEF Locals, Gate
  <2>3. Moves(r, f) BY <2>1, <2>2, MovesTo DEF FlowInv
  <2>4. Sound(f) BY <1>1, <1>3, <1>4 DEF Sound, Undecided, Locals, GrantActive, PlanOf
  <2>5. f.snap # 0 => Given(f.snap, f.param.client) BY <1>1, <1>3 DEF Locals
  <2>6. f.pc \notin {"submit", "done"} /\ f.result # "ok" BY <1>1, <1>3 DEF Locals
  <2> HIDE DEF f
  <2> QED BY <1>1, <1>2, <2>3, <2>4, <2>5, <2>6, ReadingKeeps DEF Undecided
<1>5. CASE ~(PlanOf(r).gated /\ GrantActive(flow[r]))
  <2> DEFINE f == [flow[r] EXCEPT !.pc = "prompt", !.shown = {Summary(flow[r])}]
  <2>1. Summary(flow[r]) \in [from : Accounts, to : Accounts, chain : Chains \cup {Default}]
    BY <1>1, LocalsFacts DEF Summary
  <2>2. f \in Locals BY <1>1, <2>1 DEF Locals
  <2>3. flow' = [flow EXCEPT ![r] = f] BY <1>1, <1>5 DEF Locals, Gate
  <2>4. Moves(r, f) BY <2>2, <2>3, MovesTo DEF FlowInv
  <2>5. Summary(f) = Summary(flow[r]) BY <1>1 DEF Summary, Sender, Locals
  <2>6. /\ f.pc = "prompt" /\ f.decision = "none" /\ f.result = "none" /\ f.shown = {Summary(flow[r])}
        /\ f.param = flow[r].param /\ f.acct = flow[r].acct /\ f.chain = flow[r].chain /\ f.snap = flow[r].snap
    BY <1>1, <1>3 DEF Locals
  <2> HIDE DEF f
  <2>7. Sound(f) BY <1>1, <2>5, <2>6 DEF Sound, Undecided
  <2> QED BY <1>1, <1>2, <1>3, <2>4, <2>6, <2>7, ReadingKeeps DEF Undecided
<1> QED BY <1>4, <1>5

LEMMA ApproveKeeps == ASSUME FlowInv, NEW r \in Requests, Approve(r) PROVE FlowInv'
<1> DEFINE f == [flow[r] EXCEPT !.pc = "act", !.decision = "approved"]
<1>1. flow[r] \in Locals /\ Sound(flow[r]) /\ flow[r].pc = "prompt" BY DEF FlowInv, TypeOK, Approve, At
<1>2. UNCHANGED <<wallet, permission, world, effects, log, moves>> BY DEF Approve
<1>3. f \in Locals BY <1>1 DEF Locals
<1>4. flow' = [flow EXCEPT ![r] = f] BY <1>1 DEF Locals, Approve
<1>5. Moves(r, f) BY <1>3, <1>4, MovesTo DEF FlowInv
<1>6. Summary(f) = Summary(flow[r]) BY <1>1 DEF Summary, Sender, Locals
<1>7. /\ f.pc = "act" /\ f.decision = "approved" /\ f.result = flow[r].result /\ f.shown = flow[r].shown
      /\ f.param = flow[r].param /\ f.acct = flow[r].acct /\ f.chain = flow[r].chain /\ f.snap = flow[r].snap
  BY <1>1 DEF Locals
<1> HIDE DEF f
<1>8. Sound(f) /\ f.result = "none" BY <1>1, <1>6, <1>7 DEF Sound, Undecided
<1>9. f.snap # 0 => Given(f.snap, f.param.client) BY <1>7 DEF FlowInv, GrantsReal
<1> QED BY <1>1, <1>2, <1>5, <1>7, <1>8, <1>9, ReadingKeeps DEF Undecided

LEMMA RejectKeeps == ASSUME FlowInv, NEW r \in Requests, Reject(r) PROVE FlowInv'
<1> DEFINE f == [flow[r] EXCEPT !.pc = "reply", !.decision = "rejected", !.result = "refused"]
<1>1. flow[r] \in Locals /\ Sound(flow[r]) /\ flow[r].pc = "prompt" BY DEF FlowInv, TypeOK, Reject, At
<1>2. UNCHANGED <<wallet, permission, world, effects, log, moves>> BY DEF Reject
<1>3. f \in Locals BY <1>1 DEF Locals
<1>4. flow' = [flow EXCEPT ![r] = f] BY <1>1 DEF Locals, Reject
<1>5. Moves(r, f) BY <1>3, <1>4, MovesTo DEF FlowInv
<1>6. Sound(f) BY <1>1 DEF Sound, Undecided, Locals
<1>7. f.snap # 0 => Given(f.snap, f.param.client) BY <1>1 DEF FlowInv, GrantsReal, Locals
<1>8. f.pc \notin {"submit", "done"} /\ f.result # "ok" BY <1>1 DEF Locals
<1> HIDE DEF f
<1> QED BY <1>1, <1>2, <1>5, <1>6, <1>7, <1>8, ReadingKeeps DEF Undecided

--------------------------------------------------------------------------------
(* The steps after the decision.                                                *)

\* The handler goes on, or ends, with what it has.
Carries(r, f) ==
  /\ f.param = flow[r].param /\ f.snap = flow[r].snap /\ f.acct = flow[r].acct /\ f.chain = flow[r].chain
  /\ f.nonce = flow[r].nonce /\ f.shown = flow[r].shown /\ f.decision = flow[r].decision
  /\ f.pc \in {"submit"} \cup Ended /\ (flow[r].pc \in Ended => f.pc \in Ended) /\ flow[r].pc # "done"

\* What that means for all requests.
CarriedOn(r, f) ==
  /\ \A q \in Requests : /\ Signed(q)' = Signed(q) /\ PlanOf(q)' = PlanOf(q)
                         /\ flow'[q].param = flow[q].param /\ flow'[q].decision = flow[q].decision
                         /\ flow'[q].acct = flow[q].acct /\ flow'[q].snap = flow[q].snap
                         /\ flow[q].pc \in Ended => flow'[q].pc \in Ended
                         /\ flow[q].pc \in {"submit"} \cup Ended => flow'[q].pc \in {"submit"} \cup Ended
  /\ \A q \in Requests \ {r} : flow'[q] = flow[q]
  /\ flow'[r] = f

LEMMA CarriesOn ==
  ASSUME NEW r \in Requests, NEW f, Moves(r, f), Carries(r, f)
  PROVE  CarriedOn(r, f)
BY DEF Moves, Carries, CarriedOn, Signed, Sender, PlanOf

LEMMA PermissionKeeps ==
  ASSUME FlowInv, NEW r \in Requests, NEW f, Moves(r, f), Carries(r, f), UNCHANGED permission
  PROVE  IsFiniteSet(granted') /\ GrantsAsked' /\ GrantsReal'
<1>1. grants' = grants /\ granted' = granted BY DEF permission
<1>2. CarriedOn(r, f) BY CarriesOn
<1>3. \A g \in granted : g.by # Desktop => g.by \in Requests BY DEF FlowInv, TypeOK
<1>4. GrantsAsked' BY <1>1, <1>2, <1>3 DEF FlowInv, GrantsAsked, CarriedOn
<1>5. GrantsReal' BY <1>1, <1>2 DEF FlowInv, GrantsReal, Given, CarriedOn
<1> QED BY <1>1, <1>4, <1>5 DEF FlowInv

LEMMA CarryingKeeps ==
  ASSUME FlowInv, NEW r \in Requests, NEW f, Moves(r, f), Carries(r, f), Sound(f),
         TypeOK', IsFiniteSet(granted'), GrantsAsked', GrantsReal',
         \/ effects' = effects
         \/ effects' = effects \cup {Signed(r)} /\ flow[r].pc = "act",
         \/ landed' = landed
         \/ /\ landed' = landed \cup {[tx |-> Signed(r), on |-> flow[r].chain]}
            /\ Signed(r) \in effects /\ f.param.submit /\ f.pc \in Ended,
         f.pc = "submit" \/ f.result = "ok" => Signed(r) \in effects',
         f.result = "ok" /\ f.param.submit => \E t \in landed' : t.tx.req = r,
         \/ log' = log
         \/ \E l : /\ log' = log \cup {l} /\ l.req = r /\ f.pc = "done"
                   /\ l.outcome = f.result /\ l.decision = DecisionLabel(f.result)
  PROVE  FlowInv'
<1>0. CarriedOn(r, f) BY CarriesOn
<1>1. /\ \A q \in Requests : Signed(q)' = Signed(q) /\ PlanOf(q)' = PlanOf(q) /\ Signed(q).req = q
      /\ \A e \in effects : e.req \in Requests
      /\ \A l \in log : l.req \in Requests
      /\ \A t \in landed : t.tx.req \in Requests
  BY <1>0 DEF FlowInv, TypeOK, Effect, Signed, CarriedOn
<1>2. \A q \in Requests : Sound(flow'[q]) BY <1>0 DEF FlowInv, CarriedOn
<1>3. EffectsOwn'
  <2>1. ASSUME NEW e \in effects
        PROVE  /\ flow'[e.req].pc \in {"submit"} \cup Ended /\ flow'[e.req].decision \in {"auto", "approved"}
               /\ e = Signed(e.req)'
               /\ PlanOf(e.req)'.account => flow'[e.req].acct \in Scope(flow'[e.req].param.client)
    BY <1>1, <2>1, <1>0 DEF FlowInv, EffectsOwn, CarriedOn
  <2>2. ASSUME flow[r].pc = "act"
        PROVE  /\ flow'[r].pc \in {"submit"} \cup Ended /\ flow'[r].decision \in {"auto", "approved"}
               /\ PlanOf(r)'.account => flow'[r].acct \in Scope(flow'[r].param.client)
    <3>1. Sound(flow[r]) BY DEF FlowInv
    <3>2. flow[r].decision \in {"auto", "approved"} BY <2>2, <3>1 DEF Sound
    <3>3. PlanOf(r).account => flow[r].acct \in Scope(flow[r].param.client) BY <2>2, <3>1 DEF Sound, PlanOf
    <3>4. flow'[r].pc \in {"submit"} \cup Ended BY <1>0 DEF Carries, CarriedOn
    <3> QED BY <1>1, <3>2, <3>3, <3>4, <1>0 DEF CarriedOn
  <2> QED BY <1>1, <2>1, <2>2 DEF EffectsOwn
<1>4. LandedOwn'
  <2>1. ASSUME NEW t \in landed
        PROVE  /\ t.tx \in effects' /\ t.on = t.tx.chain
               /\ flow'[t.tx.req].param.submit /\ flow'[t.tx.req].pc \in Ended
    BY <1>1, <2>1, <1>0 DEF FlowInv, LandedOwn, CarriedOn
  <2>2. Signed(r).chain = flow[r].chain BY DEF Signed
  <2> QED BY <1>1, <2>1, <2>2, <1>0 DEF LandedOwn, CarriedOn
<1>5. OkIsDone'
  <2>1. ASSUME NEW q \in Requests \ {r}
        PROVE  /\ flow'[q].pc = "submit" \/ flow'[q].result = "ok" => Signed(q)' \in effects'
               /\ flow'[q].result = "ok" /\ flow'[q].param.submit => \E t \in landed' : t.tx.req = q
    BY <1>1, <2>1, <1>0 DEF FlowInv, OkIsDone, CarriedOn
  <2> QED BY <1>1, <2>1, <1>0 DEF OkIsDone, CarriedOn
<1>6. LogIsResult'
  <2>1. \A l \in log : l.req \in Requests \ {r} BY <1>1 DEF FlowInv, LogIsResult, Carries
  <2>2. \A l \in log : /\ flow'[l.req].pc = "done" /\ l.outcome = flow'[l.req].result
                       /\ l.decision = DecisionLabel(flow'[l.req].result)
    BY <2>1, <1>0 DEF FlowInv, LogIsResult, CarriedOn
  <2> QED BY <2>2, <1>0 DEF LogIsResult, CarriedOn
<1> QED BY <1>2, <1>3, <1>4, <1>5, <1>6 DEF FlowInv

LEMMA DisconnectKeeps == ASSUME FlowInv, NEW r \in Requests, Disconnect(r) PROVE FlowInv'
<1> DEFINE f == [flow[r] EXCEPT !.pc = "gone"]
<1>1. flow[r] \in Locals /\ Sound(flow[r]) /\ flow[r].pc # "done" BY DEF FlowInv, TypeOK, Disconnect
<1>2. /\ unlocked' = unlocked /\ active' = active /\ nodes' = nodes /\ grants' = grants
      /\ granted' = granted /\ lapsed' = lapsed /\ nonces' = nonces /\ landed' = landed
      /\ effects' = effects /\ log' = log /\ moves' = moves
  BY DEF Disconnect, wallet, permission, world
<1>3. Moves(r, f) BY GotoMoves DEF Disconnect, FlowInv
<1>4. Carries(r, f) BY <1>1 DEF Carries, Locals, Ended
<1>5. f.pc = "gone" /\ f.result = flow[r].result /\ f.param = flow[r].param BY <1>1 DEF Locals
<1>6. Sound(f)
  <2>1. Summary(f) = Summary(flow[r]) BY <1>1 DEF Summary, Sender, Locals
  <2> HIDE DEF f
  <2> QED BY <1>1, <1>4, <1>5, <2>1 DEF Sound, Carries, Undecided
<1> HIDE DEF f
<1>7. TypeOK' BY <1>2, <1>3 DEF FlowInv, TypeOK, Moves
<1>8. IsFiniteSet(granted') /\ GrantsAsked' /\ GrantsReal' BY <1>2, <1>3, <1>4, PermissionKeeps DEF permission
<1>9. f.result = "ok" => Signed(r) \in effects /\ (f.param.submit => \E t \in landed : t.tx.req = r)
  BY <1>5 DEF FlowInv, OkIsDone
<1> QED BY <1>2, <1>3, <1>4, <1>5, <1>6, <1>7, <1>8, <1>9, CarryingKeeps

\* The handler ends after its decision.
LEMMA EndingCarries ==
  ASSUME FlowInv, NEW r \in Requests, flow[r].pc \in {"act", "submit"},
         NEW result \in {"ok", "error"}, Finish(r, result),
         NEW f, f = [flow[r] EXCEPT !.pc = "reply", !.result = result]
  PROVE  Moves(r, f) /\ Carries(r, f) /\ Sound(f) /\ f.pc = "reply" /\ f.result = result
<1>1. flow[r] \in Locals /\ Sound(flow[r]) BY DEF FlowInv, TypeOK
<1>2. Moves(r, f) BY FinishMoves DEF FlowInv
<1>3. Carries(r, f) /\ f.pc = "reply" /\ f.result = result BY <1>1 DEF Carries, Locals, Ended
<1>4. Summary(f) = Summary(flow[r]) BY <1>1 DEF Summary, Sender, Locals
<1>5. Sound(f) BY <1>1, <1>3, <1>4 DEF Sound, Carries, Undecided
<1> QED BY <1>2, <1>3, <1>5

\* A new grant is a real one, and the others stay so.
LEMMA GiveGrantKeeps ==
  ASSUME FlowInv, NEW c \in Clients, NEW by \in Requests \cup {Desktop}, GiveGrant(c, by)
  PROVE  /\ IsFiniteSet(granted') /\ grants' \in [Clients -> Nat]
         /\ granted' \subseteq [number : Nat \ {0}, client : Clients, by : Requests \cup {Desktop}]
         /\ granted \subseteq granted' /\ \A g \in granted' \ granted : g.by = by
         /\ \A d \in Clients : grants'[d] # 0 => \E g \in granted' : g.number = grants'[d] /\ g.client = d
<1> DEFINE n == Cardinality(granted) + 1
           g == [number |-> n, client |-> c, by |-> by]
<1>1. n \in Nat \ {0}
  <2>1. IsFiniteSet(granted) BY DEF FlowInv
  <2>2. Cardinality(granted) \in Nat BY <2>1, FS_CardinalityType
  <2> QED BY <2>2
<1>2. grants' = [grants EXCEPT ![c] = n] /\ granted' = granted \cup {g} BY DEF GiveGrant
<1>3. IsFiniteSet(granted') BY <1>2, FS_AddElement DEF FlowInv
<1>4. /\ grants \in [Clients -> Nat]
      /\ granted \subseteq [number : Nat \ {0}, client : Clients, by : Requests \cup {Desktop}]
      /\ \A d \in Clients : grants[d] # 0 => \E h \in granted : h.number = grants[d] /\ h.client = d
  BY DEF FlowInv, TypeOK, GrantsReal, Given
<1>5. g.number = n /\ g.client = c /\ g.by = by OBVIOUS
<1>6. g \in [number : Nat \ {0}, client : Clients, by : Requests \cup {Desktop}] BY <1>1
<1> HIDE DEF n, g
<1>7. ASSUME NEW d \in Clients, grants'[d] # 0 PROVE \E h \in granted' : h.number = grants'[d] /\ h.client = d
  BY <1>2, <1>4, <1>5, <1>7
<1> QED BY <1>1, <1>2, <1>3, <1>4, <1>5, <1>6, <1>7

LEMMA ActKeeps == ASSUME FlowInv, NEW r \in Requests, Act(r) PROVE FlowInv'
<1>1. /\ flow[r] \in Locals /\ Sound(flow[r]) /\ flow[r].pc = "act" /\ flow[r].result = "none"
      /\ flow[r].decision \in {"auto", "approved"}
  BY DEF FlowInv, TypeOK, Act, At, Sound
<1>2. /\ unlocked' = unlocked /\ nodes' = nodes /\ nonces' = nonces /\ landed' = landed
      /\ log' = log /\ moves' = moves
  BY DEF Act, world
<1>3. /\ flow[r].param \in Params /\ flow[r].param.client \in Clients /\ flow[r].param.method \in DOMAIN Plan
      /\ flow[r].param.submit \in BOOLEAN
      /\ flow[r].param.submit => PlanOf(r).account
      /\ flow[r].param.method \in {"create", "grant", "switch", "watch"} => ~PlanOf(r).account
      /\ flow[r].param.method = "grant" => ~PlanOf(r).gated
      /\ flow[r].param.method = "switch" => flow[r].param.to \in Chains
  BY <1>1, LocalsFacts, ParamFacts, PlanFacts DEF PlanOf
<1>4. Signed(r) \in Effect BY SignedTyped DEF FlowInv
<1> DEFINE Ends(result) == [flow[r] EXCEPT !.pc = "reply", !.result = result]
<1>5. ASSUME Finish(r, "error"), effects' = effects, active' = active, UNCHANGED permission PROVE FlowInv'
  <2>1. PICK f : f = Ends("error") OBVIOUS
  <2>2. Moves(r, f) /\ Carries(r, f) /\ Sound(f) /\ f.pc = "reply" /\ f.result = "error"
    BY <1>1, <1>5, <2>1, EndingCarries
  <2>3. TypeOK' BY <1>2, <1>5, <2>2 DEF FlowInv, TypeOK, Moves, permission
  <2>4. IsFiniteSet(granted') /\ GrantsAsked' /\ GrantsReal' BY <1>5, <2>2, PermissionKeeps
  <2> QED BY <1>2, <1>5, <2>2, <2>3, <2>4, CarryingKeeps
<1>6. ASSUME Finish(r, "ok"), effects' = effects \cup {Signed(r)}, active' \in Chains, ~flow[r].param.submit,
             IsFiniteSet(granted'), GrantsAsked', GrantsReal', lapsed' = lapsed,
             grants' \in [Clients -> Nat],
             granted' \subseteq [number : Nat \ {0}, client : Clients, by : Requests \cup {Desktop}]
      PROVE  FlowInv'
  <2>1. PICK f : f = Ends("ok") OBVIOUS
  <2>2. Moves(r, f) /\ Carries(r, f) /\ Sound(f) /\ f.pc = "reply" /\ f.result = "ok"
    BY <1>1, <1>6, <2>1, EndingCarries
  <2>3. f.param = flow[r].param BY <2>2 DEF Carries
  <2>4. TypeOK' BY <1>2, <1>4, <1>6, <2>2 DEF FlowInv, TypeOK, Moves
  <2> QED BY <1>1, <1>2, <1>6, <2>2, <2>3, <2>4, CarryingKeeps
<1>7. ASSUME Finish(r, "ok"), effects' = effects \cup {Signed(r)}, active' \in Chains, ~flow[r].param.submit,
             UNCHANGED permission
      PROVE  FlowInv'
  <2>1. PICK f : f = Ends("ok") OBVIOUS
  <2>2. Moves(r, f) /\ Carries(r, f) BY <1>1, <1>7, <2>1, EndingCarries
  <2>3. IsFiniteSet(granted') /\ GrantsAsked' /\ GrantsReal' BY <1>7, <2>2, PermissionKeeps
  <2>4. /\ lapsed' = lapsed /\ grants' \in [Clients -> Nat]
        /\ granted' \subseteq [number : Nat \ {0}, client : Clients, by : Requests \cup {Desktop}]
    BY <1>7 DEF FlowInv, TypeOK, permission
  <2> QED BY <1>6, <1>7, <2>3, <2>4
<1>8. CASE Sign(r)
  <2>1. active' = active /\ active \in Chains /\ UNCHANGED permission /\ PlanOf(r).account
    BY <1>8 DEF Sign, FlowInv, TypeOK
  <2>2. CASE Finish(r, "error") /\ UNCHANGED effects BY <1>5, <2>1, <2>2
  <2>3. CASE Record(r) /\ ~flow[r].param.submit /\ Finish(r, "ok") BY <1>7, <2>1, <2>3 DEF Record
  <2>4. CASE Record(r) /\ flow[r].param.submit /\ Goto(r, "submit")
    <3>1. PICK f : f = [flow[r] EXCEPT !.pc = "submit"] OBVIOUS
    <3>2. Moves(r, f) BY <2>4, <3>1, GotoMoves DEF FlowInv
    <3>3. f.pc = "submit" /\ f.result = "none" /\ Carries(r, f) /\ f.param = flow[r].param
      BY <1>1, <3>1 DEF Carries, Locals, Ended
    <3>4. Summary(f) = Summary(flow[r]) BY <1>1, <3>1 DEF Summary, Sender, Locals
    <3>5. Sound(f) BY <1>1, <2>4, <3>3, <3>4 DEF Sound, Carries, Undecided
    <3>6. effects' = effects \cup {Signed(r)} BY <2>4 DEF Record
    <3>7. TypeOK' BY <1>2, <1>4, <2>1, <3>2, <3>6 DEF FlowInv, TypeOK, Moves, permission
    <3>8. IsFiniteSet(granted') /\ GrantsAsked' /\ GrantsReal' BY <2>1, <3>2, <3>3, PermissionKeeps
    <3> QED BY <1>1, <1>2, <3>2, <3>3, <3>5, <3>6, <3>7, <3>8, CarryingKeeps
  <2> QED BY <1>3, <1>8, <2>2, <2>3, <2>4 DEF Sign
<1>9. CASE MakeAccount(r)
  <2>1. active' = active /\ active \in Chains /\ UNCHANGED permission /\ ~flow[r].param.submit
    BY <1>3, <1>9 DEF MakeAccount, FlowInv, TypeOK
  <2> QED BY <1>5, <1>7, <1>9, <2>1 DEF MakeAccount, Record
<1>10. CASE GrantRequested(r)
  <2> DEFINE c == flow[r].param.client
  <2>1. /\ GiveGrant(c, r) /\ effects' = effects \cup {Signed(r)} /\ Finish(r, "ok") /\ active' = active
        /\ lapsed' = lapsed /\ ~flow[r].param.submit /\ ~PlanOf(r).gated /\ active \in Chains
    BY <1>3, <1>10 DEF GrantRequested, Record, FlowInv, TypeOK
  <2>2. PICK f : f = Ends("ok") OBVIOUS
  <2>3. Moves(r, f) /\ Carries(r, f) /\ f.pc = "reply" BY <1>1, <2>1, <2>2, EndingCarries
  <2>4. CarriedOn(r, f) BY <2>3, CarriesOn
  <2>5. flow[r].decision = "approved" BY <1>1, <2>1 DEF Sound, PlanOf
  <2>6. /\ IsFiniteSet(granted') /\ grants' \in [Clients -> Nat]
        /\ granted' \subseteq [number : Nat \ {0}, client : Clients, by : Requests \cup {Desktop}]
        /\ granted \subseteq granted' /\ \A g \in granted' \ granted : g.by = r
        /\ \A d \in Clients : grants'[d] # 0 => \E g \in granted' : g.number = grants'[d] /\ g.client = d
    BY <1>3, <2>1, GiveGrantKeeps
  <2>7. GrantsAsked'
    <3>1. ASSUME NEW g \in granted, g.by # Desktop
          PROVE  flow'[g.by].decision = "approved" /\ flow'[g.by].pc \in Ended
      <4>1. g.by \in Requests BY <3>1 DEF FlowInv, TypeOK
      <4> QED BY <2>4, <3>1, <4>1 DEF FlowInv, GrantsAsked, CarriedOn
    <3>2. flow'[r].decision = "approved" /\ flow'[r].pc \in Ended BY <2>3, <2>4, <2>5 DEF CarriedOn, Ended
    <3> QED BY <2>6, <3>1, <3>2 DEF GrantsAsked
  <2>8. GrantsReal'
    <3>1. ASSUME NEW q \in Requests, flow'[q].snap # 0
          PROVE  \E g \in granted' : g.number = flow'[q].snap /\ g.client = flow'[q].param.client
      <4>1. Given(flow[q].snap, flow[q].param.client) BY <2>4, <3>1 DEF FlowInv, GrantsReal, CarriedOn
      <4>2. flow'[q].snap = flow[q].snap /\ flow'[q].param = flow[q].param BY <2>4 DEF CarriedOn
      <4> QED BY <2>6, <4>1, <4>2 DEF Given
    <3> QED BY <2>6, <3>1 DEF GrantsReal, Given
  <2> QED BY <1>6, <2>1, <2>6, <2>7, <2>8
<1>11. CASE SetChain(r)
  <2>1. active' \in Chains /\ UNCHANGED permission /\ ~flow[r].param.submit BY <1>3, <1>11 DEF SetChain
  <2> QED BY <1>7, <1>11, <2>1 DEF SetChain, Record
<1>12. CASE AddWatchedAsset(r)
  <2>1. active' \in Chains /\ UNCHANGED permission /\ ~flow[r].param.submit
    BY <1>3, <1>12 DEF AddWatchedAsset, FlowInv, TypeOK
  <2> QED BY <1>7, <1>12, <2>1 DEF AddWatchedAsset, Record
<1> QED BY <1>8, <1>9, <1>10, <1>11, <1>12 DEF Act

LEMMA SubmitKeeps == ASSUME FlowInv, NEW r \in Requests, Submit(r) PROVE FlowInv'
<1> DEFINE ch == flow[r].chain
           took == [tx |-> Signed(r), on |-> ch]
<1>1. /\ flow[r] \in Locals /\ Sound(flow[r]) /\ flow[r].pc = "submit" /\ flow[r].param.submit
      /\ Signed(r) \in effects
  BY DEF FlowInv, TypeOK, Submit, At, Sound, OkIsDone
<1>2. /\ unlocked' = unlocked /\ active' = active /\ nodes' = nodes /\ grants' = grants /\ granted' = granted
      /\ lapsed' = lapsed /\ effects' = effects /\ log' = log /\ moves' = moves
  BY DEF Submit, wallet, permission
<1>3. PICK result \in {"ok", "error"} : Finish(r, result) /\ (result = "ok" => landed' = landed \cup {took})
  BY DEF Submit
<1>4. PICK f : f = [flow[r] EXCEPT !.pc = "reply", !.result = result] OBVIOUS
<1>5. Moves(r, f) /\ Carries(r, f) /\ Sound(f) /\ f.pc = "reply" /\ f.result = result
  BY <1>1, <1>3, <1>4, EndingCarries
<1>6. f.param = flow[r].param BY <1>5 DEF Carries
<1>7. IsFiniteSet(granted') /\ GrantsAsked' /\ GrantsReal' BY <1>2, <1>5, PermissionKeeps DEF permission
<1>8. Signed(r) \in Effect /\ took.tx = Signed(r) /\ Signed(r).req = r BY SignedTyped DEF FlowInv
<1>9. CASE landed' = landed /\ nonces' = nonces
  <2>1. TypeOK' BY <1>2, <1>5, <1>9 DEF FlowInv, TypeOK, Moves
  <2>2. result = "ok" => \E t \in landed' : t.tx.req = r BY <1>3, <1>8
  <2> HIDE DEF took
  <2> QED BY <1>1, <1>2, <1>5, <1>6, <1>7, <1>9, <2>1, <2>2, CarryingKeeps
<1>10. CASE /\ HasNode(ch) /\ Takes(ch, Signed(r), flow[r].param.method = "deploy")
            /\ nonces' = [nonces EXCEPT ![ch][Signed(r).from] = @ + 1] /\ landed' = landed \cup {took}
  <2>1. ch \in Chains /\ Signed(r).from \in Accounts BY <1>8, <1>10 DEF FlowInv, TypeOK, Effect, HasNode
  <2>2. nonces[ch][Signed(r).from] \in 0..MaxNonce /\ nonces[ch][Signed(r).from] < MaxNonce
    BY <2>1, <1>10 DEF FlowInv, TypeOK, Takes
  <2>3. nonces' \in [Chains -> [Accounts -> 0..MaxNonce]]
    BY <1>10, <2>1, <2>2, ConstantsAssumption DEF FlowInv, TypeOK
  <2>4. landed' \subseteq [tx : Effect, on : Chains] BY <1>8, <1>10, <2>1 DEF FlowInv, TypeOK
  <2>5. TypeOK' BY <1>2, <1>5, <2>3, <2>4 DEF FlowInv, TypeOK, Moves
  <2>6. \E t \in landed' : t.tx.req = r BY <1>8, <1>10
  <2> QED BY <1>1, <1>2, <1>5, <1>6, <1>7, <1>10, <2>5, <2>6, CarryingKeeps DEF Ended
<1> QED BY <1>9, <1>10 DEF Submit, world

LEMMA LogAndReplyKeeps == ASSUME FlowInv, NEW r \in Requests, LogAndReply(r) PROVE FlowInv'
<1> DEFINE l == [req |-> r, network |-> active, decision |-> DecisionLabel(flow[r].result),
                 outcome |-> flow[r].result]
<1>1. flow[r] \in Locals /\ Sound(flow[r]) /\ flow[r].pc = "reply" BY DEF FlowInv, TypeOK, LogAndReply, At
<1>2. /\ unlocked' = unlocked /\ active' = active /\ nodes' = nodes /\ grants' = grants /\ granted' = granted
      /\ lapsed' = lapsed /\ nonces' = nonces /\ landed' = landed /\ effects' = effects /\ moves' = moves
      /\ log' = log \cup {l}
  BY DEF LogAndReply, wallet, permission, world
<1>3. PICK f : f = [flow[r] EXCEPT !.pc = "done"] OBVIOUS
<1>4. Moves(r, f) BY <1>3, GotoMoves DEF LogAndReply, FlowInv
<1>5. f.pc = "done" /\ f.result = flow[r].result /\ f.param = flow[r].param /\ Carries(r, f)
  BY <1>1, <1>3 DEF Carries, Locals, Ended
<1>6. Summary(f) = Summary(flow[r]) BY <1>1, <1>3 DEF Summary, Sender, Locals
<1>7. Sound(f) BY <1>1, <1>5, <1>6 DEF Sound, Carries, Undecided
<1>8. flow[r].result \in {"ok", "refused", "error"} BY <1>1 DEF Sound, Locals
<1>9. /\ l.req = r /\ l.outcome = f.result /\ l.decision = DecisionLabel(f.result)
      /\ l \in [req : Requests, network : Chains, decision : {"approved", "rejected", "n/a"},
                outcome : {"ok", "refused", "error"}]
  BY <1>5, <1>8 DEF DecisionLabel, FlowInv, TypeOK
<1> HIDE DEF l
<1>10. TypeOK' BY <1>2, <1>4, <1>9 DEF FlowInv, TypeOK, Moves
<1>11. IsFiniteSet(granted') /\ GrantsAsked' /\ GrantsReal' BY <1>2, <1>4, <1>5, PermissionKeeps DEF permission
<1>12. f.result = "ok" => Signed(r) \in effects /\ (f.param.submit => \E t \in landed : t.tx.req = r)
  BY <1>5 DEF FlowInv, OkIsDone
<1> QED BY <1>2, <1>4, <1>5, <1>7, <1>9, <1>10, <1>11, <1>12, CarryingKeeps

--------------------------------------------------------------------------------
(* What moves meanwhile.                                                        *)

LEMMA ElsewhereKeeps == ASSUME FlowInv, Move, Elsewhere PROVE FlowInv'
<1>1. moves' \in 0..MaxMoves BY ConstantsAssumption DEF FlowInv, TypeOK, Move
<1>2. flow' = flow /\ effects' = effects /\ landed' = landed /\ log' = log
  BY DEF Elsewhere, LockOrUnlock, SetNetwork, SetNode, OtherTransaction, GrantPermission, RevokePermission,
         GrantLapses, world
<1>3. /\ unlocked' \in BOOLEAN /\ active' \in Chains /\ nodes' \subseteq Chains
      /\ lapsed' \subseteq Nat /\ nonces' \in [Chains -> [Accounts -> 0..MaxNonce]]
  <2>1. CASE LockOrUnlock BY <2>1 DEF LockOrUnlock, FlowInv, TypeOK, permission, world
  <2>2. ASSUME NEW ch \in Chains, SetNetwork(ch) \/ SetNode(ch) PROVE <1>3
    BY <2>2 DEF SetNetwork, SetNode, FlowInv, TypeOK, permission, world
  <2>3. ASSUME NEW ch \in Chains, NEW a \in Accounts, OtherTransaction(ch, a) PROVE <1>3
    <3>1. nonces[ch][a] \in 0..MaxNonce BY DEF FlowInv, TypeOK
    <3>2. nonces' \in [Chains -> [Accounts -> 0..MaxNonce]]
      BY <2>3, <3>1, ConstantsAssumption DEF OtherTransaction, FlowInv, TypeOK
    <3> QED BY <2>3, <3>2 DEF OtherTransaction, FlowInv, TypeOK, wallet, permission
  <2>4. ASSUME NEW c \in Clients, GrantPermission(c) \/ RevokePermission(c) PROVE <1>3
    BY <2>4 DEF GrantPermission, RevokePermission, FlowInv, TypeOK, wallet, world
  <2>5. ASSUME NEW g \in granted, GrantLapses(g.number) PROVE <1>3
    BY <2>5 DEF GrantLapses, FlowInv, TypeOK, wallet, world
  <2> QED BY <2>1, <2>2, <2>3, <2>4, <2>5 DEF Elsewhere
<1>4. /\ IsFiniteSet(granted') /\ grants' \in [Clients -> Nat]
      /\ granted' \subseteq [number : Nat \ {0}, client : Clients, by : Requests \cup {Desktop}]
      /\ granted \subseteq granted' /\ \A g \in granted' \ granted : g.by = Desktop
      /\ \A d \in Clients : grants'[d] # 0 => \E g \in granted' : g.number = grants'[d] /\ g.client = d
  <2>1. ASSUME NEW c \in Clients, GrantPermission(c) PROVE <1>4
    BY <2>1, GiveGrantKeeps DEF GrantPermission
  <2>2. ASSUME NEW c \in Clients, RevokePermission(c) PROVE <1>4
    BY <2>2 DEF RevokePermission, FlowInv, TypeOK, GrantsReal, Given
  <2>3. CASE grants' = grants /\ granted' = granted
    BY <2>3 DEF FlowInv, TypeOK, GrantsReal, Given
  <2> QED BY <2>1, <2>2, <2>3 DEF Elsewhere, LockOrUnlock, SetNetwork, SetNode, OtherTransaction, GrantLapses, permission
<1>5. TypeOK' BY <1>1, <1>2, <1>3, <1>4 DEF FlowInv, TypeOK
<1>6. GrantsAsked' BY <1>2, <1>4 DEF FlowInv, GrantsAsked
<1>7. GrantsReal' BY <1>2, <1>4 DEF FlowInv, GrantsReal, Given
<1>8. \A r \in Requests : Signed(r)' = Signed(r) /\ PlanOf(r)' = PlanOf(r) BY <1>2 DEF Signed, PlanOf
<1>9. EffectsOwn' /\ LandedOwn' /\ OkIsDone' /\ LogIsResult'
  <2>1. \A e \in effects : e.req \in Requests BY DEF FlowInv, TypeOK, Effect
  <2>2. EffectsOwn' BY <1>2, <1>8, <2>1 DEF FlowInv, EffectsOwn
  <2>3. LandedOwn' /\ LogIsResult' BY <1>2 DEF FlowInv, LandedOwn, LogIsResult
  <2>4. OkIsDone' BY <1>2, <1>8 DEF FlowInv, OkIsDone
  <2> QED BY <2>2, <2>3, <2>4
<1> QED BY <1>2, <1>4, <1>5, <1>6, <1>7, <1>9 DEF FlowInv

--------------------------------------------------------------------------------
(* The theorems.                                                                *)

LEMMA InitInv == Init => FlowInv
<1> SUFFICES ASSUME Init PROVE FlowInv OBVIOUS
<1> DEFINE f == Idle(CHOOSE p \in Params : TRUE)
<1>1. f \in Locals BY SomeParams, ConstantsAssumption DEF Idle, Locals
<1>2. Sound(f) /\ f.snap = 0 /\ f.pc = "idle" /\ f.result = "none" BY DEF Idle, Sound, Undecided
<1>3. flow = [r \in Requests |-> f] BY DEF Init
<1> HIDE DEF f
<1>4. TypeOK BY <1>1, <1>3, ConstantsAssumption DEF Init, TypeOK
<1>5. IsFiniteSet(granted) BY FS_EmptySet DEF Init
<1>6. GrantsAsked /\ GrantsReal /\ EffectsOwn /\ LandedOwn /\ OkIsDone /\ LogIsResult
  BY <1>2, <1>3 DEF Init, GrantsAsked, GrantsReal, EffectsOwn, LandedOwn, OkIsDone, LogIsResult
<1> QED BY <1>2, <1>3, <1>4, <1>5, <1>6 DEF FlowInv

LEMMA NextKeeps == FlowInv /\ [Next]_vars => FlowInv'
<1>1. ASSUME FlowInv, UNCHANGED vars PROVE FlowInv'
  BY <1>1 DEF vars, FlowInv, TypeOK, GrantsAsked, GrantsReal, Given, EffectsOwn, LandedOwn, OkIsDone, LogIsResult,
              Signed, PlanOf
<1>2. ASSUME FlowInv, NEW r \in Requests, Step(r) \/ Approve(r) \/ Reject(r) \/ Disconnect(r) PROVE FlowInv'
  BY <1>2, VerifyKeeps, ResolveKeeps, PrecheckKeeps, QuoteKeeps, GateKeeps, ActKeeps, SubmitKeeps, LogAndReplyKeeps,
     ApproveKeeps, RejectKeeps, DisconnectKeeps DEF Step
<1> QED BY <1>1, <1>2, ArriveKeeps, ElsewhereKeeps DEF Next

\* One decision behind each effect, real grants behind the automatic ones, and a log of results (dispatch.rs).
THEOREM FlowInvariant == Spec => []FlowInv
BY InitInv, NextKeeps, PTL DEF Spec

LEMMA Consent == FlowInv => ConsentBehindEverything
<1> SUFFICES ASSUME FlowInv, NEW e \in effects, flow[e.req].decision # "approved"
             PROVE  /\ flow[e.req].decision = "auto"
                    /\ Method(e.req) \notin {"fund", "grant", "switch", "watch"}
                    /\ \E g \in granted : /\ g.number = flow[e.req].snap
                                          /\ g.client = Client(e.req)
                                          /\ g.by = Desktop \/ flow[g.by].decision = "approved"
  BY DEF ConsentBehindEverything
<1>1. e.req \in Requests /\ flow[e.req] \in Locals BY DEF FlowInv, TypeOK, Effect
<1>2. flow[e.req].decision = "auto" BY DEF FlowInv, EffectsOwn
<1>3. Plan[Method(e.req)].gated /\ flow[e.req].snap # 0 BY <1>1, <1>2 DEF FlowInv, Sound, Method
<1>4. Method(e.req) \notin {"fund", "grant", "switch", "watch"}
  BY <1>1, <1>3, LocalsFacts, ParamFacts, PlanFacts DEF Method
<1>5. Given(flow[e.req].snap, Client(e.req)) BY <1>1, <1>3 DEF FlowInv, GrantsReal, Client
<1> QED BY <1>2, <1>4, <1>5 DEF FlowInv, GrantsAsked, Given

LEMMA OwnAccounts == FlowInv => AgentsReachOwnAccounts
<1> SUFFICES ASSUME FlowInv, NEW e \in effects, PlanOf(e.req).account, Client(e.req) \notin Apps
             PROVE  /\ e.to # Manager /\ Owner[e.to] = Client(e.req)
                    /\ e.from = e.to \/ (Method(e.req) = "fund" /\ e.from = Manager)
  BY DEF AgentsReachOwnAccounts
<1>1. e.req \in Requests /\ flow[e.req] \in Locals BY DEF FlowInv, TypeOK, Effect
<1>2. Client(e.req) \in Clients BY <1>1, LocalsFacts, ParamFacts DEF Client
<1>3. e = Signed(e.req) /\ flow[e.req].acct \in Scope(Client(e.req)) BY DEF FlowInv, EffectsOwn, Client
<1>4. e.to = flow[e.req].acct /\ e.from = Sender(flow[e.req]) BY <1>3 DEF Signed
<1> QED BY <1>2, <1>3, <1>4, ScopeFacts DEF Sender, Method

\* Whatever is done for a request was approved by the user or stands under a grant the user gave this very client, and
\* an agent's request reaches only the agent's own accounts (gated_approval, scoped_for).
THEOREM ConsentedAndInScope == Spec => []Permitted
<1>1. FlowInv => Permitted BY Consent, OwnAccounts DEF Permitted
<1> QED BY <1>1, FlowInvariant, PTL

\* The same with the types, for the instance with grants that other requests ask for (gated_approval).
THEOREM FlowConsistent == Spec => []Consistent
<1>1. FlowInv => Consistent BY Consent DEF Consistent, FlowInv
<1> QED BY <1>1, FlowInvariant, PTL

\* What is done for an approved request is what its prompt showed, and it is broadcast only where it was signed for
\* and asked for (resolve_chain, sign_and_submit).
THEOREM DoneWasShown == Spec => []DoneAsShown
<1>1. ASSUME FlowInv, NEW e \in effects, flow[e.req].decision = "approved"
      PROVE  [from |-> e.from, to |-> e.to, chain |-> e.chain] \in flow[e.req].shown
  <2>1. e.req \in Requests /\ e = Signed(e.req) BY <1>1 DEF FlowInv, TypeOK, Effect, EffectsOwn
  <2>2. flow[e.req].shown = {Summary(flow[e.req])} BY <1>1, <2>1 DEF FlowInv, Sound
  <2>3. Summary(flow[e.req]) = [from |-> e.from, to |-> e.to, chain |-> e.chain]
    BY <1>1, <2>1, SignedTyped DEF FlowInv
  <2> QED BY <2>2, <2>3
<1>2. FlowInv => DoneAsShown BY <1>1 DEF DoneAsShown, FlowInv, LandedOwn
<1> QED BY <1>2, FlowInvariant, PTL

\* The log says ok only of what was done, and broadcast if that was asked; what it calls rejected has left no trace
\* (LogEntry).
THEOREM LogIsTrue == Spec => []LogTellsTheTruth
<1>1. ASSUME FlowInv, NEW l \in log
      PROVE  /\ l.outcome = "ok" => Of(effects, l.req) # {}
             /\ l.outcome = "ok" /\ flow[l.req].param.submit => \E t \in landed : t.tx.req = l.req
             /\ l.decision = "rejected" => Of(effects, l.req) = {} /\ flow[l.req].decision = "rejected"
  <2>1. /\ l.req \in Requests /\ l.outcome = flow[l.req].result /\ l.decision = DecisionLabel(flow[l.req].result)
        /\ flow[l.req] \in Locals
    BY <1>1 DEF FlowInv, TypeOK, LogIsResult
  <2>2. Signed(l.req).req = l.req BY DEF Signed
  <2>3. l.outcome = "ok" => Of(effects, l.req) # {} BY <1>1, <2>1, <2>2 DEF FlowInv, OkIsDone, Of
  <2>4. l.outcome = "ok" /\ flow[l.req].param.submit => \E t \in landed : t.tx.req = l.req
    BY <1>1, <2>1 DEF FlowInv, OkIsDone
  <2>5. ASSUME l.decision = "rejected" PROVE Of(effects, l.req) = {} /\ flow[l.req].decision = "rejected"
    <3>1. flow[l.req].result = "refused" BY <2>1, <2>5 DEF DecisionLabel
    <3>2. flow[l.req].decision = "rejected" BY <1>1, <2>1, <3>1 DEF FlowInv, Sound
    <3> QED BY <1>1, <3>2 DEF FlowInv, EffectsOwn, Of
  <2> QED BY <2>3, <2>4, <2>5
<1>2. FlowInv => LogTellsTheTruth BY <1>1 DEF LogTellsTheTruth
<1> QED BY <1>2, FlowInvariant, PTL
================================================================================
