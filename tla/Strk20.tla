--------------------------------- MODULE Strk20 --------------------------------
(***************************************************************************)
(* The STRK20 handlers (wallet-rpc/src/strk20/mod.rs) against a pool that  *)
(* moves: register, wallet_strk20InvokeTransaction (deposits from the      *)
(* account, private batches through the relay), wallet_strk20PrepareInvoke *)
(* (the batch goes back to the caller) and wallet_strk20Balances.  Proofs  *)
(* are about a block Lag behind the head, batches are applied at the head: *)
(* between the two stand the user's answer and the proof, and other        *)
(* requests of the same account, its other wallet and other senders.       *)
(***************************************************************************)
EXTENDS Strk20Planner

CONSTANTS Owner,                \* the account the requests act for
          Sender,               \* another user of the pool, who pays the owner
          Relayer,              \* where the relay's fee goes
          FeeToken,             \* STRK
          Requests,             \* calls of the handlers
          Wishes,               \* what they may ask: [kind, intent]
          OtherIntents,         \* what the owner does meanwhile with another wallet of the same seed
          Quotes,               \* fees the relay may quote
          PoolFee,              \* what the pool charges the submitting account, in FeeToken
          Gifts,                \* amounts the sender may send
          InitialPools,         \* the pool when the model starts
          InitialFunds,         \* the owner's public balance then
          Lag,                  \* PROVING_LAG
          MaxHeight,            \* bound: the last block
          Nothing

Users == {Owner, Sender}
AllTokens == DOMAIN InitialFunds

ASSUME PoolsAssumption == \A p \in InitialPools : WellFormed(p)
ASSUME IntentsAssumption == \A i \in {w.intent : w \in Wishes} \cup OtherIntents : IsIntent(i, AllTokens)
ASSUME AmountsAssumption == /\ Quotes \cup Gifts \cup {PoolFee, Lag, MaxHeight} \subseteq Nat
                            /\ FeeToken \in AllTokens /\ \A t \in AllTokens : InitialFunds[t] \in Nat
ASSUME UsersAssumption == Owner # Sender

VARIABLES chain,                \* the pool's state in every block; chain[h + 1] is block h
          req,                  \* each request's stage and what its handler has read
          mempool,              \* requests whose transaction is on its way
          applied,              \* requests whose batch the pool has applied
          public,               \* the owner's public balance, per token
          scan                  \* the call of wallet_strk20Balances

vars == <<chain, req, mempool, applied, public, scan>>

Height == Len(chain) - 1
Latest == chain[Len(chain)]
Pool(h) == chain[h + 1]

Idle == [stage |-> "idle", kind |-> Nothing, intent |-> Nothing, block |-> 0, since |-> 0, seen |-> 0,
         st |-> Nothing, batch |-> Nothing]

Parts == <<"registered", "channels", "notes", "outgoing">>      \* the reads of discover_state, in order

Planned == {"ask", "prove", "proved", "estimated", "returned", "done", "unknown"}
Consented == Planned \ {"ask"}

Init == /\ chain \in {[h \in 1..(Lag + 1) |-> p] : p \in InitialPools}
        /\ req = [r \in Requests |-> Idle]
        /\ mempool = {}
        /\ applied = {}
        /\ public = InitialFunds
        /\ scan = [stage |-> "idle"]

Fail(r) == req' = [req EXCEPT ![r] = [Idle EXCEPT !.stage = "failed"]]

HasDeposit(intent) == intent.deposits # << >>

FromAccount(q) == q.kind = "register" \/ (q.kind = "invoke" /\ HasDeposit(q.intent))

Needed(intent, t) == TotalIn(intent.deposits, t) + (IF t = FeeToken THEN PoolFee ELSE 0)

CanPay(intent) == \A t \in Field(intent.deposits, LAMBDA x : x.token) \cup {FeeToken} : public[t] >= Needed(intent, t)

--------------------------------------------------------------------------------
(* The handlers up to the prompt.                                          *)

\* What a handler refuses before it looks at the pool's private state.
Refused(w) ==
    \/ w.kind = "register" /\ Owner \in Latest.reg
    \/ /\ w.kind = "invoke" /\ HasDeposit(w.intent)
       /\ (w.intent.transfers \o w.intent.withdrawals # << >>) \/ ~CanPay(w.intent)

\* A private batch carries the relay's fee as one more withdrawal.
Quoted(w) ==
    IF w.kind = "invoke" /\ ~HasDeposit(w.intent)
    THEN {[w.intent EXCEPT !.withdrawals = Append(@, [to |-> Relayer, token |-> FeeToken, amount |-> q])] : q \in Quotes}
    ELSE {w.intent}

\* The first discovery is pinned to the proving block, so it is one step with the choice of the block.
Discover(r, kind, intent) ==
    LET block == IF Height < Lag THEN 0 ELSE Height - Lag
    IN  IF Reachable(Pool(block), Owner, intent)
        THEN req' = [req EXCEPT ![r] = [Idle EXCEPT !.stage = "check", !.kind = kind, !.intent = intent,
                                                    !.block = block,
                                                    !.st = DiscoverState(Pool(block), Owner, intent)]]
        ELSE Fail(r)

Begin(r) ==
    /\ req[r].stage = "idle"
    /\ \E w \in Wishes :
          IF Refused(w) THEN Fail(r) ELSE \E i \in Quoted(w) : Discover(r, w.kind, i)
    /\ UNCHANGED <<chain, mempool, applied, public, scan>>

Ask(r, since, batch) ==
    req' = [req EXCEPT ![r] = [@ EXCEPT !.stage = "ask", !.since = since, !.batch = batch, !.st = Nothing,
                                        !.seen = 0]]

Propose(r, since, batch) ==
    IF batch \in Errors THEN Fail(r)
    ELSE IF Linkable(batch) THEN Fail(r)
    ELSE Ask(r, since, batch)

SameButNotes(st, now, part) == part = "notes" \/ now[part] = st[part]       \* mutant: spent notes go unnoticed
SameState(st, now, part)    == now[part] = st[part]

\* The second discovery reads "latest" in several calls: each may be answered from another block.
\* Of an account that is not registered nothing more is read.
Recheck(r) ==
    LET q    == req[r]
        now  == DiscoverState(Latest, Owner, q.intent)
        part == Parts[q.seen + 1]
        last == q.seen + 1 = Len(Parts) \/ ~q.st.registered
        since == IF q.seen = 0 THEN Height ELSE q.since
    IN  /\ q.stage = "check"
        /\ IF ~Reachable(Latest, Owner, q.intent) \/ ~SameState(q.st, now, part) THEN Fail(r)
           ELSE IF last THEN Propose(r, since, PlanBatch(Owner, q.st, q.intent))
           ELSE req' = [req EXCEPT ![r].seen = @ + 1, ![r].since = since]
        /\ UNCHANGED <<chain, mempool, applied, public, scan>>

\* A node, the session, the user, the prover or an attestation's age ends the request with an error.
GiveUp(r) ==
    /\ req[r].stage \in {"check", "ask", "prove", "proved", "estimated"}
    /\ Fail(r)
    /\ UNCHANGED <<chain, mempool, applied, public, scan>>

Approve(r) ==
    /\ req[r].stage = "ask"
    /\ req' = [req EXCEPT ![r].stage = "prove"]
    /\ UNCHANGED <<chain, mempool, applied, public, scan>>

--------------------------------------------------------------------------------
(* From the proof to the pool.                                             *)

\* The prover runs compile_actions at the proving block.
Prove(r) ==
    /\ req[r].stage = "prove"
    /\ IF Accepts(Pool(req[r].block), Owner, req[r].batch)
       THEN req' = [req EXCEPT ![r].stage = IF req[r].kind = "prepare" THEN "returned" ELSE "proved"]
       ELSE Fail(r)
    /\ UNCHANGED <<chain, mempool, applied, public, scan>>

\* paymaster_executeTransaction: the answer may get lost, whether or not the relay has submitted.
Relay(r) ==
    /\ req[r].stage = "proved" /\ ~FromAccount(req[r])
    /\ \E answer \in {"done", "unknown"} :
          /\ req' = [req EXCEPT ![r].stage = answer]
          /\ mempool' \in {mempool \cup {r}} \cup (IF answer = "unknown" THEN {mempool} ELSE {})
    /\ UNCHANGED <<chain, applied, public, scan>>

\* The fee estimation runs the transaction at the head and reports what the pool refuses.
Estimate(r) ==
    /\ req[r].stage = "proved" /\ FromAccount(req[r])
    /\ IF Accepts(Latest, Owner, req[r].batch) /\ CanPay(req[r].intent)
       THEN req' = [req EXCEPT ![r].stage = "estimated"]
       ELSE Fail(r)
    /\ UNCHANGED <<chain, mempool, applied, public, scan>>

Submit(r) ==
    /\ req[r].stage = "estimated"
    /\ \E answer \in {"done", "unknown"} :
          /\ req' = [req EXCEPT ![r].stage = answer]
          /\ mempool' \in {mempool \cup {r}} \cup (IF answer = "unknown" THEN {mempool} ELSE {})
    /\ UNCHANGED <<chain, applied, public, scan>>

\* What a caller does with a batch that was returned to it: submit it, whenever and as often as it likes.
CallerSubmits(r) ==
    /\ req[r].stage = "returned" /\ r \notin mempool
    /\ mempool' = mempool \cup {r}
    /\ UNCHANGED <<chain, req, applied, public, scan>>

\* A transaction lands: the pool takes the deposits and, from the account, its fee.
Land(r) ==
    LET q == req[r]
        cost == [t \in AllTokens |-> IF FromAccount(q) THEN Needed(q.intent, t) ELSE TotalIn(q.batch.deposits, t)]
    IN  /\ r \in mempool /\ Height < MaxHeight
        /\ Accepts(Latest, Owner, q.batch)
        /\ \A t \in AllTokens : public[t] >= cost[t]
        /\ chain' = Append(chain, After(Latest, Owner, q.batch))
        /\ public' = [t \in AllTokens |-> public[t] - cost[t]]
        /\ mempool' = mempool \ {r}
        /\ applied' = applied \cup {r}
        /\ UNCHANGED <<req, scan>>

\* It reverts, or nobody includes it.
Drop(r) ==
    /\ r \in mempool
    /\ mempool' = mempool \ {r}
    /\ UNCHANGED <<chain, req, applied, public, scan>>

--------------------------------------------------------------------------------
(* The rest of the chain.                                                  *)

Mine ==
    /\ Height < MaxHeight
    /\ chain' = Append(chain, Latest)
    /\ UNCHANGED <<req, mempool, applied, public, scan>>

\* A batch planned and applied at the head by a wallet that plans like this one.
Elsewhere(user, intent) ==
    LET batch == PlanBatch(user, DiscoverState(Latest, user, intent), intent)
    IN  /\ Height < MaxHeight /\ Reachable(Latest, user, intent)
        /\ batch \notin Errors
        /\ Accepts(Latest, user, batch)
        /\ chain' = Append(chain, After(Latest, user, batch))
        /\ UNCHANGED <<req, mempool, applied, public, scan>>

\* The owner's other wallet: the same seed shows the same notes in both.
OtherWallet == \E i \in OtherIntents : Elsewhere(Owner, i)

Gift == \E t \in AllTokens, a \in Gifts :
           Elsewhere(Sender, [register |-> FALSE, deposits |-> <<[token |-> t, amount |-> a]>>,
                              transfers |-> <<[to |-> Owner, token |-> t, amount |-> a]>>,
                              withdrawals |-> << >>])

--------------------------------------------------------------------------------
(* wallet_strk20Balances of FeeToken: one call to the node per slot.       *)

Incoming(p) == LET channels == {c \in p.chans : c.to = Owner}
               IN  [i \in 1..Cardinality(channels) |-> (CHOOSE c \in channels : c.place = i - 1).from]

BalancesBegin ==
    /\ scan.stage = "idle" /\ Owner \in Latest.reg
    /\ scan' = [stage |-> "scan", since |-> Height, at |-> 1, index |-> 0, sum |-> 0,
                from |-> Incoming(Latest)]
    /\ UNCHANGED <<chain, req, mempool, applied, public>>

BalancesReadGross ==                                            \* mutant: spent notes are counted
    LET slot == {n \in ReadNotes(Latest, scan.from[scan.at], Owner, FeeToken) : n.index = scan.index}
    IN  /\ scan.stage = "scan"
        /\ IF scan.at > Len(scan.from) THEN scan' = [scan EXCEPT !.stage = "done"]
           ELSE IF slot = {} THEN scan' = [scan EXCEPT !.at = @ + 1, !.index = 0]
           ELSE scan' = [scan EXCEPT !.index = @ + 1, !.sum = @ + TotalOf(slot)]
        /\ UNCHANGED <<chain, req, mempool, applied, public>>

BalancesRead ==
    LET slot == {n \in ReadNotes(Latest, scan.from[scan.at], Owner, FeeToken) : n.index = scan.index}
    IN  /\ scan.stage = "scan"
        /\ IF scan.at > Len(scan.from) THEN scan' = [scan EXCEPT !.stage = "done"]
           ELSE IF slot = {} THEN scan' = [scan EXCEPT !.at = @ + 1, !.index = 0]
           ELSE scan' = [scan EXCEPT !.index = @ + 1,
                                     !.sum = @ + TotalOf(Unspent(Latest, slot))]
        /\ UNCHANGED <<chain, req, mempool, applied, public>>

--------------------------------------------------------------------------------
Step(r) == \/ Begin(r) \/ Recheck(r) \/ GiveUp(r) \/ Approve(r) \/ Prove(r)
           \/ Relay(r) \/ Estimate(r) \/ Submit(r) \/ CallerSubmits(r) \/ Land(r) \/ Drop(r)

Next == (\E r \in Requests : Step(r)) \/ Mine \/ OtherWallet \/ Gift \/ BalancesBegin \/ BalancesRead

Spec == Init /\ [][Next]_vars

--------------------------------------------------------------------------------
(* Properties.                                                             *)

Asked == UNION {Quoted(w) : w \in Wishes}

ASSUME NothingAssumption == Nothing \notin Asked

\* A request that has been planned holds a batch, never a planner's error.
TypeOK ==
    /\ \A r \in Requests :
          /\ req[r].stage \in {"idle", "check", "failed"} \cup Planned
          /\ req[r].stage \in {"check"} \cup Planned => req[r].intent \in Asked
          /\ req[r].stage \in Planned => req[r].batch \notin Errors
          /\ req[r].block \in 0..Height /\ req[r].since \in 0..Height
    /\ mempool \cup applied \subseteq {r \in Requests : req[r].stage \in {"done", "unknown", "returned"}}
    /\ \A t \in AllTokens : public[t] \in Nat

HasBatch(r) == req[r].stage \in Planned

\* Every batch the planner makes compiles at the block it will be proved against: no plan gives out a slot twice
\* or one that is taken, spends a note it does not have, or fails to balance (planner.rs, plan).
PlansCompile == \A r \in Requests : HasBatch(r) => Accepts(Pool(req[r].block), Owner, req[r].batch)

\* The second discovery does its work: a batch the head of the chain no longer takes is one whose state was changed
\* after that discovery began, never one that was stale already (mod.rs, prepare and same_state).
StaleOnlyByRace ==
    \A r \in Requests :
       HasBatch(r) /\ ~Accepts(Latest, Owner, req[r].batch) =>
          DiscoverState(Pool(req[r].since), Owner, req[r].intent) # DiscoverState(Latest, Owner, req[r].intent)

\* The scans that stop at the first empty slot find every note there is: no batch leaves a gap behind it
\* (discovery.rs, discover_notes, with the indices of planner.rs).
NothingLost ==
    \A u \in Users, t \in AllTokens :
       TotalOf(DiscoverNotes(Latest, u, {t})) = Balance(Latest, u, t)

Ledger == INSTANCE PrivateLedger WITH
              Tokens  <- AllTokens,
              Intents <- Asked,
              balance <- [u \in Users |-> [t \in AllTokens |-> Balance(Latest, u, t)]],
              consent <- [r \in Requests |-> IF req[r].stage \in Consented THEN req[r].intent ELSE Nothing],
              settled <- applied

\* Private balances change only by batches that were approved, each once, and by the amounts that were shown, with
\* the change back to the owner and the relay's fee included: a batch that lands again, because its caller submits it
\* again, changes none (plan, prepare, describe, invoke_transaction).
KeepsLedger == Ledger!Spec

Sent(p) == [notes |-> {n \in p.notes : n.from = Owner}, spent |-> {n \in p.nulls : n.to = Owner}]

\* The balance wallet_strk20Balances answers, read slot by slot from "latest", is the owner's balance in some block of
\* the time the call took, with gifts coming in meanwhile, as long as the owner neither sends nor spends a note
\* (mod.rs, balances; discovery.rs, discover_notes).
BalanceOfOneBlock ==
    scan.stage = "done" =>
       \/ Sent(Latest) # Sent(Pool(scan.since))
       \/ \E h \in scan.since..Height : scan.sum = Balance(Pool(h), Owner, FeeToken)

\* Types, and batches that compile: what is asked, proved or sent is a plan, never the planner's error (plan, prepare).
Consistent == TypeOK /\ PlansCompile
================================================================================
