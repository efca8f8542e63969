# strkd in TLA+

strkd is a Starknet wallet companion: a desktop app (Tauri) that keeps a vault of accounts and serves a
loopback JSON-RPC service to agents and apps on the same machine. A request for a signature becomes a prompt
the user answers, or is approved by a grant the user gave earlier. This directory models the parts of it where
tasks, callers, the user, the node and crashes interleave, checks them with TLC on small instances, and proves
with TLAPS every safety property of the passing runs, for any number of clients, requests, calls, accounts, restarts,
blocks, notes and users' wishes. What stays with TLC is liveness.

## 1. Inventory

| Component | State it keeps | Operations | Interacts with | What makes it correct |
|---|---|---|---|---|
| Approval broker: `wallet-rpc/src/approval.rs`, `spawn_approval_bridge` and `respond_approval` in `desktop/src-tauri/src/lib.rs`, `App.tsx` | mpsc channel, map of responders by prompt id, 60 s timers, webview's dialogs | request, take, emit, answer, time out, dismiss | every handler that prompts; the user | one decision per call, Approve only by the user's press on that prompt, nobody waits for ever |
| Vault, session, registry: `session.rs`, `accounts.rs`, `store.rs`, desktop commands | seed and registry in memory, vault.bin, archived vaults, staged phrase | onboard, unlock, lock, create account, roll back, archive | session mutex, disk, UI commands | memory equals disk, acknowledged accounts last, one owner per address, no phrase lost |
| Request dispatch: `dispatch.rs`, `auth.rs` (grants), `log.rs` | each request's locals; active chain, nodes, grants, log | verify, resolve, quote, gate, sign, submit, log | broker, session, node, settings | consent behind every effect, done as shown, logged truthfully, answered |
| Auto-lock: task in `run`, `touch_activity` | last activity, the task's sleep, the mutex's queue | poll, lock | every command that takes the session mutex | an idle wallet gets locked, also behind a slow deploy |
| Client store: `auth.rs`, `handle_pairing` | clients.json, tokens, grants | pair, reattach, grant, revoke, verify | dispatch, disk | a token means one client; reattaching keeps accounts |
| Passphrase backoff: `backoff.rs`, `unlock`, `reveal_seed`, `RevealSeed.tsx` | failures, deadline; the form, its phrase and timer | check, record; reveal, hide | session mutex, clock | misses beyond the free ones are paid for; a revealed phrase goes away |
| Prover jobs: `prover/src/{jobs,lib,storage}.rs` | jobs, activity feed, record files, id counter | enqueue, prove, record, poll, clear | dispatch, disk, native or remote prover | ids and records are not reused, every job ends |
| Native prover: `prover/src/{snip36,native_prover,prover}.rs` | the CLI, its runner, a working directory | preflight, launch, wait with a limit, kill, read, remove | jobs, node, file system, OS | what has ended leaves no process and no transaction behind |
| STRK20: `strk20/src/*`, `wallet-rpc/src/strk20/*` | the pool's channels, notes, nullifiers as discovered; a plan | discover, plan, approve, prove, relay | node, provers, paymaster | value conserved, no index used twice, no proof of stale state accepted as done |
| Settings: `settings.rs`, `prover/src/settings.rs` | two settings files, the store's copy and its file time, one node per chain | load, save, mirror, reload | nodes, prover, an editor | wallet and prover use one node, nobody's fields are lost, an edit takes effect |
| Accounts tab: `Accounts.tsx`, `deploy_status`, `deploy_account`, `node.rs` | statuses, `pending`, `deploying` | poll, refresh, deploy, switch | session mutex, node | markers are true, no second deploy in flight, what is shown settles |
| Transport, node client, keys, CLI, other screens | none of their own that outlives a call, or external | | | cryptography and I/O, tested in the repository |

Hard behaviours: tasks on the tokio runtime with awaits between critical sections; state read before an await and
used after it (grant clones, the vault read before the session mutex, idle time before the mutex, a chain that moves between two reads);
callers that disconnect and take their handler's future with them; crashes between a rename and a reply; nodes
that take a transaction and lose the answer; the 60 s timer against the click. `PROJECT.json` lists the hazards,
each at its line, with the properties that cover it.

## 2. Modules

**`ApprovalBroker`.** A member of `Requests` is one call of `request_approval`. `handler` is where the call
stands, `queue` the mpsc channel, `oneshot` its reply channel, `prompts[id]` the call the bridge numbered `id`,
`pending` and `timers` the responder map and the sleeping timers, `dialogs`, `answered` the webview's queue and
the ids whose IPC call has returned. A turn of the bridge is two steps, `BridgeTake` and `SpawnTimer`, because
the timer is spawned only after the event, the notification and the tray; `turn` is the id in between. `Disconnect` drops a handler, `BridgeGone` the receiver.
`OneShotDecision` is what `Approver` promises a handler, and `DecidesOnce` says the broker implements it:
every call gets one decision, Approve only with the user's consent to that very prompt, always in the end.

**`AccountVault`.** `unlocked, mseed, mreg` are the `WalletSession`, `vault, dseed, dreg` the vault file,
`archives` the vaults moved aside, `staged, fin, finSeed` onboarding, `call, snap` the unlock commands and the
vault each has read, `screen` what the UI shows from its last status poll. Each critical section under the
session mutex is one step; what a command does before it has the mutex (`UnlockLoad`, `FinalizeTake`,
`FinalizeSave`) is a step of its own, so that commands interleave as they can. `CreateAccount` is the whole
critical section of `handle_create_agent_account` and `add_user_account`: it ends with the account saved and
answered, with the add rolled back, or with the process dead after the rename. `AccountLedger` is the promise
to callers: an account is on disk before its address is handed out, stays there, and no address has two owners.

**`RequestFlow`.** One record per request holds its control state and what its handler has read so far. A
handler is `Verify, Resolve, Precheck, Quote, Gate, Approve | Reject, Act, Submit, LogAndReply`; `Plan` says for
each method which of these do what, as the ten handlers in `dispatch.rs` differ in nothing else that the
properties see. `Act` signs, creates, grants, switches or adds an asset. `Elsewhere` is what moves between
these steps: the lock, the network, the nodes, grants, time, transactions from other wallets. The broker is
represented by `Approve` and `Reject`, the registry by the accounts and their owners.

**`PassphraseBackoff`, `IdleLock`.** The first is `backoff.rs` as operators on its record. The second is everything
that queues for the session mutex: `session` is the tokio mutex's queue with the holder at its head. `AutoCheck` reads
the settings and the activity clock and then asks for the mutex, `AutoLock` uses it; `Call`, `UnlockOpens`, `RevealAsks`
and `RevealOpens` are the two commands that check the delay, wait, and record what the passphrase was; `form` is
`RevealSeed.tsx` with the phrase it shows and its timer. Time is in ticks, and what can run runs before the next tick
(`Runnable`), except a deploy that waits for its node with the mutex held. Argon2 and the vault's version are left out,
but for a guess that is refused uncounted.

**`Settings`.** `config` and `node` are the wallet's, `file` (contents and time of change) and `mem, known` the prover's
file and store. Every access to a file or to one of the store's locks is a step, so that reloads, saves, mirrors, edits
by hand and the death of the process fall between any two of them; `Write` empties the file and `Fill` fills it.
A write may leave the file's time as it was (`Written`): it is as fine as the file system's clock.
`strained` and `lost` are histories that say when something the code does not guard against has happened. `Strain` names
these: commands that overlap, a write that fails, an edit by hand that keeps the file's time or falls between a command's
look at the file and the end of its save, and a reload whose copy a save or another reload has overtaken (`Overtaken`).
`lost` has one more, a crash in the middle of a write, and stays; `strained` is forgotten at the next start, which reads
and mirrors everything again.

**`AccountsTab`.** `active` is the session's network, `net` the page's, `page` what the tab knows (`deployed`) and marks
(`pending`, `deploying`), `asks` and `call` its commands under way with the answers on their way back, `there, sent`
the chains. `crossed` is a history of the accounts whose marker something else has crossed.

**`ClientStore`.** `clients` is the list in memory in its order, `disk` the file, `call` the pairing calls between
find, count, prompt, mint and reply. A call doubles as the id of the client it creates and as the token it mints,
both random in the code. `Persist` writes everything or fails silently; `Restart` reads the file, or takes it for
empty. `approved, paired, given` are what the user and the callers were told, `unsaved, lost` whether a failed
write stands between that and the disk.

**`ProverJobs`.** `jobs`, `feed`, `seq` are the table, the activity feed and the counter in memory, `files` the
records, `stage[c]` where the task of call `c` stands. `Recorded` calls run in a spawned task and save their record,
`Unrecorded` ones (STRK20) run inside their handler and are dropped with it. A write can fail or be torn, a clear
can leave files behind, and `Restart` starts the counter behind the highest file name it can list: a directory that
cannot be read, or an entry of it, counts as not there. `unseen` is a history of the records the last start has missed.

**`Proving`** extends it with the backend of each call: `proc[c]` is the CLI with its runner and the working directory,
or the request to the remote prover. `Refuse` is everything that fails before there is a CLI, the preflight's calls to
the node among it; `Launch` starts the CLI, `Collect` and `TimedOut` end the job, kill what is left of the group and
remove the directory; a caller that disconnects and a process that dies leave things behind (`left`).
`ImplementsJobs` says that this does what `ProverJobs` says, its fairness included, so that what is shown of the jobs
does not rest on a native prover that ends by itself; that the remote one answers stays an assumption.

**`Strk20Planner`, `Strk20`, `PrivateLedger`.** The planner module is pure: `DiscoverState` is what `discover_state`
reads off a pool state, `PlanBatch` what `plan` answers, with the planner's accumulators (`EnsureChannel`,
`PlaceNote`) folded over the new notes in order; `Accepts` and `After` are the pool as the wallet relies on it
(phases, slots written once, nullifiers, balance per token), an external party. `WellFormed` says what a pool is that
batches have made, and what a model may start from; `IsIntent` what a caller may ask. `MCStrk20` writes its funded pool
out, and the run evaluates that it is `WellFormed`. A note is the slot its index names,
so a gap or a slot used twice is visible. Open notes, which the planner never spends, are left out. `Strk20` has the
chain of pool states, block by block, and the requests on their way: the first discovery at the proving block is
one step (the block does not change), the second, on "latest", is one step per read (`Parts`), as is the scan of
`wallet_strk20Balances`. `Land` applies a batch at the head; `OtherWallet`, `Gift`, `Mine` and `CallerSubmits` are
the rest of the world. `PrivateLedger` is what the user was promised: balances change by approved batches, each
once, by the amounts shown. Its other wallet has intents of its own (`OtherIntents`), and none of the run's moves balances
as a request's does: a request's batch that landed again and moved them would be no step of it.

## 3. Runs

| Run | Instance | What it shows |
|---|---|---|
| `ApprovalBroker` | 2 calls, channel of 1 | `ApprovedByUser`; `EveryPromptSettlesOnce` (one reply each, every prompt clears); `DecidesOnce`, the refinement of `OneShotDecision`; `Consistent` (types, nobody forgotten, a timer for each pending prompt) |
| `AccountVault_safety` | 2 clients, 2 seeds, 2 unlock calls, indices 0..2, one command at a time | memory and disk, owners, indices, phrases; `KeepsLedger`, the refinement of `AccountLedger`, durability included |
| `RequestFlow_one` | 1 request, all 10 methods, agent and app, 2 networks, 1 outside move | `Permitted` (scope and consent), the log, an answer for everyone who stays |
| `RequestFlow_pairs` | 2 requests (invoke, grant, switch), 2 networks, 1 outside move | `Consistent` (types; consent through a grant given by another request); done as shown while the network is switched |
| `IdleLock_safety` | window of 2 ticks, poll of 1, 2 unlocks at once, 4 misses, 1 of them free | the lock of an idle wallet is in the mutex's queue within one poll, and happens; `MissesArePaidFor`; a revealed phrase is gone in time (`Consistent`) |
| `ClientStore` | 3 pairing calls, 2 names, 1 account each, 3 starts | a token opens what its prompt named (`AccessByConsent`); replaced tokens stay dead (`ReplacedStaysDead`); clients, grants and owners survive unless a write failed (`Consistent`) |
| `ProverJobs` | 2 recorded and 1 unrecorded call, feed of 3, 3 starts | `NumberIsMine`; `RecordsKept`, of the records the last start could list; the feed tells the latest and no secret is on disk (`Consistent`); `EnqueuedEnds` |
| `Proving` | 1 recorded and 1 STRK20 call, 2 starts | `EndedLeavesNothing`: a job that has ended has left no runner and no directory unless the OS refused; `ImplementsJobs`, the refinement of `ProverJobs` |
| `Strk20_batches` | 1 request of 6 wishes, 2 tokens, proving 1 block behind, 4 blocks, an unregistered and a funded pool | every plan compiles where it is proved (`Consistent`); a stale batch is stale only by the race behind the second discovery; the scans find every note; a balance reported while nothing of the owner's moves is one block's (`BalanceOfOneBlock`); `KeepsLedger`, the refinement of `PrivateLedger` |
| `Settings` | 2 commands in turn, a reader, 1 edit, 2 starts, 2 URLs | `Agreement` (one node for wallet and prover; the store answers what the file says), `OwnFieldsKept`, `EditTakesEffect` (the store comes to have what the file says), each but for what `Strain` names |
| `AccountsTab` | 2 accounts, 2 networks, 2 presses of Deploy, 1 trouble | `MarkersAreTrue`, `OneDeployInFlight`, `ShownSettles` |

The bounds are small because the interesting cases need few actors: a channel of one is full with two calls; two
prompts are enough for a click on one to reach the other; two unlock calls and one account creation are the
race on the vault; three indices allow a rollback between two saves; two requests and one move put any outside
event between any two steps of either. Three pairings are a client, its namesake and a reattachment;
three starts are one restart that loses a write and one more that could bring it back. Two unlocks at once and one free miss let a
guess slip past a delay that begins while it waits. Two accounts share the tab's one `deploying` slot; one trouble
(`MaxTroubles`) is a change of network, a tab that is left, or a fault of the node, at any step. A funded pool with two STRK
notes of different size and one ETH note makes the planner choose, combine and give change. `MaxNonce`, `MaxMoves`,
`MaxIndex`, `MaxHeight`, `MaxBoots`, `MaxAccounts`, `MaxMisses`, `Unlocks`, `MaxCalls`, `MaxEdits`, `MaxStarts`,
`MaxClicks`, `MaxTroubles` and `IdleLock`'s `Cap` bound counters, each named where it guards;
`Gifts` and `Quotes` are the amounts others may choose. `ClientStore` is checked up to permutation of its calls and names,
which nothing in it tells apart. `CHECK_DEADLOCK FALSE` is given everywhere: the calls and prompts of an
instance are finite, so a run may come to rest with everything answered, and liveness is stated explicitly.

Fairness is on what the runtime and the clock do, and weak but for `IdleLock`'s `Tick` (time passes although work keeps
coming): tasks that can run (`Send`, `Resume`,
`BridgeTake`, `SpawnTimer`, the handler's `Step`), sleeps that end (`TimerFires`, `Tick`), a prover that answers or gives up (`Task`), the node answering or its call
failing. The CLI may run for ever: what ends its job is
`TimedOut`. That the remote prover answers is an assumption, since nothing in the code limits its request; `ProverJobs`
makes it of both provers (`Task` includes `Finish`), and `Proving` discharges it for the native one. In `Settings` someone asks the store again and again, as the
proving screen and every proof do; in `AccountsTab` the two intervals go on. The user owes nothing: that a prompt ends is the timer's doing, checked in `ApprovalBroker` and used
in `RequestFlow` as `WF(Approve \/ Reject)`. The node client sets no timeout, so a connection that stays open
without an answer is outside these assumptions; it is listed as a hazard.

`AccountVault_safety` is the wallet whose user waits for one command to end and issues the next on a current screen
(`OneCommand`). The UI does not enforce this: the unlock button stays enabled while an unlock is in flight. The
run `AccountVault_race` drops the assumption.

### Where the code and its documents disagree

| Run | Violated | What happens |
|---|---|---|
| `AccountVault_race` | `OneOwnerPerAddress` | Two unlocks are in flight; one opens the wallet, an account is created, the other installs the registry it read before: the next account gets the same index, another client's address. |

Noticed and not run:

- Requests: a handler dropped with its connection may have broadcast and never reaches the log. A request already
  verified is still auto-approved after its client's grant is revoked (`gated_approval` judges a clone). Four methods
  (switch, watch, grant, create) prompt while the wallet is locked, against docs/code/desktop.md:80. A grant of an app
  covers the user's own account. The log names the session's network when the handler ended, not the request's.
- Pairing: a second client of one name and kind is never reached by reattaching; while the wallet is locked the prompt
  of a reattachment says the caller will control 0 accounts, whatever it owns.
- Prompts: the badge can settle on a stale count; a dialog stays on screen after its prompt timed out, and its buttons
  then do nothing, which `ApprovedByUser` and `EveryPromptSettlesOnce` cover.
- Lock: the auto-lock compares the idle time before it awaits the mutex, so a wallet just unlocked can be locked again.
  A form cancelled while its `reveal_seed` waits shows the phrase when it is opened again, although it
  "re-authenticates every time" (RevealSeed.tsx:9-12). The node client sets no timeout, and a deploy holds the mutex while it waits.
- STRK20: `wallet_strk20Balances` reads "latest" slot by slot, and a spend in between makes a note and its own change
  count both; a relay that quotes a fee of 0 is refused with `ZeroAmount`. Starkscan's relay delivers a proof once
  (remote.rs:147), yet a poll whose answer is lost is reported as `Unavailable`, "try again later", where
  `DeliveryUnknown` is documented (remote.rs:71); a job the relay keeps calling unfinished is polled for ever.
- Proving: a caller that disconnects, or a crash, leaves the working directory with the transaction and its key in
  the temporary directory and the runner alive, as does a transaction that could not be written; the remote request
  has no limit. After a restart a job number whose record was never written is given out again. A start that cannot list
its records numbers from 0 (storage.rs:131, prover/lib.rs:47), and the proofs it then records overwrite them, against
prover/lib.rs:45-46, "ids (and `<job_id>.json` filenames) don't collide with — and overwrite — prior proofs".
- Settings: two commands at once may mirror an older URL or older prover settings. So may one command and a reader: a
  reload that has read the file before `update` gave the store the new settings, and installs what it read before `save`
  takes its copy, undoes the update (prover/settings.rs:97-104 with 136-148). `save` then writes the older settings:
  `set_prover_settings` has returned Ok and its fields are gone, and a mirrored URL is undone until the next start, against
  lib.rs:341, "so both sides always hit the same node". An edit by hand within one tick of the file system's clock, or in
  the middle of a save, is never seen, against prover/settings.rs:91-94, "take effect without a restart". A settings.json that is in pieces
  at a start is taken for an empty one, and its backend and API keys are overwritten by the mirror; an edit between a
  read and the time that is kept with it (`load`) is not seen until the next.
- Accounts tab: pressing Deploy for a second account, or the return of either, gives the first its button back while
  its transaction is in flight, against Accounts.tsx:50; so does a late "deployed" of the other network, or leaving the
  tab; `pending` stays for good when the transaction is dropped, and on the other network, too. Any error the node
  itself reports passes for "undeployed". `with_margin(..) as u64` truncates, and a redirect is cached for good.

## 4. Proofs

`VaultAndBrokerProofs` holds the theorems of two components that share no state. Of `AccountVault` it proves, for every
value of the constants, `TypeCorrect` (`VaultSpec => []VaultTypeOK`) and, from
`OneCommand`, all the invariants of `AccountVault_safety`, its refinement `KeepsLedger`, and that an acknowledged account is on disk
(`AcknowledgedIsDurable`, which the run has through `KeepsLedger`). The argument:

- `VaultTyped` strengthens `VaultTypeOK`: the indices of every registry around (memory, disk, an unlock's copy) run from
  0 without a gap (`Segments`), and where there is a vault there is a seed (`RealSeeds`). It is inductive on its
  own. `NextIndexOfSegment` and `AddAtNextIndex` are the registry's facts: the next index is free, adding there
  keeps the segment, and `remove_by_address` takes out exactly the account just added.
- `Safe` adds that at most one command is in flight and that what it took or read is still what the disk says
  (`Alone`), that no vault means no accounts, that addresses are unique on disk, and the invariants themselves.
  `OneCommand` is needed for `Alone` only; without it an unlock's copy may be older than the disk, which is
  the counterexample of `AccountVault_race`.
- `LedgerStep` maps every step to `Persist` or a stutter: only `CreateAccount` changes the registry on disk once
  there are accounts, and it adds one with a new address.

Of `ApprovalBroker` it proves `Consistent` and `ApprovedByUser` (`AlwaysConsistent`, `OnlyTheUserApproves`) for any
number of calls and any channel, that no reply is replaced by a second one (`NoSecondReply`), and that every step is a
step of `OneShotDecision` or a stutter (`DecidesAtMostOnce`, the safety half of `DecidesOnce`). `BrokerInv` says where a
call can be: in the channel or at one prompt, in neither before it is sent (`OnePlace`); what is still in the channel or
still has its responder is open, and no button of it was pressed (`StillOpen`), which is why the click and the timer,
whichever comes second, find nothing to do (`SettleKeeps`, `LateKeeps`); and Approve is in a reply channel by the
user's first press only (`Meant`).

`RequestFlowProofs` proves `Permitted`, `Consistent`, `DoneAsShown` and `LogTellsTheTruth` (`ConsentedAndInScope`,
`FlowConsistent`, `DoneWasShown`, `LogIsTrue`) for any number of requests, clients, accounts and networks. None of the
four is inductive: what is done is justified by what a handler read several awaits ago. `Sound` says what a handler
holds at each of them: the account is in the caller's scope from the moment it is resolved, the decision comes once and
late, and what the prompt showed is what is still held. `GrantsAsked` and `GrantsReal` carry consent from one request
to another: whatever a grant approves, now or by a clone read before it was revoked, some prompt of that client gave.
`EffectsOwn` and `LandedOwn` tie what was signed and broadcast to the request that did it, and `OkIsDone`,
`LogIsResult` the log to the handler's result.

`ProverJobsProofs` proves `NumberIsMine`, `RecordsKept` and `Consistent` for any number of calls and starts, any length
of the feed, whatever a start can list. `JobsInv` needs that the counter is ahead of every number in memory and of every
`Known` record, those the last start did not miss (`CounterAhead`), which `Restart` re-establishes from the file names
alone, and that a call that runs has no such record under its number yet (`NotYetSaved`). It rests on `Recorded` and `Unrecorded` being disjoint, as the two entry points are. `TableInv`
adds that a call has one job (`OneJobEach`) and, in `FeedOk`, that a job's newest entry in the feed, if the feed has not
dropped it, is its status. Of `Proving` it proves that each of its steps is a step of `ProverJobs` or a stutter
(`ProvingRefinesJobs`, the safety half of `ImplementsJobs`), which hands it all of the above, and `EndedLeavesNothing`.

`ClientStoreProofs` proves `AccessByConsent`, `Consistent` and `ReplacedStaysDead` (`TokensHaveConsent`,
`StoreConsistent`, `ReplacedTokensDie`) for any number of calls and names. The list in memory and the one in the file
have one entry per id, each with an approved token (`ListOk` of both, since a restart makes the one the other). A call
that waits on its prompt has looked its client up by name, and looks again after it: `TargetsStand` says that the first
client of a name stays the first, because clients are only appended, so that the token goes to the client the
prompt named (`ApprovedStands`).

`SettingsProofs` proves `Agreement` and `OwnFieldsKept` (`FilesAgree`, `OwnFieldsStay`) for any number of commands,
edits, starts, URLs and fields, and for file times of any coarseness. `SettingsInv` follows each task through the store.
While nothing that `Strain` names has happened, what a look has read and not yet installed is what the file says or
what a save in flight will say (`LookOnItsWay`, `CommandOnItsWay`, `SaveOnItsWay`), a copy older than the file is kept
with an older time (`TimesTell`), and the start mirrors what it has read (`StartOnItsWay`). A mirror carries what the user wants of
the prover's own fields (`OwnFields`). The two histories are in the invariant as the code's own limits: `Calm` holds until
the store is strained, `OwnFields` until something is lost.

`IdleLockProofs` proves `Consistent`, `BoundedExposure` and `MissesArePaidFor` (`LockConsistent`,
`ExposureIsBounded`, `MissesCostDelays`) for any window, poll, delays and number of guesses at once.
`ExposureOk` says that what the wallet is overdue and what is left of the task's sleep are together at most one poll
while the task sleeps; `FormOk` that the form's timer and the phrase's age add up to `AUTO_HIDE_MS`; and `GuessesOk`,
which `MissesArePaidFor` needs, that misses and the guesses still in the queue are together paid for by the delays
waited out, the one in force included. The queue's unlock calls are counted for it: one joins behind, and one is
gone when it was at the head.

`AccountsTabProofs` proves `MarkersAreTrue` and `OneDeployInFlight` for any number of accounts, networks, presses and
faults. `TabInv` follows what a marker rests on back to the mutex: what is estimated under it is for the session's
network, and what it reports as taken was broadcast there. `SoloInv` says what the page's marker of an account covers as long as
nothing has crossed it (`Tracked`): first the only call for it, then its only broadcast, on the session's network. A true
"deployed" can take the marker only after its broadcast is included (`Answers`, `OpenDeploys`).

`Strk20Proofs` proves `Consistent`, `NothingLost`, `StaleOnlyByRace`, `BalanceOfOneBlock` and the refinement
`KeepsLedger` (each as `...Holds`) for any requests, wishes, quotes, pools to start from, heights and lags.
What the planner and the scans compute are folds and sums, and the library's induction is out of reach, so the first
part establishes them by least counterexample (`LeastNat`, `LeastSet`): that a fold over a list exists and takes one
step per item, that sums of a list and of a finite set are what one expects. On that rest:

- The planner. `PlanTells` says what a plan contains, `Told` carries it through `EnsureChannel` and `PlaceNote`: the
  channels opened follow on those there are, each new note takes the next slot of its list, and what was discovered is
  not given out again. `PlanIsAccepted` concludes that the pool the plan was made from accepts it, whatever was asked;
  `PoolKept` that a batch planned from an older pool leaves a newer one `WellFormed` if it is accepted at all.
- The handlers. `Sound` says that the chain is of `WellFormed` pools that only grow (`ChainOk`), that a request in its second
  discovery holds what the first read at the proving block, each part that was read again found the same in some block
  since (`Reread`), and that one past it holds that block's plan (`HoldsPlan`). `Consistent` follows. For
  `StaleOnlyByRace` the four parts may have been read in four blocks; each of them only ever grows, or shrinks, so a
  part found again after `since` and unchanged from there to the head is what it was at the proving block
  (`FoundAgain`), and the head accepts the plan.
- The ledger. `OnceOnly` adds to `Sound` that every slot an applied batch filled is taken and every note it used spent, so
  that no batch lands twice; `Settles` that a batch that lands changes each user's balance by what was approved. Every
  step of `Strk20` is then a consent, a settlement, an abandoned request, a payment received, another wallet's
  batch, or a stutter: a batch that would land again finds its slots taken and its notes spent.
- The balance. `ScanOk` says that while the owner sends and spends nothing, the sum read so far is what one block
  since the start held of the senders already read, with the notes of the sender being read as far as its index
  (`Tally`). When that sender's last slot is found empty, the block moves on to the one of that reading.

The assumptions on constants are named in the modules, and every run evaluates its own: bounds are natural numbers and
those that count starts, windows, polls and delays are not zero; there are accounts and networks at all; markers such as
`Nobody`, `Default`, `Damaged` and `Start` are none of the values they are compared with; every account but the manager's
has an agent as its owner (`RequestFlow`); recorded and unrecorded calls are different ones; pools to start from are `WellFormed`, intents are lists of
amounts of known tokens, a request's `Nothing` is no intent, and the STRK20 account and the one that pays it are two.

Model-checked only:

- Liveness: `EveryPromptSettlesOnce`, `AnsweredOrGone`, `OverdueLocks`, `EnqueuedEnds`, `EditTakesEffect`, `ShownSettles`
  and the fair halves of `DecidesOnce` and `ImplementsJobs`. Fairness is stated with `ENABLED`, which these provers do not reason about.
- `OneOwnerPerAddress` without `OneCommand` is false (`AccountVault_race`).

## 5. Not modelled

Cryptography (keys, hashes, ciphertexts, the vault's encryption), encodings, the HTTP transport, the node client's
wire formats and fee margins, SQLite, the CLI and the layout of the screens: pure computation, I/O or presentation. A
vault is its contents, a signature the fact of it, a node an external party that answers, refuses or loses the answer,
a prover one that succeeds, fails or goes on. Grants lapse in `RequestFlow` only. The deposit prover's relay
(`strk20/remote.rs`: submission under an idempotency key, polling, up to five submissions) is not modelled, its answer
in `Strk20` is success or failure. In `AccountsTab` one refresh does not overtake the last, and balances are left out.

## 6. Plan

1. The deposit prover's relay (`strk20/remote.rs`): one debit per idempotency key over its resubmissions, a proof that
   is delivered once, and what each `RemoteError` lets the caller conclude.
2. Open notes, which `Strk20` leaves out.
