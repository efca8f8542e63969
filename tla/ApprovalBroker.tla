----------------------------- MODULE ApprovalBroker -----------------------------
(***************************************************************************)
(* The approval broker: ChannelApprover (wallet-rpc/src/approval.rs), the  *)
(* desktop's bridge task, its 60 s timers and respond_approval             *)
(* (desktop/src-tauri/src/lib.rs), and the webview's dialog queue          *)
(* (desktop/src/App.tsx).                                                  *)
(*                                                                         *)
(* A member of Requests is one call of request_approval by one handler.    *)
(* Prompt ids count up from 1, so the bridge's counter and its emitted     *)
(* prompts are one sequence: prompts[id] is the call prompt id is for.     *)
(***************************************************************************)
EXTENDS Naturals, Sequences, FiniteSets

CONSTANTS Requests,             \* calls of request_approval
          Buffer                \* capacity of the mpsc channel (32 in the desktop)

ASSUME BufferAssumption == Buffer \in Nat \ {0}

VARIABLES
  handler,      \* where each call of request_approval stands
  queue,        \* the mpsc channel of PendingApproval
  bridge,       \* TRUE while the channel's receiver exists
  oneshot,      \* the reply channel of each call
  prompts,      \* prompts[id]: the call the bridge gave that id
  pending,      \* ids whose responder is in the shared map
  timers,       \* ids whose 60 s timer task is asleep
  dialogs,      \* ids in the webview's queue; the least one is on screen
  answered,     \* ids whose respond_approval has returned to the webview
  clicked,      \* history: the first button pressed in each call's dialog
  turn          \* ids the bridge has emitted and not yet spawned a timer for

brokerVars == <<handler, queue, bridge, oneshot>>
uiVars == <<dialogs, answered, clicked>>
vars == <<handler, queue, bridge, oneshot, prompts, pending, timers,
          dialogs, answered, clicked, turn>>

Ids == 1..Len(prompts)
Current(id) == id \in dialogs /\ \A other \in dialogs : id <= other

TypeOK ==
  /\ handler \in [Requests -> {"idle", "sending", "waiting", "Approve", "Reject", "dropped"}]
  /\ queue \in Seq(Requests)
  /\ bridge \in BOOLEAN
  /\ oneshot \in [Requests -> {"open", "Approve", "Reject", "closed"}]
  /\ prompts \in Seq(Requests)
  /\ pending \subseteq Ids
  /\ timers \subseteq Ids
  /\ dialogs \subseteq Ids
  /\ answered \subseteq dialogs
  /\ clicked \in [Requests -> {"none", "Approve", "Reject"}]
  /\ turn \subseteq Ids /\ Cardinality(turn) <= 1

Init ==
  /\ handler = [r \in Requests |-> "idle"]
  /\ queue = <<>>
  /\ bridge = TRUE
  /\ oneshot = [r \in Requests |-> "open"]
  /\ prompts = <<>>
  /\ pending = {}
  /\ timers = {}
  /\ dialogs = {}
  /\ answered = {}
  /\ clicked = [r \in Requests |-> "none"]
  /\ turn = {}

--------------------------------------------------------------------------------
(* The service side: ChannelApprover::request_approval.                         *)

Ask(r) ==
  /\ handler[r] = "idle"
  /\ handler' = [handler EXCEPT ![r] = "sending"]
  /\ UNCHANGED <<queue, bridge, oneshot, prompts, pending, timers>>
  /\ UNCHANGED uiVars /\ UNCHANGED turn

\* Mutant: waits for room also when the receiver is gone.
SendIgnoresGone(r) ==
  /\ handler[r] = "sending"
  /\ bridge /\ Len(queue) < Buffer
  /\ queue' = Append(queue, r)
  /\ handler' = [handler EXCEPT ![r] = "waiting"]
  /\ UNCHANGED <<bridge, oneshot, prompts, pending, timers>>
  /\ UNCHANGED uiVars /\ UNCHANGED turn

\* tx.send(pending).await: waits for room, fails when the receiver is gone.
Send(r) ==
  /\ handler[r] = "sending"
  /\ \/ /\ bridge /\ Len(queue) < Buffer
        /\ queue' = Append(queue, r)
        /\ handler' = [handler EXCEPT ![r] = "waiting"]
     \/ /\ ~bridge
        /\ handler' = [handler EXCEPT ![r] = "Reject"]
        /\ UNCHANGED queue
  /\ UNCHANGED <<bridge, oneshot, prompts, pending, timers>>
  /\ UNCHANGED uiVars /\ UNCHANGED turn

\* Mutant: unwrap_or(Approve).
ResumeApproves(r) ==
  /\ handler[r] = "waiting"
  /\ oneshot[r] # "open"
  /\ handler' = [handler EXCEPT ![r] = IF oneshot[r] = "closed" THEN "Approve" ELSE oneshot[r]]
  /\ UNCHANGED <<queue, bridge, oneshot, prompts, pending, timers>>
  /\ UNCHANGED uiVars /\ UNCHANGED turn

\* answer.await.unwrap_or(Reject)
Resume(r) ==
  /\ handler[r] = "waiting"
  /\ oneshot[r] # "open"
  /\ handler' = [handler EXCEPT ![r] = IF oneshot[r] = "closed" THEN "Reject" ELSE oneshot[r]]
  /\ UNCHANGED <<queue, bridge, oneshot, prompts, pending, timers>>
  /\ UNCHANGED uiVars /\ UNCHANGED turn

\* The caller closed its connection: the server drops the handler's future.
\* What is already in the channel or in the map stays there.
Disconnect(r) ==
  /\ handler[r] \in {"sending", "waiting"}
  /\ handler' = [handler EXCEPT ![r] = "dropped"]
  /\ UNCHANGED <<queue, bridge, oneshot, prompts, pending, timers>>
  /\ UNCHANGED uiVars /\ UNCHANGED turn

--------------------------------------------------------------------------------
(* The desktop side: spawn_approval_bridge, its timers, respond_approval.       *)

\* One turn of the bridge's loop begins: take a prompt, give it the next id,
\* store the responder, emit the event (lost when the webview has no listener
\* yet), notify, redraw the tray. The turn ends in SpawnTimer.
BridgeTake ==
  /\ bridge /\ turn = {} /\ queue # <<>>
  /\ LET id == Len(prompts) + 1 IN
     /\ prompts' = Append(prompts, Head(queue))
     /\ queue' = Tail(queue)
     /\ pending' = pending \cup {id}
     /\ dialogs' \in {dialogs, dialogs \cup {id}}
     /\ turn' = {id}
  /\ UNCHANGED <<handler, bridge, oneshot, timers, answered, clicked>>

\* The receiver goes away at shutdown: the prompts in the channel are dropped
\* with their reply senders.
BridgeGone ==
  /\ bridge /\ turn = {}
  /\ bridge' = FALSE
  /\ queue' = <<>>
  /\ oneshot' = [r \in Requests |->
                   IF \E i \in 1..Len(queue) : queue[i] = r THEN "closed" ELSE oneshot[r]]
  /\ UNCHANGED <<handler, prompts, pending, timers>>
  /\ UNCHANGED uiVars /\ UNCHANGED turn

\* Removing the responder from the map and sending the decision through it.
Settle(id, decision) ==
  /\ pending' = pending \ {id}
  /\ oneshot' = [oneshot EXCEPT ![prompts[id]] = decision]

\* Mutant: rejects whether or not the responder is still in the map.
TimerAlwaysRejects(id) ==
  /\ id \in timers
  /\ timers' = timers \ {id}
  /\ Settle(id, "Reject")
  /\ UNCHANGED <<handler, queue, bridge, prompts, turn>> /\ UNCHANGED uiVars

\* The 60 s sleep ends: reject, if nobody answered.
TimerFires(id) ==
  /\ id \in timers
  /\ timers' = timers \ {id}
  /\ \/ id \in pending /\ Settle(id, "Reject")
     \/ id \notin pending /\ UNCHANGED <<pending, oneshot>>
  /\ UNCHANGED <<handler, queue, bridge, prompts, turn>> /\ UNCHANGED uiVars

\* The user presses a button of the dialog on screen. The dialog stays until
\* the IPC call has returned, so the button can be pressed again; an id that is
\* no longer pending is an error the webview ignores.
RespondApproval(decision) ==
  /\ \E id \in Ids :
        /\ Current(id)
        /\ clicked' = [clicked EXCEPT ![prompts[id]] = IF @ = "none" THEN decision ELSE @]
        /\ answered' = answered \cup {id}
        /\ \/ id \in pending /\ Settle(id, decision)
           \/ id \notin pending /\ UNCHANGED <<pending, oneshot>>
  /\ UNCHANGED <<handler, queue, bridge, prompts, timers, dialogs, turn>>

\* resolveApproval's setApprovals(filter): the answered dialog leaves the queue.
Dismiss(id) ==
  /\ id \in answered
  /\ dialogs' = dialogs \ {id}
  /\ answered' = answered \ {id}
  /\ UNCHANGED <<handler, queue, bridge, oneshot, prompts, pending, timers, clicked>>
  /\ UNCHANGED turn

\* Mutant: prompts of callers that have gone get no timer.
SpawnTimerOfConnected(id) ==
  /\ turn = {id}
  /\ turn' = {}
  /\ timers' = IF handler[prompts[id]] = "dropped" THEN timers ELSE timers \cup {id}
  /\ UNCHANGED <<handler, queue, bridge, oneshot, prompts, pending>>
  /\ UNCHANGED uiVars

\* The end of the bridge's turn: the prompt's timer task is spawned.
SpawnTimer(id) ==
  /\ turn = {id}
  /\ turn' = {}
  /\ timers' = timers \cup {id}
  /\ UNCHANGED <<handler, queue, bridge, oneshot, prompts, pending>>
  /\ UNCHANGED uiVars

--------------------------------------------------------------------------------
Next ==
  \/ \E r \in Requests : Ask(r) \/ Send(r) \/ Resume(r) \/ Disconnect(r)
  \/ BridgeTake
  \/ BridgeGone
  \/ \E id \in Ids : SpawnTimer(id) \/ TimerFires(id) \/ Dismiss(id)
  \/ \E decision \in {"Approve", "Reject"} : RespondApproval(decision)

\* The async runtime runs every task that can run, and every sleep ends. The
\* user owes nobody an answer, and callers need not stay connected.
Fairness ==
  /\ \A r \in Requests : WF_vars(Send(r)) /\ WF_vars(Resume(r))
  /\ WF_vars(BridgeTake)
  /\ \A id \in 1..Cardinality(Requests) : WF_vars(SpawnTimer(id)) /\ WF_vars(TimerFires(id))

Spec == Init /\ [][Next]_vars /\ Fairness
--------------------------------------------------------------------------------
(* Properties *)

\* A handler that goes on with Approve (approval.rs request_approval) does so on
\* the user's own first press of Approve in the dialog of that very call: not
\* on a timer, a shutdown, a second press, or another prompt's answer.
ApprovedByUser == \A r \in Requests : handler[r] = "Approve" => clicked[r] = "Approve"

\* No handler waits on a reply nobody holds any more: its prompt is still in
\* the channel, or its responder is in the map, or its reply is there
\* (request_approval's answer.await always returns).
NobodyForgotten ==
  \A r \in Requests : handler[r] = "waiting" =>
    \/ \E i \in 1..Len(queue) : queue[i] = r
    \/ \E id \in pending : prompts[id] = r
    \/ oneshot[r] # "open"

\* Every responder in the map has its timer task asleep, or the bridge is still
\* in the turn that spawns it: an unanswered prompt cannot stay for ever.
PendingHasTimer ==
  \A id \in pending : id \in timers \cup turn

\* A reply, once sent, is never replaced: the click that races the 60 s timer
\* (respond_approval against the timer's remove) has one winner.
RepliesOnce == [][\A r \in Requests : oneshot[r] # "open" => oneshot'[r] = oneshot[r]]_vars

\* Every prompt leaves the map, also when its caller has gone away or the user
\* never looks (the auto-reject of spawn_approval_bridge).
EveryPromptClears == \A id \in 1..Cardinality(Requests) : id \in pending ~> id \notin pending

\* The broker implements the one-shot decision: each call is decided once, as
\* consented, and always in the end.
Decision == INSTANCE OneShotDecision WITH
  decision <- [r \in Requests |->
                 CASE handler[r] = "idle" -> "none"
                   [] handler[r] \in {"sending", "waiting"} -> "asked"
                   [] handler[r] = "dropped" -> "abandoned"
                   [] OTHER -> handler[r]],
  consent  <- {r \in Requests : clicked[r] = "Approve"}
DecidesOnce == Decision!Spec

\* The broker's tables fit together: types, a holder for every reply that is waited for, a timer for every responder
\* (spawn_approval_bridge).
Consistent == TypeOK /\ NobodyForgotten /\ PendingHasTimer

\* Every prompt is settled in the end and by one of click and timer only (respond_approval, spawn_approval_bridge).
EveryPromptSettlesOnce == RepliesOnce /\ EveryPromptClears
================================================================================
