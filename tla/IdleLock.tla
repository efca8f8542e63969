--------------------------------- MODULE IdleLock ---------------------------------
(***************************************************************************)
(* The auto-lock task against everything else that takes the session       *)
(* mutex: the unlock, lock, deploy_account, finalize_setup and reveal_seed *)
(* commands (desktop/src-tauri/src/lib.rs) and the RPC traffic that counts *)
(* as activity (wallet-rpc/src/dispatch.rs); the delay that unlock and     *)
(* reveal_seed share; and the form the phrase is shown in (RevealSeed.tsx).*)
(*                                                                         *)
(* The tokio mutex serves its waiters in order: session is the queue, its  *)
(* head holds the guard. Time is counted in ticks; what can run runs       *)
(* before the next tick, except a deploy waiting for its node.             *)
(***************************************************************************)
EXTENDS PassphraseBackoff, Sequences, FiniteSets

CONSTANTS Window,               \* auto_lock_minutes, in ticks
          Poll,                 \* the task's sleep, 30 s, in ticks
          AutoHide,             \* AUTO_HIDE_MS, in ticks
          Unlocks,              \* bound: unlock calls waiting at once (the button stays enabled)
          MaxMisses             \* bound: wrong passphrases in a row

ASSUME TimesAssumption ==
  /\ Window \in Nat \ {0} /\ Poll \in Nat \ {0} /\ AutoHide \in Nat \ {0}
  /\ Unlocks \in Nat \ {0} /\ MaxMisses \in Nat

VARIABLES
  vault,        \* there is a vault file, else onboarding is offered
  unlocked,     \* the session
  session,      \* who waits for its mutex, the holder first
  idle,         \* ticks since last_activity_ms was stored
  task,         \* the auto-lock task: asleep, or decided and waiting
  nap,          \* ticks left of its sleep
  enabled,      \* auto_lock_minutes # 0 in config.json
  toTouch,      \* an unlock has released the mutex and not yet touched
  over,         \* history: ticks spent unlocked past the window
  backoff,      \* passphrase_backoff
  waited,       \* history: delays that have ended since the last right passphrase
  form          \* RevealSeed: [open, busy, phrase, timer] and, as history, the phrase's age

clocks == <<idle, task, nap, enabled, toTouch, over>>
guard  == <<backoff, waited>>
vars   == <<vault, unlocked, session, clocks, guard, form>>

Commands == {"unlock", "lock", "deploy", "setup", "askReveal", "reveal"}

\* No count above this one tells anything new.
Cap == Window + Poll + 1
Later(n) == IF n < Cap THEN n + 1 ELSE n

Waiting(p) == {i \in 1..Len(session) : session[i] = p}
Waits(p) == Waiting(p) # {}
Holds(p) == session # <<>> /\ Head(session) = p
Overdue == unlocked /\ enabled /\ idle >= Window

NoTimer == AutoHide + 1
Collapsed == [open |-> FALSE, busy |-> FALSE, phrase |-> FALSE, timer |-> NoTimer, age |-> 0]

TypeOK ==
  /\ vault \in BOOLEAN /\ unlocked \in BOOLEAN /\ enabled \in BOOLEAN /\ toTouch \in BOOLEAN
  /\ session \in Seq(Commands \cup {"auto"})
  /\ \A i, j \in 1..Len(session) : session[i] = session[j] /\ session[i] # "unlock" => i = j
  /\ idle \in 0..Cap /\ over \in 0..Cap
  /\ task \in {"sleep", "wait"} /\ nap \in 0..Poll
  /\ task = "wait" <=> Waits("auto")
  /\ backoff \in PassphraseBackoff /\ backoff.failures <= MaxMisses
  /\ form.busy => Waits("askReveal") \/ Waits("reveal")
  /\ form.phrase <=> form.timer # NoTimer

Init ==
  /\ vault \in BOOLEAN /\ unlocked = FALSE /\ session = <<>>
  /\ idle = 0 /\ over = 0
  /\ task = "sleep" /\ nap = Poll
  /\ enabled \in BOOLEAN /\ toTouch = FALSE
  /\ backoff = record_success /\ waited = 0
  /\ form = Collapsed

--------------------------------------------------------------------------------
(* The auto-lock task. *)

Sleep == task' = "sleep" /\ nap' = Poll

\* Mutant: the idle time is compared in the wrong unit.
AutoCheckWrongUnit ==
  /\ task = "sleep" /\ nap = 0
  /\ IF enabled /\ idle >= Window * 60
     THEN task' = "wait" /\ nap' = nap /\ session' = Append(session, "auto")
     ELSE Sleep /\ UNCHANGED session
  /\ UNCHANGED <<vault, unlocked, idle, enabled, toTouch, over, guard, form>>

\* Mutant: goes back to sleep without having asked for the mutex.
AutoCheckTryLock ==
  /\ task = "sleep" /\ nap = 0
  /\ IF enabled /\ idle >= Window /\ session = <<>>
     THEN task' = "wait" /\ nap' = nap /\ session' = Append(session, "auto")
     ELSE Sleep /\ UNCHANGED session
  /\ UNCHANGED <<vault, unlocked, idle, enabled, toTouch, over, guard, form>>

\* The settings and last_activity_ms are read before the mutex is asked for.
AutoCheck ==
  /\ task = "sleep" /\ nap = 0
  /\ IF enabled /\ idle >= Window
     THEN task' = "wait" /\ nap' = nap /\ session' = Append(session, "auto")
     ELSE Sleep /\ UNCHANGED session
  /\ UNCHANGED <<vault, unlocked, idle, enabled, toTouch, over, guard, form>>

\* With the guard nothing is read again: the wallet is locked.
AutoLock ==
  /\ Holds("auto")
  /\ unlocked' = FALSE
  /\ session' = Tail(session)
  /\ Sleep
  /\ over' = 0
  /\ UNCHANGED <<vault, idle, enabled, toTouch, guard, form>>

--------------------------------------------------------------------------------
(* The commands, each asking for the mutex and then using it. *)

\* The unlock screen and onboarding are offered while locked, the rest while
\* unlocked. A guess is refused before it queues while a delay is in force.
Offered(p) ==
  CASE p = "unlock" -> vault /\ ~unlocked /\ Cardinality(Waiting(p)) < Unlocks
    [] p = "setup"  -> ~vault /\ ~unlocked /\ ~Waits(p)
    [] OTHER        -> unlocked /\ ~Waits(p)

\* Mutant: the passphrase is tried whatever the delay.
CallUnchecked(p) ==
  /\ Offered(p)
  /\ session' = Append(session, p)
  /\ UNCHANGED <<vault, unlocked, clocks, guard, form>>

Call(p) ==
  /\ Offered(p)
  /\ p = "unlock" => ~Blocked(backoff)
  /\ session' = Append(session, p)
  /\ UNCHANGED <<vault, unlocked, clocks, guard, form>>

RightPassphrase == backoff' = record_success /\ waited' = 0
WrongPassphrase ==
  /\ backoff.failures < MaxMisses
  /\ backoff' = RecordFailure(backoff)
  /\ UNCHANGED waited

\* last_activity_ms is now.
TouchActivity == idle' = 0

\* unlock: the guard is dropped first, the activity touched after it. A vault
\* of another version is refused without being counted.
UnlockOpens ==
  /\ Holds("unlock")
  /\ session' = Tail(session)
  /\ \/ unlocked' = TRUE /\ toTouch' = TRUE /\ RightPassphrase
     \/ WrongPassphrase /\ UNCHANGED <<unlocked, toTouch>>
     \/ UNCHANGED <<unlocked, toTouch, guard>>
  /\ UNCHANGED <<vault, idle, task, nap, enabled, over, form>>

UnlockTouches ==
  /\ toTouch
  /\ toTouch' = FALSE /\ TouchActivity
  /\ UNCHANGED <<vault, unlocked, session, task, nap, enabled, over, guard, form>>

LockDone ==
  /\ Holds("lock")
  /\ session' = Tail(session) /\ unlocked' = FALSE /\ over' = 0
  /\ UNCHANGED <<vault, idle, task, nap, enabled, toTouch, guard, form>>

\* finalize_setup installs an unlocked session and touches nothing.
SetupInstalls ==
  /\ Holds("setup")
  /\ session' = Tail(session) /\ unlocked' = TRUE /\ vault' = TRUE
  /\ UNCHANGED <<clocks, guard, form>>

\* deploy_account keeps the guard through its calls to the node.
DeployDone ==
  /\ Holds("deploy")
  /\ session' = Tail(session)
  /\ UNCHANGED <<vault, unlocked, clocks, guard, form>>

--------------------------------------------------------------------------------
(* The recovery phrase: RevealSeed's form and the reveal_seed command, which *)
(* takes the mutex for the network, then again for the phrase.               *)

Expand ==
  /\ ~form.open
  /\ form' = [form EXCEPT !.open = TRUE]
  /\ UNCHANGED <<vault, unlocked, session, clocks, guard>>

\* One command at a time, also of a form that has been left (a bound).
Reveal ==
  /\ form.open /\ ~form.busy /\ ~form.phrase
  /\ Offered("askReveal") /\ ~Waits("reveal")
  /\ session' = Append(session, "askReveal")
  /\ form' = [form EXCEPT !.busy = TRUE]
  /\ UNCHANGED <<vault, unlocked, clocks, guard>>

\* Mutant: the timer is only set on a form that is open.
AnswerTimesOpen(phrase) ==
  form' = IF ~form.busy THEN form
          ELSE [form EXCEPT !.busy = FALSE, !.phrase = phrase, !.age = 0,
                            !.timer = IF phrase /\ form.open THEN AutoHide ELSE NoTimer]

\* A form that has been left hears nothing; one that was cancelled does.
Answer(phrase) ==
  form' = IF ~form.busy THEN form
          ELSE [form EXCEPT !.busy = FALSE, !.phrase = phrase, !.age = 0,
                            !.timer = IF phrase THEN AutoHide ELSE NoTimer]

\* The delay is checked after the network was read and before the second wait.
RevealAsks ==
  /\ Holds("askReveal")
  /\ IF Blocked(backoff)
     THEN session' = Tail(session) /\ Answer(FALSE)
     ELSE session' = Append(Tail(session), "reveal") /\ UNCHANGED form
  /\ UNCHANGED <<vault, unlocked, clocks, guard>>

\* A lock screen reveals nothing and counts nothing.
RevealOpens ==
  /\ Holds("reveal")
  /\ session' = Tail(session)
  /\ \/ ~unlocked /\ Answer(FALSE) /\ UNCHANGED guard
     \/ unlocked /\ Answer(TRUE) /\ RightPassphrase
     \/ unlocked /\ Answer(FALSE) /\ WrongPassphrase
  /\ UNCHANGED <<vault, unlocked, clocks>>

Cleared == [form EXCEPT !.phrase = FALSE, !.timer = NoTimer, !.age = 0]

\* Cancel and Hide; a command under way goes on.
Hide ==
  /\ form.open
  /\ form' = [Cleared EXCEPT !.open = FALSE]
  /\ UNCHANGED <<vault, unlocked, session, clocks, guard>>

HideTimer ==
  /\ form.timer = 0
  /\ form' = Cleared
  /\ UNCHANGED <<vault, unlocked, session, clocks, guard>>

\* Another tab, or the lock screen once the status poll has seen the lock.
LeaveTab ==
  /\ form # Collapsed
  /\ form' = Collapsed
  /\ UNCHANGED <<vault, unlocked, session, clocks, guard>>

--------------------------------------------------------------------------------
\* dispatch touches the activity without the mutex.
RpcRequest ==
  /\ TouchActivity
  /\ UNCHANGED <<vault, unlocked, session, task, nap, enabled, toTouch, over, guard, form>>

SetAutoLock ==
  /\ enabled' = ~enabled /\ over' = 0
  /\ UNCHANGED <<vault, unlocked, session, idle, task, nap, toTouch, guard, form>>

Runnable == \/ task = "sleep" /\ nap = 0
            \/ toTouch
            \/ session # <<>> /\ ~Holds("deploy")
            \/ form.timer = 0

Tick ==
  /\ ~Runnable
  /\ idle' = Later(idle)
  /\ over' = IF Overdue THEN Later(over) ELSE 0
  /\ nap' = IF task = "sleep" THEN nap - 1 ELSE nap
  /\ backoff' = Elapse(backoff)
  /\ waited' = IF backoff.left = 1 THEN waited + 1 ELSE waited
  /\ form' = IF form.phrase THEN [form EXCEPT !.age = @ + 1, !.timer = IF @ = NoTimer THEN @ ELSE @ - 1] ELSE form
  /\ UNCHANGED <<vault, unlocked, session, task, enabled, toTouch>>

Next ==
  \/ AutoCheck \/ AutoLock
  \/ \E p \in {"unlock", "lock", "deploy", "setup"} : Call(p)
  \/ UnlockOpens \/ UnlockTouches \/ LockDone \/ SetupInstalls \/ DeployDone
  \/ Expand \/ Reveal \/ RevealAsks \/ RevealOpens \/ Hide \/ HideTimer \/ LeaveTab
  \/ RpcRequest \/ SetAutoLock
  \/ Tick

\* Time passes whatever the user does, the runtime and the webview run what can
\* run, and the node answers a deploy.
Fairness ==
  /\ WF_vars(AutoCheck) /\ WF_vars(AutoLock)
  /\ WF_vars(UnlockOpens) /\ WF_vars(UnlockTouches) /\ WF_vars(LockDone)
  /\ WF_vars(SetupInstalls) /\ WF_vars(DeployDone)
  /\ WF_vars(RevealAsks) /\ WF_vars(RevealOpens) /\ WF_vars(HideTimer)
  /\ SF_vars(Tick)

Spec == Init /\ [][Next]_vars /\ Fairness
--------------------------------------------------------------------------------
(* Properties *)

\* A wallet unlocked past its window for longer than one sleep of the task has
\* the task in the mutex's queue: only commands that asked for the session
\* before it, a deploy on the node's time at worst, still delay the lock (the
\* auto-lock task of run).
BoundedExposure == Overdue /\ over > Poll => Waits("auto")

\* A wallet idle past its window does get locked, unless something happens to
\* it or the setting is turned off.
OverdueLocks == Overdue ~> ~Overdue

\* Wrong passphrases in a row are the free ones and, for each delay waited out,
\* no more than the guesses that were under way when it began: a guess passes
\* the check before it waits for the mutex and is not checked again (unlock,
\* reveal_seed, backoff.rs).
MissesArePaidFor == backoff.failures <= FreeAttempts + Unlocks * (waited + 1)

\* A phrase is in the page no longer than AUTO_HIDE_MS after its passphrase was
\* given, also when it came after the form had been cancelled, or the wallet
\* was locked meanwhile (RevealSeed.tsx, reveal).
RevealedBriefly == form.phrase => form.age <= AutoHide

\* Types, and no phrase in the page past its time (RevealSeed.tsx).
Consistent == TypeOK /\ RevealedBriefly
================================================================================
