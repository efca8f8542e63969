--------------------------------- MODULE Proving ---------------------------------
(***************************************************************************)
(* The proving jobs with the backend that serves them: the native prover,  *)
(* which runs the snip36 CLI in a working directory of its own (crates/    *)
(* prover: native_prover.rs, snip36.rs), and the remote one (prover.rs).   *)
(* The CLI leads a process group, with the runner it starts; both go on    *)
(* when the process that started them dies.                                *)
(***************************************************************************)
EXTENDS ProverJobs

\* For each call, what the backend has outside of the process:
\*   none    nothing
\*   asked   a request to the remote prover
\*   alive   the CLI and its runner, and the working directory with the transaction
\*   done    the CLI has left with success, and its runner with it; the directory
\*   failed  the CLI has left otherwise, and its runner with it; the directory
\*   orphan  the CLI has left otherwise, and not its runner; the directory
\*   left    the call was dropped, and what it had besides the CLI itself goes on without it
\*   spoiled the OS refused a write, a removal or a wait, and runner or directory remain
VARIABLE proc

pvars == <<vars, proc>>

Becomes(c, p) == proc' = [proc EXCEPT ![c] = p]

PInit == Init /\ proc = [c \in Calls |-> "none"]

--------------------------------------------------------------------------------
(* The native prover.                                                      *)

Proves(c) == stage[c] = "proving"

\* No binary, no RPC URL, or a preflight that fails: a transaction that is not signed, a node that names no block, a
\* nonce that is not the account's. A directory whose transaction could not be written is left behind.
Refuse(c) == FinishAs(c, "failed") /\ (UNCHANGED proc \/ Becomes(c, "spoiled"))

Launch(c) == Becomes(c, "alive") /\ UNCHANGED vars

\* The remote prover gets one request, without a limit on its time.
Ask(c) == Becomes(c, "asked") /\ UNCHANGED vars

\* Which prover it is was chosen by build_prover_state; here it may be another one each time.
Start(c) ==
    /\ Proves(c) /\ proc[c] = "none"
    /\ Refuse(c) \/ Launch(c) \/ Ask(c)

CliExits(c) ==
    /\ Proves(c) /\ proc[c] = "alive"
    /\ \E how \in {"done", "failed", "orphan"} : Becomes(c, how)
    /\ UNCHANGED vars

\* prove removes the directory whatever came of it, as far as the file system lets it.
RemoveDir(c) == Becomes(c, "none") \/ Becomes(c, "spoiled")

\* Outputs that are not all there are a failure, too.
Outcomes(c) == IF proc[c] = "done" THEN Terminal ELSE {"failed"}

\* Mutant: the group is only killed when the time is over.
CollectNoKill(c) ==
    /\ Proves(c) /\ proc[c] \in {"done", "failed", "orphan"}
    /\ \E status \in Outcomes(c) : FinishAs(c, status)
    /\ IF proc[c] = "orphan" THEN UNCHANGED proc ELSE RemoveDir(c)

\* The outputs are read after a success, the group is killed after a failure.
Collect(c) ==
    /\ Proves(c) /\ proc[c] \in {"done", "failed", "orphan"}
    /\ \E status \in Outcomes(c) : FinishAs(c, status)
    /\ RemoveDir(c)

\* Mutant: only the CLI is waited for, without a limit.
TimedOutNever(c) == Proves(c) /\ proc[c] = "alive" /\ UNCHANGED pvars

\* The group is killed.
TimedOut(c) == Proves(c) /\ proc[c] = "alive" /\ FinishAs(c, "failed") /\ RemoveDir(c)

\* The wait itself fails: kill_on_drop reaches the CLI alone.
WaitFails(c) == Proves(c) /\ proc[c] = "alive" /\ FinishAs(c, "failed") /\ Becomes(c, "spoiled")

RemoteAnswers(c) == Proves(c) /\ proc[c] = "asked" /\ Finish(c) /\ Becomes(c, "none")

--------------------------------------------------------------------------------
(* The jobs, with what happens to the processes meanwhile.                 *)

LeftBehind(p) == IF p \in {"none", "asked"} THEN "none" ELSE "left"

\* The future of the proof is dropped: again kill_on_drop reaches the CLI alone, and nobody removes the directory.
PDisconnect(c) == Disconnect(c) /\ Becomes(c, LeftBehind(proc[c]))

PRestart == Restart /\ proc' = [c \in Calls |-> LeftBehind(proc[c])]

Bookkeeping(c) == (Begin(c) \/ Save(c)) /\ UNCHANGED proc

Proof(c) == Start(c) \/ CliExits(c) \/ Collect(c) \/ TimedOut(c) \/ WaitFails(c) \/ RemoteAnswers(c)

PNext == \/ \E c \in Calls : (Create(c) /\ UNCHANGED proc) \/ Bookkeeping(c) \/ PDisconnect(c) \/ Proof(c)
         \/ Clear /\ UNCHANGED proc
         \/ PRestart

\* Tasks are run and timers fire. The CLI may run for ever; a remote prover answers.
PFairness == \A c \in Calls :
    /\ WF_pvars(Bookkeeping(c)) /\ WF_pvars(Start(c)) /\ WF_pvars(Collect(c))
    /\ WF_pvars(TimedOut(c)) /\ WF_pvars(RemoteAnswers(c))

PSpec == PInit /\ [][PNext]_pvars /\ PFairness

--------------------------------------------------------------------------------
(* Properties.                                                             *)

\* A job that has ended has left no runner and no transaction on the disk: a failed or late CLI takes its runner with
\* it on every path the OS allows. Jobs that were dropped with their caller, or with the process, have not ended
\* (snip36.rs, run_and_parse; native_prover.rs, prove).
EndedLeavesNothing ==
    \A n \in DOMAIN jobs : jobs[n].status \in Terminal => proc[jobs[n].call] \in {"none", "spoiled"}

\* The jobs do what ProverJobs says of them, its fairness included: every proof that has begun ends, because the
\* native prover's time is limited whatever the CLI does (lib.rs, enqueue_prove; snip36.rs, run_and_parse).
ImplementsJobs == Spec
================================================================================
