------------------------------- MODULE ProverJobs ------------------------------
(***************************************************************************)
(* The proving jobs (crates/prover: jobs.rs, storage.rs, enqueue_prove and *)
(* prove_unrecorded in lib.rs).  Jobs and the activity feed live in memory *)
(* and end with the process, records live in one file per job, named by    *)
(* the job's number; the counter starts behind the highest file name that  *)
(* the start finds.                                                        *)
(* Calls are told apart, so that a number given out twice is seen.         *)
(***************************************************************************)
EXTENDS Integers, FiniteSets, Sequences, SequencesExt

CONSTANTS Recorded,             \* calls of enqueue_prove (companion_prove, companion_signAndProve, the test prove)
          Unrecorded,           \* calls of prove_unrecorded (STRK20): their payload holds a viewing key
          Cap,                  \* ACTIVITY_CAP
          MaxBoots              \* bound: starts of the process

ASSUME ConstantsAssumption == Cap \in Nat \ {0} /\ MaxBoots \in Nat \ {0} /\ Recorded \cap Unrecorded = {}

VARIABLES stage,                \* where each call's task stands
          number,               \* the number of each call's job
          jobs,                 \* the job table: number -> [call, status]
          feed,                 \* the activity feed, oldest first: [number, status]
          seq,                  \* the job counter
          files,                \* the records on disk: number -> [call, status]
          unseen,               \* history: the records that the last start could not list
          boots                 \* starts of the process so far

vars == <<stage, number, jobs, feed, seq, files, unseen, boots>>

Calls == Recorded \cup Unrecorded
Terminal == {"succeeded", "failed"}
Running == {"queued", "proving", "save"}

\* The map f with v under n.
Put(f, n, v) == [m \in DOMAIN f \cup {n} |-> IF m = n THEN v ELSE f[m]]

Init == /\ stage = [c \in Calls |-> "idle"]
        /\ number = [c \in Calls |-> 0]
        /\ jobs = << >>
        /\ feed = << >>
        /\ seq = 0
        /\ files = << >>
        /\ unseen = {}
        /\ boots = 1

--------------------------------------------------------------------------------
Push(n, status) ==
    LET longer == Append(feed, [number |-> n, status |-> status])
    IN  IF Len(longer) > Cap THEN Tail(longer) ELSE longer

\* Nothing happens to a job that is not in the table.
SetStatus(c, status) ==
    IF number[c] \in DOMAIN jobs
    THEN /\ jobs' = [jobs EXCEPT ![number[c]].status = status]
         /\ feed' = Push(number[c], status)
    ELSE UNCHANGED <<jobs, feed>>

Create(c) ==
    /\ stage[c] = "idle"
    /\ stage' = [stage EXCEPT ![c] = "queued"]
    /\ number' = [number EXCEPT ![c] = seq]
    /\ seq' = seq + 1
    /\ jobs' = Put(jobs, seq, [call |-> c, status |-> "queued"])
    /\ feed' = Push(seq, "queued")
    /\ UNCHANGED <<files, unseen, boots>>

Begin(c) ==
    /\ stage[c] = "queued"
    /\ stage' = [stage EXCEPT ![c] = "proving"]
    /\ SetStatus(c, "proving")
    /\ UNCHANGED <<number, seq, files, unseen, boots>>

\* The backend answers or fails: the native prover at the latest when its time is over. A request to the remote prover
\* has no such limit, so that for a job of its this step may never come.
Finished(c, status, next) ==
    /\ stage[c] = "proving"
    /\ stage' = [stage EXCEPT ![c] = next]
    /\ SetStatus(c, status)
    /\ UNCHANGED <<number, seq, files, unseen, boots>>

FinishAsRecords(c, status) == Finished(c, status, "save")       \* mutant: STRK20 jobs are recorded too
FinishAsRetries(c, status) ==                                   \* mutant: a failed proof is queued again
    Finished(c, status, IF status = "failed" THEN "queued" ELSE IF c \in Recorded THEN "save" ELSE "over")
FinishAs(c, status) == Finished(c, status, IF c \in Recorded THEN "save" ELSE "over")
Finish(c) == \E status \in Terminal : FinishAs(c, status)

Written(n) == Put(files, n, jobs[n])
Damaged(n) == Put(files, n, [jobs[n] EXCEPT !.status = "damaged"])

\* Best effort: a file that cannot be written, or only in part, is not missed by anyone.
Save(c) ==
    /\ stage[c] = "save"
    /\ stage' = [stage EXCEPT ![c] = "over"]
    /\ files' \in {files, Written(number[c]), Damaged(number[c])}
    /\ UNCHANGED <<number, jobs, feed, seq, unseen, boots>>

\* The caller of a STRK20 method disconnects: prove_unrecorded is dropped with its handler, and its job stays as it is.
Disconnect(c) ==
    /\ c \in Unrecorded
    /\ stage[c] \in {"queued", "proving"}
    /\ stage' = [stage EXCEPT ![c] = "over"]
    /\ UNCHANGED <<number, jobs, feed, seq, files, unseen, boots>>

ClearRestartsIds ==                                             \* mutant: clearing the records restarts the counter
    /\ files # << >>
    /\ files' = << >>
    /\ seq' = 0
    /\ UNCHANGED <<stage, number, jobs, feed, unseen, boots>>
Clear ==
    /\ files # << >>
    /\ \E kept \in SUBSET DOMAIN files : files' = Restrict(files, kept)     \* a file that cannot be removed stays
    /\ UNCHANGED <<stage, number, jobs, feed, seq, unseen, boots>>

NextSeqHighest(listed, n) ==                                    \* mutant: the highest number is the next one
    IF listed = {} THEN n = 0 ELSE n \in listed /\ \A m \in listed : m <= n
\* max_seq goes by the names of the files that the directory gives it, whatever is in them. An entry, or the whole
\* directory, that cannot be read counts as not there.
NextSeq(listed, n) ==
    IF listed = {} THEN n = 0 ELSE n - 1 \in listed /\ \A m \in listed : m < n

\* The process dies and starts again: a record that was being written may be left in pieces under its name.
Restart ==
    /\ boots < MaxBoots
    /\ boots' = boots + 1
    /\ \E left \in {files} \cup {Damaged(number[c]) : c \in {d \in Calls : stage[d] = "save"}} :
          /\ files' = left
          /\ \E listed \in SUBSET DOMAIN left :
                /\ unseen' = DOMAIN left \ listed
                /\ \E n \in {0} \cup {m + 1 : m \in listed} : NextSeq(listed, n) /\ seq' = n
    /\ stage' = [c \in Calls |-> IF stage[c] \in Running THEN "over" ELSE stage[c]]
    /\ jobs' = << >>
    /\ feed' = << >>
    /\ number' = [c \in Calls |-> 0]

--------------------------------------------------------------------------------
Task(c) == Begin(c) \/ Finish(c) \/ Save(c)

Next == \/ \E c \in Calls : Create(c) \/ Task(c) \/ Disconnect(c)
        \/ Clear \/ Restart

\* The runtime runs the tasks. That a remote prover answers is assumed here: nothing in the code limits its time.
Spec == Init /\ [][Next]_vars /\ \A c \in Calls : WF_vars(Task(c))

--------------------------------------------------------------------------------
(* Properties.                                                             *)

TypeOK ==
    /\ stage \in [Calls -> {"idle", "over"} \cup Running]
    /\ number \in [Calls -> Nat] /\ seq \in Nat /\ unseen \subseteq Nat /\ boots \in 1..MaxBoots
    /\ Len(feed) <= Cap
    /\ \A n \in DOMAIN jobs : jobs[n].call \in Calls /\ jobs[n].status \in Terminal \cup {"queued", "proving"}
    /\ \A n \in DOMAIN files : files[n].call \in Calls /\ files[n].status \in Terminal \cup {"damaged"}

\* A running call's number means its own job: nobody polls another caller's proof, and no task finishes a job that is
\* not its own, whatever was cleared or restarted before (jobs.rs, Jobs::create; lib.rs, build_prover_state).
NumberIsMine ==
    \A c \in Calls : stage[c] \in Running => number[c] \in DOMAIN jobs /\ jobs[number[c]].call = c

\* A record on disk that the last start has listed, or that was written since, is never replaced by another one: new
\* numbers are behind those of all such files, also after saves that failed, a clear in between or a crash in the
\* middle of a write. A record the start could not list may be: the counter knows nothing of it (storage.rs, max_seq
\* and save; lib.rs, build_prover_state).
RecordsKept == [][\A n \in (DOMAIN files \cap DOMAIN files') \ unseen : files'[n] = files[n]]_files

\* What the feed says last about a job is what the job is, however much of the feed has been dropped, and what has
\* just happened is in it (jobs.rs, push_activity).
FeedTellsLatest ==
    /\ \A i \in DOMAIN feed :
          LET n == feed[i].number
          IN  n \in DOMAIN jobs /\ (\A j \in DOMAIN feed : j > i => feed[j].number # n)
              => feed[i].status = jobs[n].status
    /\ jobs # << >> => feed # << >>

\* No payload with a viewing key reaches the disk (lib.rs, prove_unrecorded).
SecretsOffDisk == \A n \in DOMAIN files : files[n].call \notin Unrecorded

\* Every job that is enqueued ends, with its task or with the process, if its backend comes to an end: the native
\* prover does, of the remote one it is assumed (lib.rs, enqueue_prove).
EnqueuedEnds == \A c \in Recorded : stage[c] \in Running ~> stage[c] = "over"

\* Types, a feed and a table that agree, and no STRK20 payload among the records (jobs.rs, prove_unrecorded).
Consistent == TypeOK /\ FeedTellsLatest /\ SecretsOffDisk
================================================================================
