---------------------------- MODULE ProverJobsProofs ----------------------------
(***************************************************************************)
(* Theorems about ProverJobs and about Proving, which refines it: for any  *)
(* number of calls, any feed and any number of starts.                     *)
(***************************************************************************)
EXTENDS Proving, SequenceTheorems, TLAPS

Tables ==
    /\ stage \in [Calls -> {"idle", "over"} \cup Running]
    /\ number \in [Calls -> Nat] /\ seq \in Nat
    /\ jobs \in [DOMAIN jobs -> [call : Calls, status : Terminal \cup {"queued", "proving"}]]
    /\ files \in [DOMAIN files -> [call : Calls, status : Terminal \cup {"queued", "proving", "damaged"}]]
    /\ unseen \subseteq Nat

\* The records the last start has listed, and those written since.
Known == DOMAIN files \ unseen

\* The counter is ahead of every number in use, in memory and on disk, as far as it knows the disk.
CounterAhead ==
    /\ DOMAIN jobs \cup DOMAIN files \subseteq Nat
    /\ \A n \in DOMAIN jobs \cup Known : n < seq

\* What runs has no record yet that is known, and what saves is no STRK20 call.
NotYetSaved ==
    \A c \in Calls : /\ stage[c] \in Running => number[c] \notin Known
                     /\ stage[c] = "save" => c \in Recorded

JobsInv == Tables /\ CounterAhead /\ NumberIsMine /\ NotYetSaved /\ SecretsOffDisk

--------------------------------------------------------------------------------
\* Two calls that run have two numbers.
LEMMA NumbersDiffer ==
    ASSUME NumberIsMine, NEW c \in Calls, NEW d \in Calls, stage[c] \in Running, stage[d] \in Running, c # d
    PROVE  number[c] # number[d]
BY DEF NumberIsMine

--------------------------------------------------------------------------------
LEMMA InitInv == Init => JobsInv
BY DEF Init, JobsInv, Tables, CounterAhead, Known, NumberIsMine, NotYetSaved, SecretsOffDisk, Running

LEMMA CreateKeeps == ASSUME JobsInv, NEW c \in Calls, Create(c) PROVE JobsInv'
<1> USE DEF JobsInv
<1> DEFINE job == [call |-> c, status |-> "queued"]
<1>0. /\ stage' = [stage EXCEPT ![c] = "queued"] /\ number' = [number EXCEPT ![c] = seq] /\ stage[c] = "idle"
      /\ seq' = seq + 1 /\ files' = files /\ unseen' = unseen /\ jobs' = Put(jobs, seq, job)
  BY DEF Create
<1>1. /\ DOMAIN jobs' = DOMAIN jobs \cup {seq} /\ jobs'[seq] = job
      /\ seq \notin DOMAIN jobs /\ seq \notin Known
      /\ \A n \in DOMAIN jobs : jobs'[n] = jobs[n]
  BY <1>0 DEF CounterAhead, Known, Tables, Put
<1>2. Tables'
  <2>1. jobs' \in [DOMAIN jobs' -> [call : Calls, status : Terminal \cup {"queued", "proving"}]]
    BY <1>0 DEF Tables, Put
  <2> QED BY <1>0, <2>1 DEF Tables, Running
<1>3. CounterAhead' BY <1>0, <1>1 DEF CounterAhead, Known, Tables
<1>4. NumberIsMine' BY <1>0, <1>1 DEF NumberIsMine, Tables
<1>5. NotYetSaved' BY <1>0, <1>1 DEF NotYetSaved, Known, Tables
<1>6. SecretsOffDisk' BY <1>0 DEF SecretsOffDisk
<1> QED BY <1>2, <1>3, <1>4, <1>5, <1>6

\* A change of status leaves every job whose it is.
LEMMA StatusKeeps ==
    ASSUME JobsInv, NEW c \in Calls, NEW status, SetStatus(c, status), stage[c] \in Running,
           status \in Terminal \cup {"queued", "proving"}, NEW next \in {"proving", "save", "over"}, stage' = [stage EXCEPT ![c] = next],
           next = "save" => c \in Recorded,
           UNCHANGED <<number, seq, files, unseen>>
    PROVE  JobsInv'
<1> USE DEF JobsInv
<1>1. /\ DOMAIN jobs' = DOMAIN jobs /\ \A n \in DOMAIN jobs : jobs'[n].call = jobs[n].call
      /\ jobs' \in [DOMAIN jobs' -> [call : Calls, status : Terminal \cup {"queued", "proving"}]]
  BY DEF SetStatus, Tables
<1>2. Tables' BY <1>1 DEF Tables, Running
<1>3. CounterAhead' BY <1>1 DEF CounterAhead, Known
<1>4. NumberIsMine' BY <1>1 DEF NumberIsMine, Tables, Running
<1>5. NotYetSaved' BY DEF NotYetSaved, Known, Tables, Running
<1>6. SecretsOffDisk' BY DEF SecretsOffDisk
<1> QED BY <1>2, <1>3, <1>4, <1>5, <1>6

LEMMA TaskKeeps == ASSUME JobsInv, NEW c \in Calls, Begin(c) \/ Finish(c) PROVE JobsInv'
<1>1. CASE Begin(c) BY <1>1, StatusKeeps DEF Begin, Running
<1>2. ASSUME NEW status \in Terminal, FinishAs(c, status) PROVE JobsInv'
  <2>1. CASE c \in Recorded BY <1>2, <2>1, StatusKeeps DEF FinishAs, Finished, Running
  <2>2. CASE c \notin Recorded BY <1>2, <2>2, StatusKeeps DEF FinishAs, Finished, Running
  <2> QED BY <2>1, <2>2
<1> QED BY <1>1, <1>2 DEF Finish

\* A record, whole or in pieces, goes where none is known to be.
LEMMA RecordFacts ==
    ASSUME JobsInv, NEW c \in Calls, stage[c] = "save", NEW left \in {Written(number[c]), Damaged(number[c])}
    PROVE  /\ DOMAIN left = DOMAIN files \cup {number[c]} /\ number[c] \notin Known
           /\ \A n \in DOMAIN files \ {number[c]} : left[n] = files[n]
           /\ left[number[c]].call = c /\ c \in Recorded
           /\ number[c] \in Nat /\ number[c] < seq
           /\ left \in [DOMAIN left -> [call : Calls, status : Terminal \cup {"queued", "proving", "damaged"}]]
<1> DEFINE n == number[c]
           Record == [call : Calls, status : Terminal \cup {"queued", "proving", "damaged"}]
<1>1. n \in DOMAIN jobs /\ jobs[n].call = c /\ n \notin Known /\ c \in Recorded
  BY DEF JobsInv, NumberIsMine, NotYetSaved, Running
<1>2. n \in Nat /\ n < seq BY <1>1 DEF JobsInv, CounterAhead
<1>3. jobs[n] \in Record /\ [jobs[n] EXCEPT !.status = "damaged"] \in Record
      /\ [jobs[n] EXCEPT !.status = "damaged"].call = c
  BY <1>1 DEF JobsInv, Tables
<1>4. PICK v \in Record : left = Put(files, n, v) /\ v.call = c
  BY <1>1, <1>3 DEF Written, Damaged
<1>5. files \in [DOMAIN files -> Record] BY DEF JobsInv, Tables
<1> HIDE DEF n, Record
<1>6. /\ DOMAIN left = DOMAIN files \cup {n} /\ \A m \in DOMAIN files \ {n} : left[m] = files[m]
      /\ left[n] = v /\ left \in [DOMAIN left -> Record]
  BY <1>4, <1>5 DEF Put
<1> QED BY <1>1, <1>2, <1>4, <1>6 DEF n, Record

LEMMA SaveKeeps == ASSUME JobsInv, NEW c \in Calls, Save(c) PROVE JobsInv'
<1>0. /\ stage' = [stage EXCEPT ![c] = "over"] /\ stage[c] = "save"
      /\ UNCHANGED <<number, jobs, feed, seq, unseen, boots>>
      /\ files' = files \/ files' \in {Written(number[c]), Damaged(number[c])}
  BY DEF Save
<1>1. \A d \in Calls : stage'[d] \in Running => stage[d] \in Running /\ stage'[d] = stage[d] /\ d # c
  BY <1>0 DEF JobsInv, Tables, Running
<1>2. CASE files' = files
  BY <1>0, <1>1, <1>2 DEF JobsInv, Tables, CounterAhead, Known, NumberIsMine, NotYetSaved, SecretsOffDisk, Running
<1>3. CASE files' \in {Written(number[c]), Damaged(number[c])}
  <2>0. /\ DOMAIN files' = DOMAIN files \cup {number[c]}
        /\ \A n \in DOMAIN files \ {number[c]} : files'[n] = files[n]
        /\ files'[number[c]].call = c /\ c \in Recorded
        /\ number[c] \in Nat /\ number[c] < seq
        /\ files' \in [DOMAIN files' -> [call : Calls, status : Terminal \cup {"queued", "proving", "damaged"}]]
    BY <1>0, <1>3, RecordFacts
  <2>1. Tables' BY <1>0, <2>0 DEF JobsInv, Tables
  <2>2. CounterAhead' BY <1>0, <2>0 DEF JobsInv, CounterAhead, Known
  <2>3. NumberIsMine' BY <1>0, <1>1 DEF JobsInv, NumberIsMine
  <2>4. NotYetSaved'
    <3>1. \A d \in Calls : stage'[d] \in Running => number[d] # number[c]
      BY <1>0, <1>1, NumbersDiffer DEF JobsInv, Running
    <3> QED BY <1>0, <1>1, <2>0, <3>1 DEF JobsInv, NotYetSaved, Known, Running
  <2>5. SecretsOffDisk' BY <2>0, ConstantsAssumption DEF JobsInv, SecretsOffDisk
  <2> QED BY <2>1, <2>2, <2>3, <2>4, <2>5 DEF JobsInv
<1> QED BY <1>0, <1>2, <1>3

LEMMA DisconnectKeeps == ASSUME JobsInv, NEW c \in Calls, Disconnect(c) PROVE JobsInv'
BY DEF JobsInv, Disconnect, Tables, CounterAhead, Known, NumberIsMine, NotYetSaved, SecretsOffDisk, Running

LEMMA ClearKeeps == ASSUME JobsInv, Clear PROVE JobsInv'
<1>1. PICK kept \in SUBSET DOMAIN files : files' = Restrict(files, kept) BY DEF Clear
<1>2. DOMAIN files' \subseteq DOMAIN files /\ \A n \in DOMAIN files' : files'[n] = files[n]
  BY <1>1 DEF Restrict
<1>3. files' \in [DOMAIN files' -> [call : Calls, status : Terminal \cup {"queued", "proving", "damaged"}]]
  BY <1>1 DEF JobsInv, Tables, Restrict
<1> QED BY <1>2, <1>3 DEF JobsInv, Clear, Tables, CounterAhead, Known, NumberIsMine, NotYetSaved, SecretsOffDisk, Running

LEMMA RestartKeeps == ASSUME JobsInv, Restart PROVE JobsInv'
<1>1. PICK left \in {files} \cup {Damaged(number[c]) : c \in {d \in Calls : stage[d] = "save"}} :
        /\ files' = left
        /\ \E listed \in SUBSET DOMAIN left :
              /\ unseen' = DOMAIN left \ listed
              /\ \E n \in {0} \cup {m + 1 : m \in listed} : NextSeq(listed, n) /\ seq' = n
  BY DEF Restart
<1>0. PICK listed \in SUBSET DOMAIN left :
        /\ unseen' = DOMAIN left \ listed
        /\ \E n \in {0} \cup {m + 1 : m \in listed} : NextSeq(listed, n) /\ seq' = n
  BY <1>1
<1>2. /\ \A n \in DOMAIN left : n \in Nat /\ left[n].call \notin Unrecorded
      /\ left \in [DOMAIN left -> [call : Calls, status : Terminal \cup {"queued", "proving", "damaged"}]]
  <2>1. CASE left = files BY <2>1 DEF JobsInv, CounterAhead, SecretsOffDisk, Tables
  <2>2. ASSUME NEW c \in Calls, stage[c] = "save", left = Damaged(number[c]) PROVE <1>2!1 /\ <1>2!2
    <3>1. /\ DOMAIN left = DOMAIN files \cup {number[c]} /\ \A n \in DOMAIN files \ {number[c]} : left[n] = files[n]
          /\ left[number[c]].call = c /\ c \in Recorded /\ number[c] \in Nat
          /\ left \in [DOMAIN left -> [call : Calls, status : Terminal \cup {"queued", "proving", "damaged"}]]
      BY <2>2, RecordFacts
    <3>2. \A n \in DOMAIN files : n \in Nat /\ files[n].call \notin Unrecorded
      BY DEF JobsInv, CounterAhead, SecretsOffDisk
    <3> HIDE DEF JobsInv
    <3> QED BY <3>1, <3>2, ConstantsAssumption
  <2> QED BY <1>1, <2>1, <2>2
<1>3. seq' \in Nat /\ \A n \in listed : n < seq'
  BY <1>0, <1>2 DEF NextSeq
<1>4. /\ jobs' = << >> /\ number' = [c \in Calls |-> 0]
      /\ stage' = [c \in Calls |-> IF stage[c] \in Running THEN "over" ELSE stage[c]]
  BY DEF Restart
<1>5. \A c \in Calls : stage'[c] \notin Running BY <1>4 DEF Running
<1>6. Known' = listed /\ unseen' \subseteq Nat BY <1>0, <1>1, <1>2 DEF Known
<1>7. Tables' BY <1>1, <1>2, <1>3, <1>4, <1>6 DEF JobsInv, Tables, Running
<1>8. CounterAhead' BY <1>1, <1>2, <1>3, <1>4, <1>6 DEF CounterAhead
<1>9. NumberIsMine' /\ NotYetSaved' BY <1>5 DEF NumberIsMine, NotYetSaved, Running
<1>10. SecretsOffDisk' BY <1>1, <1>2 DEF SecretsOffDisk
<1> QED BY <1>7, <1>8, <1>9, <1>10 DEF JobsInv

LEMMA NextKeeps == JobsInv /\ [Next]_vars => JobsInv'
<1>1. ASSUME JobsInv, UNCHANGED vars PROVE JobsInv'
  BY <1>1 DEF vars, JobsInv, Tables, CounterAhead, Known, NumberIsMine, NotYetSaved, SecretsOffDisk
<1> QED
  BY <1>1, CreateKeeps, TaskKeeps, SaveKeeps, DisconnectKeeps, ClearKeeps, RestartKeeps DEF Next, Task

\* The counter stays ahead of the table and of the disk, and what runs has no record yet (jobs.rs, storage.rs).
THEOREM JobsInvariant == Spec => []JobsInv
BY InitInv, NextKeeps, PTL DEF Spec

--------------------------------------------------------------------------------
\* A running call's number means its own job, whatever was cleared or restarted before (Jobs::create, max_seq).
THEOREM NumbersAreOnesOwn == Spec => []NumberIsMine
<1>1. JobsInv => NumberIsMine BY DEF JobsInv
<1> QED BY <1>1, JobsInvariant, PTL

\* No payload with a viewing key reaches the disk (prove_unrecorded).
THEOREM NoSecretOnDisk == Spec => []SecretsOffDisk
<1>1. JobsInv => SecretsOffDisk BY DEF JobsInv
<1> QED BY <1>1, JobsInvariant, PTL

\* A record that the last start has listed, or that was written since, is never replaced by another one, whatever was
\* cleared, torn or not written in between; of records a start could not list nothing is said (Storage::save, max_seq).
THEOREM NoRecordReplaced == Spec => RecordsKept
<1> DEFINE Kept == \A n \in (DOMAIN files \cap DOMAIN files') \ unseen : files'[n] = files[n]
<1>1. ASSUME JobsInv, [Next]_vars PROVE [Kept]_files
  <2>0. ASSUME NEW c \in Calls, stage[c] = "save", NEW left \in {Written(number[c]), Damaged(number[c])}
        PROVE  \A n \in DOMAIN files \ unseen : left[n] = files[n]
    <3>1. number[c] \notin Known /\ \A n \in DOMAIN files \ {number[c]} : left[n] = files[n]
      BY <1>1, <2>0, RecordFacts
    <3> QED BY <3>1 DEF Known
  <2>1. ASSUME NEW c \in Calls, Save(c) PROVE [Kept]_files
    <3>1. stage[c] = "save" /\ (files' = files \/ files' \in {Written(number[c]), Damaged(number[c])})
      BY <2>1 DEF Save
    <3> QED BY <2>0, <3>1
  <2>2. CASE Clear BY <2>2 DEF Clear, Restrict
  <2>3. CASE Restart
    <3>1. files' = files \/ \E c \in Calls : stage[c] = "save" /\ files' = Damaged(number[c])
      BY <2>3 DEF Restart
    <3>2. ASSUME NEW c \in Calls, stage[c] = "save"
          PROVE  \A n \in DOMAIN files \ unseen : Damaged(number[c])[n] = files[n]
      <4>1. PICK left \in {Written(number[c]), Damaged(number[c])} : left = Damaged(number[c]) OBVIOUS
      <4> QED BY <2>0, <3>2, <4>1
    <3> QED BY <3>1, <3>2
  <2>4. CASE UNCHANGED files BY <2>4
  <2> QED BY <1>1, <2>1, <2>2, <2>3, <2>4 DEF Next, Task, vars, Create, Begin, Finish, FinishAs, Finished, Disconnect
<1> QED BY <1>1, JobsInvariant, PTL DEF Spec, RecordsKept

--------------------------------------------------------------------------------
(* The feed, the bound on the starts, and which job a call has.            *)

Entry == [number : Nat, status : Terminal \cup {"queued", "proving"}]

FeedOk == feed \in Seq(Entry) /\ Len(feed) <= Cap /\ FeedTellsLatest

\* A job in the table is its call's only one, and a job that has ended is not worked on.
OneJobEach ==
    \A n \in DOMAIN jobs :
        LET c == jobs[n].call
        IN  number[c] = n /\ stage[c] # "idle" /\ (jobs[n].status \in Terminal => stage[c] \notin {"queued", "proving"})

\* Only jobs that have ended are recorded; the file may be in pieces.
RecordsEnded ==
    /\ \A c \in Calls : stage[c] = "save" => jobs[number[c]].status \in Terminal
    /\ \A n \in DOMAIN files : files[n].status \in Terminal \cup {"damaged"}

TableInv == FeedOk /\ OneJobEach /\ RecordsEnded /\ boots \in 1..MaxBoots

\* What is pushed is what the job is now; what is dropped is the oldest entry, and no feed is emptied by it.
LEMMA PushKeeps ==
    ASSUME FeedOk, NEW n \in Nat, NEW status \in Terminal \cup {"queued", "proving"}, feed' = Push(n, status),
           n \in DOMAIN jobs', jobs'[n].status = status,
           \A m \in DOMAIN jobs' \ {n} : m \in DOMAIN jobs /\ jobs'[m].status = jobs[m].status
    PROVE  FeedOk'
<1> DEFINE e == [number |-> n, status |-> status]
           longer == Append(feed, e)
<1>1. e \in Entry /\ e.number = n /\ e.status = status BY DEF Entry
<1> HIDE DEF e
<1>2. /\ longer \in Seq(Entry) /\ Len(longer) = Len(feed) + 1 /\ Len(feed) \in Nat
      /\ longer[Len(feed) + 1] = e /\ \A i \in 1..Len(feed) : longer[i] = feed[i]
  BY <1>1 DEF FeedOk
<1>3. \A i \in 1..Len(longer) :
        longer[i].number \in DOMAIN jobs' /\ (\A j \in 1..Len(longer) : j > i => longer[j].number # longer[i].number)
        => longer[i].status = jobs'[longer[i].number].status
  <2> SUFFICES ASSUME NEW i \in 1..Len(longer), longer[i].number \in DOMAIN jobs',
                      \A j \in 1..Len(longer) : j > i => longer[j].number # longer[i].number
               PROVE  longer[i].status = jobs'[longer[i].number].status
    OBVIOUS
  <2>1. CASE i = Len(feed) + 1 BY <1>1, <1>2, <2>1
  <2>2. CASE i \in 1..Len(feed)
    <3>1. longer[i].number # n BY <1>1, <1>2, <2>2
    <3>2. feed[i].number \in DOMAIN jobs /\ \A j \in 1..Len(feed) : j > i => feed[j].number # feed[i].number
      BY <1>2, <2>2, <3>1
    <3>3. feed[i].status = jobs[feed[i].number].status BY <2>2, <3>2 DEF FeedOk, FeedTellsLatest
    <3> QED BY <1>2, <2>2, <3>1, <3>3
  <2> QED BY <1>2, <2>1, <2>2
<1> HIDE DEF longer
<1>4. feed' = IF Len(longer) > Cap THEN Tail(longer) ELSE longer BY DEF Push, longer, e
<1>5. CASE Len(longer) <= Cap
  <2>1. feed' = longer BY <1>2, <1>4, <1>5, ConstantsAssumption
  <2>2. DOMAIN feed' = 1..Len(longer) /\ feed' # << >> BY <1>2, <2>1
  <2>3. FeedTellsLatest' BY <1>3, <2>1, <2>2 DEF FeedTellsLatest
  <2> QED BY <1>2, <1>5, <2>1, <2>3 DEF FeedOk
<1>6. CASE Len(longer) > Cap
  <2>1. feed' = Tail(longer) /\ longer # << >> BY <1>2, <1>4, <1>6, ConstantsAssumption
  <2>2. /\ feed' \in Seq(Entry) /\ Len(feed') = Len(longer) - 1
        /\ \A i \in 1..Len(feed') : feed'[i] = longer[i + 1]
    BY <1>2, <2>1, HeadTailProperties
  <2>3. Len(feed') <= Cap /\ Len(feed') >= 1 BY <1>2, <1>6, <2>2, ConstantsAssumption DEF FeedOk
  <2>4. ASSUME NEW i \in 1..Len(feed'), feed'[i].number \in DOMAIN jobs',
               \A j \in 1..Len(feed') : j > i => feed'[j].number # feed'[i].number
        PROVE  feed'[i].status = jobs'[feed'[i].number].status
    <3>1. i + 1 \in 1..Len(longer) /\ longer[i + 1] = feed'[i] BY <1>2, <2>2, <2>3
    <3>2. ASSUME NEW j \in 1..Len(longer), j > i + 1 PROVE longer[j].number # longer[i + 1].number
      <4>1. j - 1 \in 1..Len(feed') /\ j - 1 > i /\ longer[j] = feed'[j - 1] BY <1>2, <2>2, <2>3, <3>2
      <4> QED BY <2>4, <3>1, <4>1
    <3> QED BY <1>3, <2>4, <3>1, <3>2
  <2>5. DOMAIN feed' = 1..Len(feed') /\ feed' # << >> BY <2>2, <2>3
  <2>6. FeedTellsLatest' BY <2>4, <2>5 DEF FeedTellsLatest
  <2> QED BY <2>2, <2>3, <2>6 DEF FeedOk
<1> QED BY <1>2, <1>5, <1>6, ConstantsAssumption

LEMMA TableInit == Init => TableInv
BY ConstantsAssumption DEF Init, TableInv, FeedOk, FeedTellsLatest, OneJobEach, RecordsEnded, Entry

LEMMA CreateKeepsTable == ASSUME JobsInv, TableInv, NEW c \in Calls, Create(c) PROVE TableInv'
<1> DEFINE job == [call |-> c, status |-> "queued"]
<1>1. /\ stage' = [stage EXCEPT ![c] = "queued"] /\ number' = [number EXCEPT ![c] = seq] /\ stage[c] = "idle"
      /\ jobs' = Put(jobs, seq, job) /\ feed' = Push(seq, "queued") /\ boots' = boots
  BY DEF Create
<1>2. /\ DOMAIN jobs' = DOMAIN jobs \cup {seq} /\ jobs'[seq] = job
      /\ seq \notin DOMAIN jobs /\ seq \in Nat
      /\ \A n \in DOMAIN jobs : jobs'[n] = jobs[n] /\ jobs[n].call \in Calls
  BY <1>1 DEF JobsInv, CounterAhead, Tables, Put
<1>3. FeedOk'
  <2>1. job.status = "queued" OBVIOUS
  <2> HIDE DEF job
  <2> QED BY <1>1, <1>2, <2>1, PushKeeps DEF TableInv
<1>4. OneJobEach'
  <2>1. \A n \in DOMAIN jobs : jobs[n].call # c BY <1>1 DEF TableInv, OneJobEach
  <2>2. number'[c] = seq /\ stage'[c] = "queued" BY <1>1 DEF JobsInv, Tables
  <2>3. \A d \in Calls \ {c} : number'[d] = number[d] /\ stage'[d] = stage[d] BY <1>1 DEF JobsInv, Tables
  <2>4. job.call = c /\ job.status = "queued" OBVIOUS
  <2> HIDE DEF job
  <2>5. ASSUME NEW n \in DOMAIN jobs
        PROVE  /\ number'[jobs'[n].call] = n /\ stage'[jobs'[n].call] # "idle"
               /\ jobs'[n].status \in Terminal => stage'[jobs'[n].call] \notin {"queued", "proving"}
    BY <1>2, <2>1, <2>3 DEF TableInv, OneJobEach
  <2> QED BY <1>2, <2>2, <2>4, <2>5 DEF OneJobEach, Terminal
<1>5. RecordsEnded'
  <2>1. \A d \in Calls : stage[d] = "save" => number[d] \in DOMAIN jobs BY DEF JobsInv, NumberIsMine, Running
  <2>2. \A d \in Calls : stage'[d] = "save" => stage[d] = "save" /\ number'[d] = number[d]
    BY <1>1 DEF JobsInv, Tables
  <2>3. files' = files BY DEF Create
  <2> QED BY <1>2, <2>1, <2>2, <2>3 DEF TableInv, RecordsEnded
<1> QED BY <1>1, <1>3, <1>4, <1>5 DEF TableInv

\* What Begin and Finish do to the table.
LEMMA StatusKeepsTable ==
    ASSUME JobsInv, TableInv, NEW c \in Calls, stage[c] \in Running,
           NEW status \in Terminal \cup {"proving"}, SetStatus(c, status),
           NEW next \in {"proving", "save", "over"}, stage' = [stage EXCEPT ![c] = next],
           status \in Terminal <=> next # "proving", number' = number, files' = files, boots' = boots
    PROVE  TableInv'
<1>1. number[c] \in DOMAIN jobs /\ jobs[number[c]].call = c /\ number[c] \in Nat
  BY DEF JobsInv, NumberIsMine, Tables
<1>2. jobs' = [jobs EXCEPT ![number[c]].status = status] /\ feed' = Push(number[c], status)
  BY <1>1 DEF SetStatus
<1>3. /\ DOMAIN jobs' = DOMAIN jobs /\ jobs'[number[c]].status = status
      /\ \A n \in DOMAIN jobs : /\ jobs'[n].call = jobs[n].call /\ jobs[n].call \in Calls
                                /\ n # number[c] => jobs'[n].status = jobs[n].status
  BY <1>1, <1>2 DEF JobsInv, Tables
<1>4. FeedOk' BY <1>1, <1>2, <1>3, PushKeeps DEF TableInv
<1>5. stage'[c] = next /\ \A d \in Calls \ {c} : stage'[d] = stage[d] BY DEF JobsInv, Tables
<1>6. OneJobEach'
  <2> SUFFICES ASSUME NEW n \in DOMAIN jobs
               PROVE  /\ number[jobs[n].call] = n /\ stage'[jobs[n].call] # "idle"
                      /\ jobs'[n].status \in Terminal => stage'[jobs[n].call] \notin {"queued", "proving"}
    BY <1>3 DEF OneJobEach
  <2>1. CASE n = number[c] BY <1>1, <1>3, <1>5, <2>1 DEF TableInv, OneJobEach, Terminal
  <2>2. CASE n # number[c]
    <3>1. jobs[n].call # c /\ number[jobs[n].call] = n BY <2>2 DEF TableInv, OneJobEach
    <3> QED BY <1>3, <1>5, <2>2, <3>1 DEF TableInv, OneJobEach
  <2> QED BY <2>1, <2>2
<1>7. RecordsEnded'
  <2>1. \A d \in Calls \ {c} : stage'[d] = "save" => number[d] \in DOMAIN jobs /\ number[d] # number[c]
    BY <1>1, <1>5, NumbersDiffer DEF JobsInv, NumberIsMine, Running
  <2>2. stage'[c] = "save" => status \in Terminal BY <1>5
  <2> QED BY <1>3, <1>5, <2>1, <2>2 DEF TableInv, RecordsEnded
<1> QED BY <1>4, <1>6, <1>7 DEF TableInv

LEMMA TaskKeepsTable == ASSUME JobsInv, TableInv, NEW c \in Calls, Begin(c) \/ Finish(c) PROVE TableInv'
<1>1. CASE Begin(c)
  <2>1. "proving" \notin Terminal BY DEF Terminal
  <2> QED BY <1>1, <2>1, StatusKeepsTable DEF Begin, Running
<1>2. ASSUME NEW status \in Terminal, FinishAs(c, status) PROVE TableInv'
  <2>1. CASE c \in Recorded BY <1>2, <2>1, StatusKeepsTable DEF FinishAs, Finished, Running
  <2>2. CASE c \notin Recorded BY <1>2, <2>2, StatusKeepsTable DEF FinishAs, Finished, Running
  <2> QED BY <2>1, <2>2
<1> QED BY <1>1, <1>2 DEF Finish

\* What ends leaves the table and the feed alone.
LEMMA EndKeepsTable ==
    ASSUME JobsInv, TableInv, UNCHANGED <<number, jobs, feed, boots>>,
           \A c \in Calls : stage'[c] = stage[c] \/ stage'[c] = "over",
           \A n \in DOMAIN files' : files'[n].status \in Terminal \cup {"damaged"}
    PROVE  TableInv'
<1>1. \A n \in DOMAIN jobs : jobs[n].call \in Calls BY DEF JobsInv, Tables
<1>2. FeedOk' /\ OneJobEach' BY <1>1 DEF TableInv, FeedOk, FeedTellsLatest, OneJobEach
<1>3. RecordsEnded' BY DEF TableInv, RecordsEnded
<1> QED BY <1>2, <1>3 DEF TableInv

\* What is written, whole or in pieces, is an ended job.
LEMMA WrittenEnded ==
    ASSUME JobsInv, TableInv, NEW c \in Calls, stage[c] = "save", NEW left \in {Written(number[c]), Damaged(number[c])}
    PROVE  \A n \in DOMAIN left : left[n].status \in Terminal \cup {"damaged"}
<1>1. number[c] \in DOMAIN jobs /\ jobs[number[c]].status \in Terminal
  BY DEF JobsInv, NumberIsMine, Running, TableInv, RecordsEnded
<1>2. [jobs[number[c]] EXCEPT !.status = "damaged"].status = "damaged" BY <1>1 DEF JobsInv, Tables
<1>3. PICK v : left = Put(files, number[c], v) /\ v.status \in Terminal \cup {"damaged"}
  BY <1>1, <1>2 DEF Written, Damaged
<1> QED BY <1>3 DEF Put, TableInv, RecordsEnded

LEMMA SaveKeepsTable == ASSUME JobsInv, TableInv, NEW c \in Calls, Save(c) PROVE TableInv'
<1>1. /\ stage[c] = "save" /\ UNCHANGED <<number, jobs, feed, boots>>
      /\ files' = files \/ files' \in {Written(number[c]), Damaged(number[c])}
      /\ \A d \in Calls : stage'[d] = stage[d] \/ stage'[d] = "over"
  BY DEF Save, JobsInv, Tables
<1>2. \A n \in DOMAIN files' : files'[n].status \in Terminal \cup {"damaged"}
  BY <1>1, WrittenEnded DEF TableInv, RecordsEnded
<1> QED BY <1>1, <1>2, EndKeepsTable

LEMMA RestartKeepsTable == ASSUME JobsInv, TableInv, Restart PROVE TableInv'
<1>1. /\ boots' \in 1..MaxBoots /\ jobs' = << >> /\ feed' = << >>
      /\ \A c \in Calls : stage'[c] # "save"
  BY ConstantsAssumption DEF Restart, TableInv, Running
<1>2. files' = files \/ \E c \in Calls : stage[c] = "save" /\ files' = Damaged(number[c])
  BY DEF Restart
<1>3. \A n \in DOMAIN files' : files'[n].status \in Terminal \cup {"damaged"}
  <2>1. ASSUME NEW c \in Calls, stage[c] = "save"
        PROVE  \A n \in DOMAIN Damaged(number[c]) : Damaged(number[c])[n].status \in Terminal \cup {"damaged"}
    <3>1. PICK left \in {Written(number[c]), Damaged(number[c])} : left = Damaged(number[c]) OBVIOUS
    <3> QED BY <2>1, <3>1, WrittenEnded
  <2> QED BY <1>2, <2>1 DEF TableInv, RecordsEnded
<1> QED BY <1>1, <1>3, ConstantsAssumption DEF TableInv, FeedOk, FeedTellsLatest, OneJobEach, RecordsEnded, Entry

LEMMA NextKeepsTable == JobsInv /\ TableInv /\ [Next]_vars => TableInv'
<1>1. ASSUME JobsInv, TableInv, UNCHANGED vars PROVE TableInv'
  BY <1>1, EndKeepsTable DEF vars, TableInv, RecordsEnded
<1>2. ASSUME JobsInv, TableInv, NEW c \in Calls, Disconnect(c) PROVE TableInv'
  BY <1>2, EndKeepsTable DEF Disconnect, JobsInv, Tables, TableInv, RecordsEnded
<1>3. ASSUME JobsInv, TableInv, Clear PROVE TableInv'
  BY <1>3, EndKeepsTable DEF Clear, Restrict, TableInv, RecordsEnded
<1> QED BY <1>1, <1>2, <1>3, CreateKeepsTable, TaskKeepsTable, SaveKeepsTable, RestartKeepsTable DEF Next, Task

\* The feed's last word on a job is the job's own, whatever was dropped; types; no STRK20 payload on the disk
\* (jobs.rs, push_activity; prove_unrecorded).
THEOREM JobsConsistent == Spec => []Consistent
<1>1. JobsInv /\ TableInv => Consistent
  BY DEF JobsInv, TableInv, Tables, FeedOk, RecordsEnded, Consistent, TypeOK
<1> QED BY <1>1, InitInv, NextKeeps, TableInit, NextKeepsTable, PTL DEF Spec

--------------------------------------------------------------------------------
(* Proving: the steps of the backend are steps of the jobs.                *)

LEMMA ProvingStep == ASSUME [PNext]_pvars PROVE [Next]_vars
<1>1. ASSUME NEW c \in Calls, Proof(c) PROVE Finish(c) \/ UNCHANGED vars
  BY <1>1 DEF Proof, Start, Refuse, Launch, Ask, CliExits, Collect, Outcomes, TimedOut, WaitFails, RemoteAnswers,
              Finish, Terminal
<1>2. ASSUME NEW c \in Calls, Bookkeeping(c) \/ PDisconnect(c) PROVE Task(c) \/ Disconnect(c)
  BY <1>2 DEF Bookkeeping, PDisconnect, Task
<1> QED BY <1>1, <1>2 DEF PNext, Next, Task, PRestart, pvars

\* Whatever the CLI, the node and the remote prover do, the jobs do what ProverJobs allows: the safety half of
\* ImplementsJobs (native_prover.rs, prover.rs).
THEOREM ProvingRefinesJobs == PSpec => Init /\ [][Next]_vars
<1>1. PInit => Init BY DEF PInit
<1>2. [PNext]_pvars => [Next]_vars BY ProvingStep
<1> QED BY <1>1, <1>2, PTL DEF PSpec

LEMMA ProvingJobsInv == PSpec => [](JobsInv /\ TableInv)
BY ProvingRefinesJobs, InitInv, NextKeeps, TableInit, NextKeepsTable, PTL

BackendInv == proc \in [Calls -> {"none", "asked", "alive", "done", "failed", "orphan", "left", "spoiled"}]

LEMMA EndedKeeps ==
    ASSUME JobsInv, TableInv, BackendInv, EndedLeavesNothing, [PNext]_pvars
    PROVE  (BackendInv /\ EndedLeavesNothing)'
<1>0. \A n \in DOMAIN jobs : jobs[n].call \in Calls BY DEF JobsInv, Tables
\* Only the job of the call that moves, or a new one, changes its status.
<1>1. ASSUME NEW c \in Calls, NEW p, proc' = [proc EXCEPT ![c] = p], stage[c] \in {"queued", "proving"},
             p \in {"none", "asked", "alive", "done", "failed", "orphan", "left", "spoiled"}, jobs' = jobs
      PROVE  (BackendInv /\ EndedLeavesNothing)'
  BY <1>0, <1>1 DEF BackendInv, EndedLeavesNothing, TableInv, OneJobEach
<1>2. ASSUME NEW c \in Calls, NEW p \in {"none", "spoiled"}, proc' = [proc EXCEPT ![c] = p], Finish(c)
      PROVE  (BackendInv /\ EndedLeavesNothing)'
  <2>1. \A n \in DOMAIN jobs' : n \in DOMAIN jobs /\ jobs'[n].call = jobs[n].call
                               /\ (jobs[n].call # c => jobs'[n] = jobs[n])
    <3>1. stage[c] \in Running /\ \E status \in Terminal : SetStatus(c, status)
      BY <1>2 DEF Finish, FinishAs, Finished, Running
    <3>2. PICK status \in Terminal : jobs' = [jobs EXCEPT ![number[c]].status = status]
      BY <3>1 DEF SetStatus, JobsInv, NumberIsMine
    <3>3. jobs[number[c]].call = c BY <3>1 DEF JobsInv, NumberIsMine
    <3> QED BY <3>2, <3>3 DEF JobsInv, Tables
  <2> QED BY <1>0, <1>2, <2>1 DEF BackendInv, EndedLeavesNothing
<1>3. ASSUME NEW c \in Calls, Proof(c) PROVE (BackendInv /\ EndedLeavesNothing)'
  <2>1. stage[c] = "proving" BY <1>3 DEF Proof, Proves, Start, CliExits, Collect, TimedOut, WaitFails, RemoteAnswers
  <2>2. ASSUME NEW status \in Terminal, FinishAs(c, status) PROVE Finish(c) BY <2>2 DEF Finish
  <2>3. CASE Start(c)
    <3>1. CASE Refuse(c)
      <4>1. Finish(c) BY <3>1 DEF Refuse, Finish, Terminal
      <4>2. proc' = [proc EXCEPT ![c] = "none"] \/ proc' = [proc EXCEPT ![c] = "spoiled"]
        BY <2>3, <3>1 DEF Start, Refuse, Becomes, BackendInv
      <4> QED BY <1>2, <4>1, <4>2
    <3>2. CASE Launch(c) BY <1>1, <2>1, <3>2 DEF Launch, Becomes, vars
    <3>3. CASE Ask(c) BY <1>1, <2>1, <3>3 DEF Ask, Becomes, vars
    <3> QED BY <2>3, <3>1, <3>2, <3>3 DEF Start
  <2>4. CASE CliExits(c) BY <1>1, <2>1, <2>4 DEF CliExits, Becomes, vars
  <2>5. CASE Collect(c) BY <1>2, <2>2, <2>5 DEF Collect, RemoveDir, Becomes, Outcomes, Terminal
  <2>6. CASE TimedOut(c) BY <1>2, <2>2, <2>6 DEF TimedOut, RemoveDir, Becomes, Terminal
  <2>7. CASE WaitFails(c) BY <1>2, <2>2, <2>7 DEF WaitFails, Becomes, Terminal
  <2>8. CASE RemoteAnswers(c) BY <1>2, <2>8 DEF RemoteAnswers, Becomes
  <2> QED BY <1>3, <2>3, <2>4, <2>5, <2>6, <2>7, <2>8 DEF Proof
<1>4. ASSUME NEW c \in Calls, PDisconnect(c) PROVE (BackendInv /\ EndedLeavesNothing)'
  <2>1. LeftBehind(proc[c]) \in {"none", "left"} BY DEF LeftBehind
  <2> QED BY <1>1, <1>4, <2>1 DEF PDisconnect, Disconnect, Becomes
<1>5. ASSUME NEW c \in Calls, Bookkeeping(c) \/ (Create(c) /\ UNCHANGED proc) PROVE (BackendInv /\ EndedLeavesNothing)'
  <2>1. CASE Begin(c)
    <3>1. number[c] \in DOMAIN jobs /\ jobs' = [jobs EXCEPT ![number[c]].status = "proving"]
      BY <2>1 DEF Begin, SetStatus, JobsInv, NumberIsMine, Running
    <3>2. DOMAIN jobs' = DOMAIN jobs /\ \A n \in DOMAIN jobs : /\ jobs'[n].call = jobs[n].call
                                                            /\ jobs'[n].status \in {jobs[n].status, "proving"}
      BY <3>1 DEF JobsInv, Tables
    <3>3. proc' = proc BY <1>5, <2>1 DEF Bookkeeping, Begin, Create
    <3> QED BY <3>2, <3>3 DEF BackendInv, EndedLeavesNothing, Terminal
  <2>2. CASE Create(c)
    <3>1. /\ DOMAIN jobs' = DOMAIN jobs \cup {seq} /\ jobs'[seq].status = "queued"
          /\ \A n \in DOMAIN jobs \ {seq} : jobs'[n] = jobs[n]
      BY <2>2 DEF Create, Put
    <3>2. proc' = proc BY <1>5 DEF Bookkeeping
    <3> QED BY <3>1, <3>2 DEF BackendInv, EndedLeavesNothing, Terminal
  <2>3. CASE Save(c) BY <1>5, <2>3 DEF Bookkeeping, Save, BackendInv, EndedLeavesNothing
  <2> QED BY <1>5, <2>1, <2>2, <2>3 DEF Bookkeeping
<1>6. CASE Clear /\ UNCHANGED proc BY <1>6 DEF Clear, BackendInv, EndedLeavesNothing
<1>7. CASE PRestart BY <1>7 DEF PRestart, Restart, LeftBehind, BackendInv, EndedLeavesNothing
<1>8. CASE UNCHANGED pvars BY <1>8 DEF pvars, vars, BackendInv, EndedLeavesNothing
<1> QED BY <1>3, <1>4, <1>5, <1>6, <1>7, <1>8 DEF PNext

\* A job that has ended has left no runner and no transaction behind, on every path the OS allows (run_and_parse, prove).
THEOREM NothingLeftBehind == PSpec => []EndedLeavesNothing
<1>1. PInit => BackendInv /\ EndedLeavesNothing BY DEF PInit, Init, BackendInv, EndedLeavesNothing
<1> QED BY <1>1, ProvingJobsInv, EndedKeeps, PTL DEF PSpec
================================================================================
