----------------------------- MODULE SettingsProofs -----------------------------
(***************************************************************************)
(* Theorems about Settings: the node everyone agrees on and the prover's   *)
(* own fields, for any number of commands and any URLs and fields.         *)
(***************************************************************************)
EXTENDS Settings, TLAPS

Writers == Commands \cup {Start}
At(t, steps) == task[t].at \in steps
Looks == {"stat", "read", "install", "mark", "use"}
Saves == {"put", "snapshot", "write", "fill", "saved"}
Loaded == IF file.is = Damaged THEN Default ELSE file.is

Duty == [at : {"idle", "load", "loadTime", "wallet", "nodes", "config", "node"} \cup Looks \cup Saves,
         url : Urls, copy : Contents, cur : Nat]

TasksTyped ==
    /\ task \in [Tasks -> Duty]
    /\ At(Reader, {"idle"} \cup Looks)
    /\ At(Start, {"idle", "load", "loadTime", "wallet", "nodes"} \cup Looks \cup Saves)
    /\ \A c \in Commands : At(c, {"idle", "config", "node"} \cup Looks \cup Saves)
    /\ \A t \in Tasks : task[t].cur <= file.mtime

FilesTyped ==
    /\ config \in Urls \cup {Damaged} /\ node \in Urls
    /\ file \in [is : Contents \cup {Damaged}, mtime : Nat]
    /\ mem \in Contents /\ known \in 0..file.mtime
    /\ wanted \in Owns /\ strained \in BOOLEAN /\ lost \in BOOLEAN
    /\ calls \in 0..MaxCalls /\ edits \in 0..MaxEdits /\ starts \in 1..MaxStarts

\* The start runs alone, and commands that are not strained take turns.
Turns ==
    /\ Active(Start) => \A t \in Commands \cup {Reader} : ~Active(t)
    /\ strained => lost
    /\ ~strained => \A t, u \in Writers : Active(t) /\ Active(u) => t = u

Fresh == \A t \in Writers : At(t, {"fill", "saved"}) => file.mtime # 0

\* The file is only damaged while it is being written, or until the start has written it.
FileStands ==
    file.is = Damaged =>
        \/ \E t \in Writers : At(t, {"fill"})
        \/ At(Start, {"load", "loadTime", "wallet", "stat", "use", "put", "snapshot", "write"})

\* The time the store has, or is about to keep, tells whether the store is the file's copy, but while it is ahead or
\* the file is being written.
TimesTell ==
    (\A t \in Writers : ~At(t, {"snapshot", "write", "fill", "load", "loadTime"})) =>
        /\ known = file.mtime => mem = Loaded
        /\ \A t \in Tasks : At(t, {"mark"}) /\ task[t].cur = file.mtime => mem = file.is
        /\ \A t \in Tasks : At(t, {"install"}) /\ task[t].cur = file.mtime /\ task[t].copy = mem => mem = file.is

StartOnItsWay ==
    /\ At(Start, {"loadTime"}) => mem = Loaded
    /\ At(Start, {"wallet", "stat"}) /\ file.is = Damaged => known = file.mtime
    /\ At(Start, {"nodes"} \cup Looks \cup Saves) => task[Start].url = OrDefault(config)

\* Nobody changes the file while the start or a command takes it over.
LookOnItsWay ==
    \A t \in Writers :
        /\ At(t, {"read", "install", "mark"}) => task[t].cur = file.mtime /\ file.is # Damaged
        /\ At(t, {"install"}) => task[t].copy = file.is
        /\ At(t, {"mark"}) => mem = file.is
        /\ At(t, {"use"}) => mem = Loaded

CommandOnItsWay == \A c \in Commands : At(c, {"node"} \cup Looks) => task[c].url = config

\* A save brings the URL of config.json, and nothing gets into the store on top of it.
SaveOnItsWay ==
    \A t \in Writers :
        /\ At(t, {"put"}) => task[t].copy.rpc = OrDefault(config)
        /\ At(t, {"snapshot", "write", "fill", "saved"}) => mem.rpc = OrDefault(config)
        /\ At(t, {"write", "fill"}) => task[t].copy = mem
        /\ At(t, {"fill"}) => file.is = Damaged
        /\ At(t, {"saved"}) => file.is = mem

Nodes ==
    /\ Up /\ (\A c \in Commands : ~At(c, {"node"})) => node = OrDefault(config)
    /\ At(Start, {"idle", "nodes"}) /\ (\A c \in Commands : At(c, {"idle", "config"})) =>
          file.is # Damaged /\ file.is.rpc = OrDefault(config)

\* The prover's own fields, in the file or on their way into it.
OwnFields ==
    /\ file.is = Damaged => (\E t \in Writers : At(t, {"fill"})) \/ (file.mtime = 0 /\ wanted = Blank)
    /\ file.is # Damaged /\ (\A t \in Writers : ~At(t, {"put", "snapshot", "write", "fill"})) => file.is.own = wanted
    /\ \A t \in Writers : At(t, {"put"}) => task[t].copy.own = wanted
    /\ \A t \in Writers : At(t, {"snapshot", "write", "fill", "saved"}) => mem.own = wanted

Typed == TasksTyped /\ FilesTyped /\ Turns /\ Fresh
Calm == FileStands /\ TimesTell /\ StartOnItsWay /\ LookOnItsWay /\ CommandOnItsWay /\ SaveOnItsWay /\ Nodes

SettingsInv == Typed /\ (~strained => Calm) /\ (~lost => OwnFields)

--------------------------------------------------------------------------------
(* A step of one task.                                                     *)

LEMMA Parts ==
    /\ Tasks = Commands \cup {Reader, Start} /\ Start \notin Commands /\ Reader \notin Commands /\ Reader # Start
    /\ Default \in Contents /\ Idle \in Duty /\ Idle.at = "idle" /\ Idle.cur = 0
BY NamesAssumption, DefaultsAssumption DEF Tasks, Default, Contents, Idle, Duty

USE Parts DEF At, Active, Up, Writers, Looks, Saves

\* Of all tasks only t moves, to the next step of what it does.
Others(t) == task' \in [Tasks -> Duty] /\ \A u \in Tasks : u # t => task'[u] = task[u]
StepsTo(t, at) ==
    /\ Others(t) /\ task'[t].at = at
    /\ task'[t].url = task[t].url /\ task'[t].copy = task[t].copy /\ task'[t].cur = task[t].cur

USE DEF Others, StepsTo

LEMMA Moved ==
    ASSUME SettingsInv, NEW t \in Tasks, NEW s \in Duty, task' = [task EXCEPT ![t] = s]
    PROVE  task' \in [Tasks -> Duty] /\ task'[t] = s /\ \A u \in Tasks : u # t => task'[u] = task[u]
BY DEF SettingsInv, Typed, TasksTyped

LEMMA Gone ==
    ASSUME SettingsInv, NEW t \in Tasks, NEW at, Go(t, at),
           at \in {"idle", "load", "loadTime", "wallet", "nodes", "config", "node"} \cup Looks \cup Saves
    PROVE  StepsTo(t, at)
<1>1. task \in [Tasks -> Duty] /\ task' = [task EXCEPT ![t].at = at] BY DEF SettingsInv, Typed, TasksTyped, Go
<1>2. task[t] \in Duty BY <1>1
<1>3. task'[t] = [task[t] EXCEPT !.at = at] /\ \A u \in Tasks : u # t => task'[u] = task[u] BY <1>1
<1>4. [task[t] EXCEPT !.at = at] \in Duty BY <1>2 DEF Duty
<1> QED BY <1>1, <1>2, <1>3, <1>4 DEF Duty

LEMMA Leaves ==
    ASSUME SettingsInv, NEW t \in Tasks, After(t)
    PROVE  /\ Others(t)
           /\ \/ t = Start /\ task'[t].at = "nodes" /\ task'[t].url = task[t].url /\ task'[t].cur = task[t].cur
              \/ t # Start /\ task'[t] = Idle
BY Gone, Moved DEF After, End

LEMMA StatKeeps == ASSUME SettingsInv, NEW t \in Tasks, Stat(t) PROVE SettingsInv'
<1>1. /\ task[t].at = "stat"
      /\ UNCHANGED <<config, node, file, mem, known, wanted, strained, lost, calls, edits, starts>>
  BY DEF Stat, store, history
<1>2. /\ Others(t)
      /\ task'[t].url = task[t].url /\ task'[t].copy = task[t].copy
      /\ \/ task'[t].at = "read" /\ task'[t].cur = file.mtime /\ file.mtime # known
         \/ task'[t].at = "use" /\ task'[t].cur = task[t].cur /\ file.mtime = known
  <2>1. CASE file.mtime # 0 /\ file.mtime # known
    <3> DEFINE s == [task[t] EXCEPT !.at = "read", !.cur = file.mtime]
    <3>1. task \in [Tasks -> Duty] /\ file.mtime \in Nat BY DEF SettingsInv, Typed, TasksTyped, FilesTyped
    <3>2. task[t] \in Duty BY <3>1
    <3>3. s \in Duty /\ s.at = "read" /\ s.cur = file.mtime /\ s.url = task[t].url /\ s.copy = task[t].copy
      BY <3>1, <3>2 DEF Duty
    <3>4. task' = [task EXCEPT ![t] = s] BY <2>1, <3>1 DEF Stat
    <3> HIDE DEF s
    <3> QED BY <2>1, <3>3, <3>4, Moved
  <2>2. CASE ~(file.mtime # 0 /\ file.mtime # known)
    <3>1. Go(t, "use") /\ file.mtime = known BY <2>2 DEF Stat, SettingsInv, Typed, FilesTyped
    <3> QED BY <3>1, Gone
  <2> QED BY <2>1, <2>2
<1>3. TasksTyped' BY <1>1, <1>2 DEF SettingsInv, Typed, TasksTyped, FilesTyped
<1>4. FilesTyped' BY <1>1, <1>2 DEF SettingsInv, Typed, FilesTyped
<1>5. Turns' BY <1>1, <1>2 DEF SettingsInv, Typed, Turns
<1>6. Fresh' BY <1>1, <1>2 DEF SettingsInv, Typed, Fresh
<1>7. ASSUME ~strained' PROVE Calm'
  <2>1. FileStands' BY <1>1, <1>2, <1>7 DEF SettingsInv, Calm, FileStands, StartOnItsWay
  <2>2. TimesTell' BY <1>1, <1>2, <1>7 DEF SettingsInv, Calm, TimesTell, Loaded
  <2>3. StartOnItsWay' BY <1>1, <1>2, <1>7 DEF SettingsInv, Calm, StartOnItsWay, Loaded
  <2>4. CommandOnItsWay'
    BY <1>1, <1>2, <1>7 DEF SettingsInv, Calm, CommandOnItsWay, Typed, Turns, FileStands, TimesTell, Loaded
  <2>5. SaveOnItsWay' BY <1>1, <1>2, <1>7 DEF SettingsInv, Calm, SaveOnItsWay
  <2>6. Nodes' BY <1>1, <1>2, <1>7 DEF SettingsInv, Calm, Nodes
  <2>7. LookOnItsWay'
    BY <1>1, <1>2, <1>7
    DEF SettingsInv, Calm, LookOnItsWay, TimesTell, StartOnItsWay, Typed, Turns, FileStands, Loaded
  <2> QED BY <2>1, <2>2, <2>3, <2>4, <2>5, <2>6, <2>7 DEF Calm
<1>8. ASSUME ~lost' PROVE OwnFields' BY <1>1, <1>2, <1>8 DEF SettingsInv, OwnFields
<1> QED BY <1>3, <1>4, <1>5, <1>6, <1>7, <1>8 DEF SettingsInv, Typed

LEMMA LoadKeeps == ASSUME SettingsInv, Load PROVE SettingsInv'
<1>1. /\ task[Start].at = "load" /\ mem' = Loaded
      /\ UNCHANGED <<config, node, file, known, wanted, strained, lost, calls, edits, starts>>
  BY DEF Load, history, Loaded
<1>2. StepsTo(Start, "loadTime")
  BY Gone DEF Load
<1>3. TasksTyped' BY <1>1, <1>2 DEF SettingsInv, Typed, TasksTyped, FilesTyped
<1>4. FilesTyped' BY <1>1, <1>2 DEF SettingsInv, Typed, FilesTyped, Loaded
<1>5. Turns' BY <1>1, <1>2 DEF SettingsInv, Typed, Turns
<1>6. Fresh' BY <1>1, <1>2 DEF SettingsInv, Typed, Fresh
<1>7. ASSUME ~strained' PROVE Calm'
  <2>1. FileStands' BY <1>1, <1>2, <1>7 DEF SettingsInv, Calm, FileStands
  <2>2. TimesTell' BY <1>1, <1>2, <1>7 DEF SettingsInv, Calm, TimesTell, Loaded
  <2>3. StartOnItsWay' BY <1>1, <1>2, <1>7 DEF SettingsInv, Calm, StartOnItsWay, Loaded
  <2>4. CommandOnItsWay' BY <1>1, <1>2, <1>7 DEF SettingsInv, Calm, CommandOnItsWay, Typed, Turns
  <2>5. SaveOnItsWay' BY <1>1, <1>2, <1>7 DEF SettingsInv, Calm, SaveOnItsWay, Typed, Turns
  <2>6. Nodes' BY <1>1, <1>2, <1>7 DEF SettingsInv, Calm, Nodes
  <2>7. LookOnItsWay' BY <1>1, <1>2, <1>7 DEF SettingsInv, Calm, LookOnItsWay, Loaded
  <2> QED BY <2>1, <2>2, <2>3, <2>4, <2>5, <2>6, <2>7 DEF Calm
<1>8. ASSUME ~lost' PROVE OwnFields' BY <1>1, <1>2, <1>8 DEF SettingsInv, OwnFields, Typed, Turns
<1> QED BY <1>3, <1>4, <1>5, <1>6, <1>7, <1>8 DEF SettingsInv, Typed

LEMMA LoadTimeKeeps == ASSUME SettingsInv, LoadTime PROVE SettingsInv'
<1>1. /\ task[Start].at = "loadTime" /\ known' = file.mtime
      /\ UNCHANGED <<config, node, file, mem, wanted, strained, lost, calls, edits, starts>>
  BY DEF LoadTime, history
<1>2. StepsTo(Start, "wallet")
  BY Gone DEF LoadTime
<1>3. TasksTyped' BY <1>1, <1>2 DEF SettingsInv, Typed, TasksTyped, FilesTyped
<1>4. FilesTyped' BY <1>1, <1>2 DEF SettingsInv, Typed, FilesTyped
<1>5. Turns' BY <1>1, <1>2 DEF SettingsInv, Typed, Turns
<1>6. Fresh' BY <1>1, <1>2 DEF SettingsInv, Typed, Fresh
<1>7. ASSUME ~strained' PROVE Calm'
  <2>1. FileStands' BY <1>1, <1>2, <1>7 DEF SettingsInv, Calm, FileStands
  <2>2. TimesTell' BY <1>1, <1>2, <1>7 DEF SettingsInv, Calm, TimesTell, Loaded, Typed, Turns, StartOnItsWay
  <2>3. StartOnItsWay' BY <1>1, <1>2, <1>7 DEF SettingsInv, Calm, StartOnItsWay, Loaded
  <2>4. CommandOnItsWay' BY <1>1, <1>2, <1>7 DEF SettingsInv, Calm, CommandOnItsWay, Typed, Turns
  <2>5. SaveOnItsWay' BY <1>1, <1>2, <1>7 DEF SettingsInv, Calm, SaveOnItsWay
  <2>6. Nodes' BY <1>1, <1>2, <1>7 DEF SettingsInv, Calm, Nodes
  <2>7. LookOnItsWay' BY <1>1, <1>2, <1>7 DEF SettingsInv, Calm, LookOnItsWay, Loaded
  <2> QED BY <2>1, <2>2, <2>3, <2>4, <2>5, <2>6, <2>7 DEF Calm
<1>8. ASSUME ~lost' PROVE OwnFields' BY <1>1, <1>2, <1>8 DEF SettingsInv, OwnFields
<1> QED BY <1>3, <1>4, <1>5, <1>6, <1>7, <1>8 DEF SettingsInv, Typed

LEMMA ReadKeeps == ASSUME SettingsInv, NEW t \in Tasks, Read(t) PROVE SettingsInv'
<1>1. /\ task[t].at = "read"
      /\ UNCHANGED <<config, node, file, mem, known, wanted, strained, lost, calls, edits, starts>>
  BY DEF Read, store, history
<1>2. /\ Others(t)
      /\ task'[t].url = task[t].url /\ task'[t].cur = task[t].cur
      /\ \/ task'[t].at = "install" /\ task'[t].copy = file.is /\ file.is # Damaged
         \/ task'[t].at = "use" /\ task'[t].copy = task[t].copy /\ file.is = Damaged
  <2>1. CASE file.is # Damaged
    <3> DEFINE s == [task[t] EXCEPT !.at = "install", !.copy = file.is]
    <3>1. task \in [Tasks -> Duty] /\ file.is \in Contents
      BY <2>1 DEF SettingsInv, Typed, TasksTyped, FilesTyped
    <3>2. task[t] \in Duty BY <3>1
    <3>3. s \in Duty /\ s.at = "install" /\ s.copy = file.is /\ s.url = task[t].url /\ s.cur = task[t].cur
      BY <3>1, <3>2 DEF Duty
    <3>4. task' = [task EXCEPT ![t] = s] BY <2>1, <3>1 DEF Read
    <3> HIDE DEF s
    <3> QED BY <2>1, <3>3, <3>4, Moved
  <2>2. CASE file.is = Damaged
    <3>1. Go(t, "use") BY <2>2 DEF Read
    <3> QED BY <2>2, <3>1, Gone
  <2> QED BY <2>1, <2>2
<1>3. TasksTyped' BY <1>1, <1>2 DEF SettingsInv, Typed, TasksTyped, FilesTyped
<1>4. FilesTyped' BY <1>1, <1>2 DEF SettingsInv, Typed, FilesTyped
<1>5. Turns' BY <1>1, <1>2 DEF SettingsInv, Typed, Turns
<1>6. Fresh' BY <1>1, <1>2 DEF SettingsInv, Typed, Fresh
<1>7. ASSUME ~strained' PROVE Calm'
  <2>1. FileStands' BY <1>1, <1>2, <1>7 DEF SettingsInv, Calm, FileStands
  <2>2. TimesTell' BY <1>1, <1>2, <1>7 DEF SettingsInv, Calm, TimesTell, Loaded
  <2>3. StartOnItsWay' BY <1>1, <1>2, <1>7 DEF SettingsInv, Calm, StartOnItsWay, Loaded
  <2>4. CommandOnItsWay' BY <1>1, <1>2, <1>7 DEF SettingsInv, Calm, CommandOnItsWay, Typed, Turns, FileStands
  <2>5. SaveOnItsWay' BY <1>1, <1>2, <1>7 DEF SettingsInv, Calm, SaveOnItsWay
  <2>6. Nodes' BY <1>1, <1>2, <1>7 DEF SettingsInv, Calm, Nodes
  <2>7. LookOnItsWay' BY <1>1, <1>2, <1>7 DEF SettingsInv, Calm, LookOnItsWay, Loaded
  <2> QED BY <2>1, <2>2, <2>3, <2>4, <2>5, <2>6, <2>7 DEF Calm
<1>8. ASSUME ~lost' PROVE OwnFields' BY <1>1, <1>2, <1>8 DEF SettingsInv, OwnFields
<1> QED BY <1>3, <1>4, <1>5, <1>6, <1>7, <1>8 DEF SettingsInv, Typed

LEMMA MarkKeeps == ASSUME SettingsInv, NEW t \in Tasks, Mark(t) PROVE SettingsInv'
<1>1. /\ task[t].at = "mark" /\ known' = task[t].cur
      /\ UNCHANGED <<config, node, file, mem, wanted, strained, lost, calls, edits, starts>>
  BY DEF Mark, history
<1>2. StepsTo(t, "use")
  BY Gone DEF Mark
<1>3. TasksTyped' BY <1>1, <1>2 DEF SettingsInv, Typed, TasksTyped, FilesTyped
<1>4. FilesTyped' BY <1>1, <1>2 DEF SettingsInv, Typed, FilesTyped, TasksTyped, Duty
<1>5. Turns' BY <1>1, <1>2 DEF SettingsInv, Typed, Turns
<1>6. Fresh' BY <1>1, <1>2 DEF SettingsInv, Typed, Fresh
<1>7. ASSUME ~strained' PROVE Calm'
  <2>1. FileStands' BY <1>1, <1>2, <1>7 DEF SettingsInv, Calm, FileStands
  <2>2. TimesTell' BY <1>1, <1>2, <1>7, NamesAssumption DEF SettingsInv, Calm, TimesTell, Loaded, Typed, FilesTyped
  <2>3. StartOnItsWay' BY <1>1, <1>2, <1>7 DEF SettingsInv, Calm, StartOnItsWay, Loaded, Typed, Turns
  <2>4. CommandOnItsWay' BY <1>1, <1>2, <1>7 DEF SettingsInv, Calm, CommandOnItsWay, Typed, Turns, TimesTell
  <2>5. SaveOnItsWay' BY <1>1, <1>2, <1>7 DEF SettingsInv, Calm, SaveOnItsWay
  <2>6. Nodes' BY <1>1, <1>2, <1>7 DEF SettingsInv, Calm, Nodes
  <2>7. LookOnItsWay' BY <1>1, <1>2, <1>7 DEF SettingsInv, Calm, LookOnItsWay, Loaded
  <2> QED BY <2>1, <2>2, <2>3, <2>4, <2>5, <2>6, <2>7 DEF Calm
<1>8. ASSUME ~lost' PROVE OwnFields' BY <1>1, <1>2, <1>8 DEF SettingsInv, OwnFields
<1> QED BY <1>3, <1>4, <1>5, <1>6, <1>7, <1>8 DEF SettingsInv, Typed

LEMMA PutKeeps == ASSUME SettingsInv, NEW t \in Writers, Put(t) PROVE SettingsInv'
<1>1. /\ task[t].at = "put" /\ mem' = task[t].copy
      /\ UNCHANGED <<config, node, file, known, wanted, strained, lost, calls, edits, starts>>
  BY DEF Put, history
<1>2. StepsTo(t, "snapshot")
  BY Gone DEF Put
<1>3. TasksTyped' BY <1>1, <1>2 DEF SettingsInv, Typed, TasksTyped, FilesTyped
<1>4. FilesTyped' BY <1>1, <1>2 DEF SettingsInv, Typed, FilesTyped, TasksTyped, Duty
<1>5. Turns' BY <1>1, <1>2 DEF SettingsInv, Typed, Turns
<1>6. Fresh' BY <1>1, <1>2 DEF SettingsInv, Typed, Fresh
<1>7. ASSUME ~strained' PROVE Calm'
  <2>1. FileStands' BY <1>1, <1>2, <1>7 DEF SettingsInv, Calm, FileStands
  <2>2. TimesTell' BY <1>1, <1>2, <1>7 DEF SettingsInv, Calm, TimesTell, Loaded, Typed, Turns
  <2>3. StartOnItsWay' BY <1>1, <1>2, <1>7 DEF SettingsInv, Calm, StartOnItsWay, Loaded, Typed, Turns
  <2>4. CommandOnItsWay' BY <1>1, <1>2, <1>7 DEF SettingsInv, Calm, CommandOnItsWay, Typed, Turns
  <2>5. SaveOnItsWay' BY <1>1, <1>2, <1>7 DEF SettingsInv, Calm, SaveOnItsWay, Typed, Turns
  <2>6. Nodes' BY <1>1, <1>2, <1>7 DEF SettingsInv, Calm, Nodes
  <2>7. LookOnItsWay' BY <1>1, <1>2, <1>7 DEF SettingsInv, Calm, LookOnItsWay, Loaded, Typed, Turns
  <2> QED BY <2>1, <2>2, <2>3, <2>4, <2>5, <2>6, <2>7 DEF Calm
<1>8. ASSUME ~lost' PROVE OwnFields' BY <1>1, <1>2, <1>8 DEF SettingsInv, OwnFields, Typed, Turns
<1> QED BY <1>3, <1>4, <1>5, <1>6, <1>7, <1>8 DEF SettingsInv, Typed

LEMMA SnapshotKeeps == ASSUME SettingsInv, NEW t \in Writers, Snapshot(t) PROVE SettingsInv'
<1>1. /\ task[t].at = "snapshot"
      /\ UNCHANGED <<config, node, file, mem, known, wanted, strained, lost, calls, edits, starts>>
  BY DEF Snapshot, store, history
<1>2. /\ Others(t)
      /\ task'[t].at = "write" /\ task'[t].url = task[t].url /\ task'[t].copy = mem /\ task'[t].cur = task[t].cur
  <2> DEFINE s == [task[t] EXCEPT !.at = "write", !.copy = mem]
  <2>1. task \in [Tasks -> Duty] /\ mem \in Contents BY DEF SettingsInv, Typed, TasksTyped, FilesTyped
  <2>2. task[t] \in Duty BY <2>1
  <2>3. s \in Duty /\ s.at = "write" /\ s.copy = mem /\ s.url = task[t].url /\ s.cur = task[t].cur
    BY <2>1, <2>2 DEF Duty
  <2>4. task' = [task EXCEPT ![t] = s] BY <2>1 DEF Snapshot
  <2> HIDE DEF s
  <2> QED BY <2>3, <2>4, Moved
<1>3. TasksTyped' BY <1>1, <1>2 DEF SettingsInv, Typed, TasksTyped, FilesTyped
<1>4. FilesTyped' BY <1>1, <1>2 DEF SettingsInv, Typed, FilesTyped
<1>5. Turns' BY <1>1, <1>2 DEF SettingsInv, Typed, Turns
<1>6. Fresh' BY <1>1, <1>2 DEF SettingsInv, Typed, Fresh
<1>7. ASSUME ~strained' PROVE Calm'
  <2>1. FileStands' BY <1>1, <1>2, <1>7 DEF SettingsInv, Calm, FileStands
  <2>2. TimesTell' BY <1>1, <1>2, <1>7 DEF SettingsInv, Calm, TimesTell, Loaded, Typed, Turns
  <2>3. StartOnItsWay' BY <1>1, <1>2, <1>7 DEF SettingsInv, Calm, StartOnItsWay, Loaded, Typed, Turns
  <2>4. CommandOnItsWay' BY <1>1, <1>2, <1>7 DEF SettingsInv, Calm, CommandOnItsWay, Typed, Turns
  <2>5. SaveOnItsWay' BY <1>1, <1>2, <1>7 DEF SettingsInv, Calm, SaveOnItsWay, Typed, Turns
  <2>6. Nodes' BY <1>1, <1>2, <1>7 DEF SettingsInv, Calm, Nodes
  <2>7. LookOnItsWay' BY <1>1, <1>2, <1>7 DEF SettingsInv, Calm, LookOnItsWay, Loaded
  <2> QED BY <2>1, <2>2, <2>3, <2>4, <2>5, <2>6, <2>7 DEF Calm
<1>8. ASSUME ~lost' PROVE OwnFields' BY <1>1, <1>2, <1>8 DEF SettingsInv, OwnFields, Typed, Turns
<1> QED BY <1>3, <1>4, <1>5, <1>6, <1>7, <1>8 DEF SettingsInv, Typed

LEMMA SavedKeeps == ASSUME SettingsInv, NEW t \in Writers, Saved(t) PROVE SettingsInv'
<1>1. /\ task[t].at = "saved" /\ known' = file.mtime
      /\ UNCHANGED <<config, node, file, mem, wanted, strained, lost, calls, edits, starts>>
  BY DEF Saved, history
<1>2. /\ Others(t)
      /\ \/ t = Start /\ task'[t].at = "nodes" /\ task'[t].url = task[t].url /\ task'[t].cur = task[t].cur
         \/ t # Start /\ task'[t] = Idle
  BY Leaves DEF Saved
<1>3. TasksTyped' BY <1>1, <1>2 DEF SettingsInv, Typed, TasksTyped, FilesTyped
<1>4. FilesTyped' BY <1>1, <1>2 DEF SettingsInv, Typed, FilesTyped
<1>5. Turns' BY <1>1, <1>2 DEF SettingsInv, Typed, Turns
<1>6. Fresh' BY <1>1, <1>2 DEF SettingsInv, Typed, Fresh
<1>7. ASSUME ~strained' PROVE Calm'
  <2>1. FileStands' BY <1>1, <1>2, <1>7 DEF SettingsInv, Calm, FileStands, Typed, Turns
  <2>2. TimesTell'
    BY <1>1, <1>2, <1>7, NamesAssumption
    DEF SettingsInv, Calm, TimesTell, Loaded, Typed, Turns, FilesTyped, SaveOnItsWay
  <2>3. StartOnItsWay' BY <1>1, <1>2, <1>7 DEF SettingsInv, Calm, StartOnItsWay, Loaded, Typed, Turns
  <2>4. CommandOnItsWay' BY <1>1, <1>2, <1>7 DEF SettingsInv, Calm, CommandOnItsWay, Typed, Turns
  <2>5. SaveOnItsWay' BY <1>1, <1>2, <1>7 DEF SettingsInv, Calm, SaveOnItsWay
  <2>6. Nodes'
    BY <1>1, <1>2, <1>7, NamesAssumption
    DEF SettingsInv, Calm, Nodes, SaveOnItsWay, StartOnItsWay, Typed, Turns, FilesTyped
  <2>7. LookOnItsWay' BY <1>1, <1>2, <1>7 DEF SettingsInv, Calm, LookOnItsWay, Loaded
  <2> QED BY <2>1, <2>2, <2>3, <2>4, <2>5, <2>6, <2>7 DEF Calm
<1>8. ASSUME ~lost' PROVE OwnFields' BY <1>1, <1>2, <1>8 DEF SettingsInv, OwnFields, Typed, Turns, Calm, SaveOnItsWay
<1> QED BY <1>3, <1>4, <1>5, <1>6, <1>7, <1>8 DEF SettingsInv, Typed

LEMMA WrittenIs ==
    ASSUME file.mtime \in Nat, NEW is \in Contents \cup {Damaged}, Written(is)
    PROVE  /\ file'.is = is /\ file'.mtime \in {file.mtime, file.mtime + 1} /\ file'.mtime # 0
           /\ file' \in [is : Contents \cup {Damaged}, mtime : Nat]
<1>1. PICK time \in {file.mtime, file.mtime + 1} \ {0} : file' = [is |-> is, mtime |-> time] BY DEF Written
<1>2. time \in Nat OBVIOUS
<1> QED BY <1>1, <1>2

LEMMA WriteKeeps == ASSUME SettingsInv, NEW t \in Writers, Write(t) PROVE SettingsInv'
<1>1. task[t].at = "write" /\ UNCHANGED <<config, node, mem, known>>
  BY DEF Write, store
<1>2. /\ Others(t)
      /\ file.mtime \in Nat /\ file'.mtime \in Nat /\ file.mtime <= file'.mtime
      /\ strained' \in BOOLEAN /\ lost' \in BOOLEAN /\ file' \in [is : Contents \cup {Damaged}, mtime : Nat]
      /\ \/ /\ file'.is = Damaged /\ file'.mtime \in {file.mtime, file.mtime + 1} /\ file'.mtime # 0
            /\ task'[t].at = "fill" /\ task'[t].url = task[t].url
            /\ task'[t].copy = task[t].copy /\ task'[t].cur = task[t].cur
            /\ UNCHANGED <<wanted, strained, lost, calls, edits, starts>>
         \/ /\ UNCHANGED file
            /\ \/ t = Start /\ task'[t].at = "nodes" /\ task'[t].url = task[t].url /\ task'[t].cur = task[t].cur
               \/ t # Start /\ task'[t] = Idle
            /\ strained' = TRUE /\ lost' = TRUE /\ UNCHANGED <<wanted, calls, edits, starts>>
  <2>1. /\ task[t] \in Duty /\ file \in [is : Contents \cup {Damaged}, mtime : Nat] /\ file.mtime \in Nat
        /\ strained \in BOOLEAN /\ lost \in BOOLEAN
    BY DEF SettingsInv, Typed, TasksTyped, FilesTyped
  <2>2. CASE Written(Damaged) /\ Go(t, "fill") /\ UNCHANGED history
    <3>1. Damaged \in Contents \cup {Damaged}
      BY <2>1 DEF Duty
    <3>2. /\ file'.is = Damaged /\ file'.mtime \in {file.mtime, file.mtime + 1} /\ file'.mtime # 0
          /\ file' \in [is : Contents \cup {Damaged}, mtime : Nat]
      BY <2>1, <2>2, <3>1, WrittenIs
    <3>3. file'.mtime \in Nat /\ file.mtime <= file'.mtime BY <2>1, <3>2
    <3>4. /\ strained' \in BOOLEAN /\ lost' \in BOOLEAN /\ UNCHANGED <<wanted, strained, lost, calls, edits, starts>>
      BY <2>1, <2>2 DEF history
    <3>5. StepsTo(t, "fill")
      BY <2>2, Gone
    <3> QED BY <2>1, <3>2, <3>3, <3>4, <3>5
  <2>3. CASE UNCHANGED file /\ After(t) /\ Failed
    <3>1. UNCHANGED file /\ strained' = TRUE /\ lost' = TRUE /\ UNCHANGED <<wanted, calls, edits, starts>>
      BY <2>3 DEF Failed, Strain
    <3>2. /\ file'.mtime \in Nat /\ file.mtime <= file'.mtime
          /\ strained' \in BOOLEAN /\ lost' \in BOOLEAN /\ file' \in [is : Contents \cup {Damaged}, mtime : Nat]
      BY <2>1, <3>1
    <3>3. /\ Others(t)
          /\ \/ t = Start /\ task'[t].at = "nodes" /\ task'[t].url = task[t].url /\ task'[t].cur = task[t].cur
             \/ t # Start /\ task'[t] = Idle
      BY <2>3, Leaves
    <3> QED BY <2>1, <3>1, <3>2, <3>3
  <2> QED BY <2>2, <2>3 DEF Write
<1>3. TasksTyped' BY <1>1, <1>2 DEF SettingsInv, Typed, TasksTyped, FilesTyped, Idle, Duty
<1>4. FilesTyped' BY <1>1, <1>2 DEF SettingsInv, Typed, FilesTyped
<1>5. Turns' BY <1>1, <1>2 DEF SettingsInv, Typed, Turns
<1>6. Fresh' BY <1>1, <1>2 DEF SettingsInv, Typed, Fresh, Typed, TasksTyped, FilesTyped, Duty, Idle
<1>7. ASSUME ~strained' PROVE Calm'
  <2>1. FileStands' BY <1>1, <1>2, <1>7 DEF SettingsInv, Calm, FileStands
  <2>2. TimesTell'
    BY <1>1, <1>2, <1>7 DEF SettingsInv, Calm, TimesTell, Loaded, Typed, TasksTyped, Turns, FilesTyped, Duty
  <2>3. StartOnItsWay' BY <1>1, <1>2, <1>7 DEF SettingsInv, Calm, StartOnItsWay, Loaded, Typed, Turns
  <2>4. CommandOnItsWay' BY <1>1, <1>2, <1>7 DEF SettingsInv, Calm, CommandOnItsWay, Typed, Turns
  <2>5. SaveOnItsWay' BY <1>1, <1>2, <1>7 DEF SettingsInv, Calm, SaveOnItsWay, Typed, Turns
  <2>6. Nodes' BY <1>1, <1>2, <1>7 DEF SettingsInv, Calm, Nodes
  <2>7. LookOnItsWay' BY <1>1, <1>2, <1>7 DEF SettingsInv, Calm, LookOnItsWay, Loaded, Typed, Turns
  <2> QED BY <2>1, <2>2, <2>3, <2>4, <2>5, <2>6, <2>7 DEF Calm
<1>8. ASSUME ~lost' PROVE OwnFields' BY <1>1, <1>2, <1>8 DEF SettingsInv, OwnFields, Typed, Turns
<1> QED BY <1>3, <1>4, <1>5, <1>6, <1>7, <1>8 DEF SettingsInv, Typed

LEMMA FillKeeps == ASSUME SettingsInv, NEW t \in Writers, Fill(t) PROVE SettingsInv'
<1>1. task[t].at = "fill" /\ UNCHANGED <<config, node, mem, known>>
  BY DEF Fill, store
<1>2. /\ Others(t)
      /\ file.mtime \in Nat /\ file'.mtime \in Nat /\ file.mtime <= file'.mtime
      /\ strained' \in BOOLEAN /\ lost' \in BOOLEAN /\ file' \in [is : Contents \cup {Damaged}, mtime : Nat]
      /\ \/ /\ file'.is = task[t].copy /\ file'.mtime \in {file.mtime, file.mtime + 1} /\ file'.mtime # 0
            /\ task'[t].at = "saved" /\ task'[t].url = task[t].url
            /\ task'[t].copy = task[t].copy /\ task'[t].cur = task[t].cur
            /\ UNCHANGED <<wanted, strained, lost, calls, edits, starts>>
         \/ /\ UNCHANGED file
            /\ \/ t = Start /\ task'[t].at = "nodes" /\ task'[t].url = task[t].url /\ task'[t].cur = task[t].cur
               \/ t # Start /\ task'[t] = Idle
            /\ strained' = TRUE /\ lost' = TRUE /\ UNCHANGED <<wanted, calls, edits, starts>>
  <2>1. /\ task[t] \in Duty /\ file \in [is : Contents \cup {Damaged}, mtime : Nat] /\ file.mtime \in Nat
        /\ strained \in BOOLEAN /\ lost \in BOOLEAN
    BY DEF SettingsInv, Typed, TasksTyped, FilesTyped
  <2>2. CASE Written(task[t].copy) /\ Go(t, "saved") /\ UNCHANGED history
    <3>1. task[t].copy \in Contents \cup {Damaged}
      BY <2>1 DEF Duty
    <3>2. /\ file'.is = task[t].copy /\ file'.mtime \in {file.mtime, file.mtime + 1} /\ file'.mtime # 0
          /\ file' \in [is : Contents \cup {Damaged}, mtime : Nat]
      BY <2>1, <2>2, <3>1, WrittenIs
    <3>3. file'.mtime \in Nat /\ file.mtime <= file'.mtime BY <2>1, <3>2
    <3>4. /\ strained' \in BOOLEAN /\ lost' \in BOOLEAN /\ UNCHANGED <<wanted, strained, lost, calls, edits, starts>>
      BY <2>1, <2>2 DEF history
    <3>5. StepsTo(t, "saved")
      BY <2>2, Gone
    <3> QED BY <2>1, <3>2, <3>3, <3>4, <3>5
  <2>3. CASE UNCHANGED file /\ After(t) /\ Failed
    <3>1. UNCHANGED file /\ strained' = TRUE /\ lost' = TRUE /\ UNCHANGED <<wanted, calls, edits, starts>>
      BY <2>3 DEF Failed, Strain
    <3>2. /\ file'.mtime \in Nat /\ file.mtime <= file'.mtime
          /\ strained' \in BOOLEAN /\ lost' \in BOOLEAN /\ file' \in [is : Contents \cup {Damaged}, mtime : Nat]
      BY <2>1, <3>1
    <3>3. /\ Others(t)
          /\ \/ t = Start /\ task'[t].at = "nodes" /\ task'[t].url = task[t].url /\ task'[t].cur = task[t].cur
             \/ t # Start /\ task'[t] = Idle
      BY <2>3, Leaves
    <3> QED BY <2>1, <3>1, <3>2, <3>3
  <2> QED BY <2>2, <2>3 DEF Fill
<1>3. TasksTyped' BY <1>1, <1>2 DEF SettingsInv, Typed, TasksTyped, FilesTyped, Idle, Duty
<1>4. FilesTyped' BY <1>1, <1>2 DEF SettingsInv, Typed, FilesTyped
<1>5. Turns' BY <1>1, <1>2 DEF SettingsInv, Typed, Turns
<1>6. Fresh' BY <1>1, <1>2 DEF SettingsInv, Typed, Fresh, Typed, TasksTyped, FilesTyped, Duty, Idle
<1>7. ASSUME ~strained' PROVE Calm'
  <2>1. FileStands' BY <1>1, <1>2, <1>7, NamesAssumption DEF SettingsInv, Calm, FileStands, Typed, TasksTyped, Duty
  <2>2. TimesTell'
    BY <1>1, <1>2, <1>7, NamesAssumption
    DEF SettingsInv, Calm, TimesTell, Loaded, Typed, TasksTyped, Turns, FilesTyped, Duty, SaveOnItsWay
  <2>3. StartOnItsWay' BY <1>1, <1>2, <1>7 DEF SettingsInv, Calm, StartOnItsWay, Loaded, Typed, Turns
  <2>4. CommandOnItsWay' BY <1>1, <1>2, <1>7 DEF SettingsInv, Calm, CommandOnItsWay, Typed, Turns
  <2>5. SaveOnItsWay' BY <1>1, <1>2, <1>7 DEF SettingsInv, Calm, SaveOnItsWay, Typed, Turns
  <2>6. Nodes' BY <1>1, <1>2, <1>7 DEF SettingsInv, Calm, Nodes
  <2>7. LookOnItsWay' BY <1>1, <1>2, <1>7 DEF SettingsInv, Calm, LookOnItsWay, Loaded, Typed, Turns
  <2> QED BY <2>1, <2>2, <2>3, <2>4, <2>5, <2>6, <2>7 DEF Calm
<1>8. ASSUME ~lost' PROVE OwnFields'
  BY <1>1, <1>2, <1>8, NamesAssumption DEF SettingsInv, OwnFields, Typed, TasksTyped, Turns, Duty, Calm, SaveOnItsWay
<1> QED BY <1>3, <1>4, <1>5, <1>6, <1>7, <1>8 DEF SettingsInv, Typed

LEMMA InstallKeeps == ASSUME SettingsInv, NEW t \in Tasks, Install(t) PROVE SettingsInv'
<1>1. /\ task[t].at = "install" /\ mem' = task[t].copy
      /\ UNCHANGED <<config, node, file, known, wanted, calls, edits, starts>>
  BY DEF Install
<1>2. /\ StepsTo(t, "mark")
      /\ strained' \in BOOLEAN /\ lost' \in BOOLEAN /\ (strained => strained') /\ (lost => lost')
      /\ strained' => lost'
      /\ \/ mem = mem'
         \/ file.is = mem' /\ \A u \in Tasks : ~At(u, {"snapshot", "write"})
         \/ strained' /\ lost'
  <2>1. strained \in BOOLEAN /\ lost \in BOOLEAN /\ (strained => lost)
    BY DEF SettingsInv, Typed, FilesTyped, Turns
  <2>2. StepsTo(t, "mark")
    BY Gone DEF Install
  <2>3. strained' = (strained \/ Overtaken(t)) /\ lost' = (lost \/ Overtaken(t)) BY DEF Install, Strain
  <2>4. Overtaken(t) \in BOOLEAN BY DEF Overtaken
  <2>5. ~Overtaken(t) => mem = mem' \/ (file.is = mem' /\ \A u \in Tasks : ~At(u, {"snapshot", "write"}))
    BY <1>1 DEF Overtaken
  <2> QED BY <2>1, <2>2, <2>3, <2>4, <2>5
<1>3. TasksTyped' BY <1>1, <1>2 DEF SettingsInv, Typed, TasksTyped, FilesTyped
<1>4. FilesTyped' BY <1>1, <1>2 DEF SettingsInv, Typed, FilesTyped, TasksTyped, Duty
<1>5. Turns' BY <1>1, <1>2 DEF SettingsInv, Typed, Turns
<1>6. Fresh' BY <1>1, <1>2 DEF SettingsInv, Typed, Fresh
<1>7. ASSUME ~strained' PROVE Calm'
  <2>1. FileStands' BY <1>1, <1>2, <1>7 DEF SettingsInv, Calm, FileStands
  <2>2. TimesTell'
    BY <1>1, <1>2, <1>7, NamesAssumption
    DEF SettingsInv, Calm, TimesTell, Loaded, Typed, Fresh, FilesTyped, TasksTyped, Duty
  <2>3. StartOnItsWay' BY <1>1, <1>2, <1>7 DEF SettingsInv, Calm, StartOnItsWay, Loaded, Typed, Turns
  <2>4. CommandOnItsWay'
    BY <1>1, <1>2, <1>7 DEF SettingsInv, Calm, CommandOnItsWay, Typed, Turns, Fresh, TasksTyped, FilesTyped, Duty
  <2>5. SaveOnItsWay'
    BY <1>1, <1>2, <1>7, NamesAssumption DEF SettingsInv, Calm, SaveOnItsWay, Typed, Turns, TasksTyped, Duty
  <2>6. Nodes' BY <1>1, <1>2, <1>7 DEF SettingsInv, Calm, Nodes, Typed, Turns
  <2>7. LookOnItsWay'
    BY <1>1, <1>2, <1>7
    DEF SettingsInv, Calm, LookOnItsWay, TimesTell, StartOnItsWay, Typed, Turns, FileStands, Loaded
  <2> QED BY <2>1, <2>2, <2>3, <2>4, <2>5, <2>6, <2>7 DEF Calm
<1>8. ASSUME ~lost' PROVE OwnFields'
  BY <1>1, <1>2, <1>8, NamesAssumption
  DEF SettingsInv, OwnFields, Typed, Turns, TasksTyped, Duty, Calm, SaveOnItsWay
<1> QED BY <1>3, <1>4, <1>5, <1>6, <1>7, <1>8 DEF SettingsInv, Typed

LEMMA SaveConfigKeeps == ASSUME SettingsInv, NEW c \in Commands, SaveConfig(c) PROVE SettingsInv'
<1>1. task[c].at = "config" /\ UNCHANGED <<node, file, mem, known, wanted, calls, edits, starts>>
  BY DEF SaveConfig, history, store, Failed, Strain
<1>2. /\ Others(c)
      /\ config' \in Urls \cup {Damaged}
      /\ \/ /\ task'[c].at = "node" /\ task'[c].url = task[c].url /\ task'[c].cur = task[c].cur
            /\ config' = task[c].url /\ task[c].url \in Urls /\ UNCHANGED <<strained, lost>>
         \/ task'[c] = Idle /\ strained' = TRUE /\ lost' = TRUE
  <2>1. task[c].url \in Urls /\ config \in Urls \cup {Damaged} BY DEF SettingsInv, Typed, TasksTyped, FilesTyped, Duty
  <2>2. CASE config' = task[c].url /\ Go(c, "node") /\ UNCHANGED history BY <2>1, <2>2, Gone DEF history
  <2>3. CASE config' \in {config, Damaged, task[c].url} /\ End(c) /\ Failed BY <2>1, <2>3, Moved DEF Failed, Strain, End
  <2> QED BY <2>2, <2>3 DEF SaveConfig
<1>3. TasksTyped' BY <1>1, <1>2 DEF SettingsInv, Typed, TasksTyped, FilesTyped, Idle, Duty
<1>4. FilesTyped' BY <1>1, <1>2 DEF SettingsInv, Typed, FilesTyped
<1>5. Turns' BY <1>1, <1>2 DEF SettingsInv, Typed, Turns
<1>6. Fresh' BY <1>1, <1>2 DEF SettingsInv, Typed, Fresh, Idle
<1>7. ASSUME ~strained' PROVE Calm'
  <2>1. FileStands' BY <1>1, <1>2, <1>7 DEF SettingsInv, Calm, FileStands
  <2>2. TimesTell' BY <1>1, <1>2, <1>7 DEF SettingsInv, Calm, TimesTell, Loaded
  <2>3. StartOnItsWay' BY <1>1, <1>2, <1>7 DEF SettingsInv, Calm, StartOnItsWay, Loaded, Typed, Turns
  <2>4. CommandOnItsWay' BY <1>1, <1>2, <1>7 DEF SettingsInv, Calm, CommandOnItsWay, Typed, Turns
  <2>5. SaveOnItsWay' BY <1>1, <1>2, <1>7 DEF SettingsInv, Calm, SaveOnItsWay, Typed, Turns
  <2>6. Nodes' BY <1>1, <1>2, <1>7, NamesAssumption DEF SettingsInv, Calm, Nodes, Typed, Turns, OrDefault
  <2>7. LookOnItsWay' BY <1>1, <1>2, <1>7 DEF SettingsInv, Calm, LookOnItsWay, Loaded
  <2> QED BY <2>1, <2>2, <2>3, <2>4, <2>5, <2>6, <2>7 DEF Calm
<1>8. ASSUME ~lost' PROVE OwnFields' BY <1>1, <1>2, <1>8 DEF SettingsInv, OwnFields
<1> QED BY <1>3, <1>4, <1>5, <1>6, <1>7, <1>8 DEF SettingsInv, Typed

LEMMA SetNodeKeeps == ASSUME SettingsInv, NEW c \in Commands, SetNode(c) PROVE SettingsInv'
<1>1. /\ task[c].at = "node" /\ node' = task[c].url
      /\ UNCHANGED <<config, file, mem, known, wanted, strained, lost, calls, edits, starts>>
  BY DEF SetNode, history, store
<1>2. StepsTo(c, "stat")
  BY Gone DEF SetNode
<1>3. TasksTyped' BY <1>1, <1>2 DEF SettingsInv, Typed, TasksTyped, FilesTyped
<1>4. FilesTyped' BY <1>1, <1>2 DEF SettingsInv, Typed, FilesTyped, TasksTyped, Duty
<1>5. Turns' BY <1>1, <1>2 DEF SettingsInv, Typed, Turns
<1>6. Fresh' BY <1>1, <1>2 DEF SettingsInv, Typed, Fresh
<1>7. ASSUME ~strained' PROVE Calm'
  <2>1. FileStands' BY <1>1, <1>2, <1>7 DEF SettingsInv, Calm, FileStands
  <2>2. TimesTell' BY <1>1, <1>2, <1>7 DEF SettingsInv, Calm, TimesTell, Loaded
  <2>3. StartOnItsWay' BY <1>1, <1>2, <1>7 DEF SettingsInv, Calm, StartOnItsWay, Loaded, Typed, Turns
  <2>4. CommandOnItsWay' BY <1>1, <1>2, <1>7 DEF SettingsInv, Calm, CommandOnItsWay
  <2>5. SaveOnItsWay' BY <1>1, <1>2, <1>7 DEF SettingsInv, Calm, SaveOnItsWay, Typed, Turns
  <2>6. Nodes'
    BY <1>1, <1>2, <1>7, NamesAssumption
    DEF SettingsInv, Calm, Nodes, Typed, Turns, CommandOnItsWay, TasksTyped, Duty, OrDefault
  <2>7. LookOnItsWay' BY <1>1, <1>2, <1>7 DEF SettingsInv, Calm, LookOnItsWay, Loaded
  <2> QED BY <2>1, <2>2, <2>3, <2>4, <2>5, <2>6, <2>7 DEF Calm
<1>8. ASSUME ~lost' PROVE OwnFields' BY <1>1, <1>2, <1>8 DEF SettingsInv, OwnFields
<1> QED BY <1>3, <1>4, <1>5, <1>6, <1>7, <1>8 DEF SettingsInv, Typed

LEMMA SetSettingsKeeps ==
    ASSUME SettingsInv, NEW c \in Commands, NEW url \in Urls, SetSettings(c, url)
    PROVE  SettingsInv'
<1>1. /\ Up /\ ~Active(c) /\ calls < MaxCalls /\ calls' = calls + 1 
      /\ UNCHANGED <<config, node, file, mem, known, wanted, edits, starts>>
  BY DEF SetSettings, store, Strain
<1>2. /\ Others(c)
      /\ task'[c].at = "config" /\ task'[c].url = url /\ task'[c].cur = 0
      /\ (strained => strained') /\ (lost => lost') /\ strained' \in BOOLEAN /\ lost' \in BOOLEAN
      /\ strained' => lost'
      /\ strained' \/ \A d \in Commands \ {c} : ~Active(d)
  <2> DEFINE s == [Idle EXCEPT !.at = "config", !.url = url]
  <2>1. task \in [Tasks -> Duty] /\ strained \in BOOLEAN /\ lost \in BOOLEAN /\ (strained => lost)
    BY NamesAssumption, DefaultsAssumption DEF SettingsInv, Typed, TasksTyped, FilesTyped, Turns, OrDefault, Contents
  <2>2. s \in Duty /\ s.at = "config" /\ s.url = url /\ s.cur = 0 BY <2>1 DEF Duty, Idle, Contents
  <2>3. task' = [task EXCEPT ![c] = s] BY DEF SetSettings
  <2> HIDE DEF s
  <2>4. task' \in [Tasks -> Duty] /\ task'[c] = s /\ \A u \in Tasks : u # c => task'[u] = task[u]
    BY <2>2, <2>3, Moved
  <2>5. strained' = (strained \/ Overlap(c)) /\ lost' = (lost \/ Overlap(c)) /\ Overlap(c) \in BOOLEAN
    BY DEF SetSettings, Overlap, Strain
  <2>6. /\ (strained => strained') /\ (lost => lost') /\ strained' \in BOOLEAN /\ lost' \in BOOLEAN
        /\ strained' => lost'
    BY <2>1, <2>5
  <2>7. strained' \/ \A d \in Commands \ {c} : ~Active(d) BY <2>5 DEF Overlap
  <2> QED BY <2>2, <2>4, <2>6, <2>7
<1>3. TasksTyped' BY <1>1, <1>2 DEF SettingsInv, Typed, TasksTyped, FilesTyped, Idle
<1>4. FilesTyped' BY <1>1, <1>2, NamesAssumption DEF SettingsInv, Typed, FilesTyped
<1>5. Turns' BY <1>1, <1>2 DEF SettingsInv, Typed, Turns
<1>6. Fresh' BY <1>1, <1>2 DEF SettingsInv, Typed, Fresh
<1>7. ASSUME ~strained' PROVE Calm'
  <2>1. FileStands' BY <1>1, <1>2, <1>7 DEF SettingsInv, Calm, FileStands, Typed, Turns
  <2>2. TimesTell' BY <1>1, <1>2, <1>7 DEF SettingsInv, Calm, TimesTell, Loaded, Typed, Turns
  <2>3. StartOnItsWay' BY <1>1, <1>2, <1>7 DEF SettingsInv, Calm, StartOnItsWay, Loaded, Typed, Turns
  <2>4. CommandOnItsWay' BY <1>1, <1>2, <1>7 DEF SettingsInv, Calm, CommandOnItsWay, Typed, Turns
  <2>5. SaveOnItsWay' BY <1>1, <1>2, <1>7 DEF SettingsInv, Calm, SaveOnItsWay, Typed, Turns
  <2>6. Nodes' BY <1>1, <1>2, <1>7 DEF SettingsInv, Calm, Nodes, Typed, Turns
  <2>7. LookOnItsWay' BY <1>1, <1>2, <1>7 DEF SettingsInv, Calm, LookOnItsWay
  <2> QED BY <2>1, <2>2, <2>3, <2>4, <2>5, <2>6, <2>7 DEF Calm
<1>8. ASSUME ~lost' PROVE OwnFields' BY <1>1, <1>2, <1>8 DEF SettingsInv, OwnFields, Typed, Turns
<1> QED BY <1>3, <1>4, <1>5, <1>6, <1>7, <1>8 DEF SettingsInv, Typed

LEMMA SetProverSettingsKeeps ==
    ASSUME SettingsInv, NEW c \in Commands, NEW own \in Owns, SetProverSettings(c, own)
    PROVE  SettingsInv'
<1>1. /\ Up /\ ~Active(c) /\ calls < MaxCalls /\ calls' = calls + 1 /\ wanted' = own
      /\ UNCHANGED <<config, node, file, mem, known, edits, starts>>
  BY DEF SetProverSettings, store, Strain
<1>2. /\ Others(c)
      /\ task'[c].at = "put" /\ task'[c].copy = [rpc |-> OrDefault(config), own |-> own] /\ task'[c].cur = 0
      /\ (strained => strained') /\ (lost => lost') /\ strained' \in BOOLEAN /\ lost' \in BOOLEAN
      /\ strained' => lost'
      /\ strained' \/ \A d \in Commands \ {c} : ~Active(d)
  <2> DEFINE s == [Idle EXCEPT !.at = "put", !.copy = [rpc |-> OrDefault(config), own |-> own]]
  <2>1. OrDefault(config) \in Urls /\ task \in [Tasks -> Duty] /\ strained \in BOOLEAN /\ lost \in BOOLEAN /\ (strained => lost)
    BY NamesAssumption, DefaultsAssumption DEF SettingsInv, Typed, TasksTyped, FilesTyped, Turns, OrDefault, Contents
  <2>2. s \in Duty /\ s.at = "put" /\ s.copy = [rpc |-> OrDefault(config), own |-> own] /\ s.cur = 0
    BY <2>1 DEF Duty, Idle, Contents
  <2>3. task' = [task EXCEPT ![c] = s] BY DEF SetProverSettings
  <2> HIDE DEF s
  <2>4. task' \in [Tasks -> Duty] /\ task'[c] = s /\ \A u \in Tasks : u # c => task'[u] = task[u]
    BY <2>2, <2>3, Moved
  <2>5. strained' = (strained \/ Overlap(c)) /\ lost' = (lost \/ Overlap(c)) /\ Overlap(c) \in BOOLEAN
    BY DEF SetProverSettings, Overlap, Strain
  <2>6. /\ (strained => strained') /\ (lost => lost') /\ strained' \in BOOLEAN /\ lost' \in BOOLEAN
        /\ strained' => lost'
    BY <2>1, <2>5
  <2>7. strained' \/ \A d \in Commands \ {c} : ~Active(d) BY <2>5 DEF Overlap
  <2> QED BY <2>2, <2>4, <2>6, <2>7
<1>3. TasksTyped' BY <1>1, <1>2 DEF SettingsInv, Typed, TasksTyped, FilesTyped
<1>4. FilesTyped' BY <1>1, <1>2, NamesAssumption DEF SettingsInv, Typed, FilesTyped
<1>5. Turns' BY <1>1, <1>2 DEF SettingsInv, Typed, Turns
<1>6. Fresh' BY <1>1, <1>2 DEF SettingsInv, Typed, Fresh
<1>7. ASSUME ~strained' PROVE Calm'
  <2>1. FileStands' BY <1>1, <1>2, <1>7 DEF SettingsInv, Calm, FileStands, Typed, Turns
  <2>2. TimesTell' BY <1>1, <1>2, <1>7 DEF SettingsInv, Calm, TimesTell, Loaded, Typed, Turns
  <2>3. StartOnItsWay' BY <1>1, <1>2, <1>7 DEF SettingsInv, Calm, StartOnItsWay, Loaded, Typed, Turns
  <2>4. CommandOnItsWay' BY <1>1, <1>2, <1>7 DEF SettingsInv, Calm, CommandOnItsWay, Typed, Turns
  <2>5. SaveOnItsWay' BY <1>1, <1>2, <1>7 DEF SettingsInv, Calm, SaveOnItsWay, Typed, Turns
  <2>6. Nodes' BY <1>1, <1>2, <1>7 DEF SettingsInv, Calm, Nodes, Typed, Turns
  <2>7. LookOnItsWay' BY <1>1, <1>2, <1>7 DEF SettingsInv, Calm, LookOnItsWay
  <2> QED BY <2>1, <2>2, <2>3, <2>4, <2>5, <2>6, <2>7 DEF Calm
<1>8. ASSUME ~lost' PROVE OwnFields' BY <1>1, <1>2, <1>8 DEF SettingsInv, OwnFields, Typed, Turns, Calm, FileStands
<1> QED BY <1>3, <1>4, <1>5, <1>6, <1>7, <1>8 DEF SettingsInv, Typed

LEMMA UseKeeps == ASSUME SettingsInv, NEW t \in Tasks, Use(t) PROVE SettingsInv'
<1>1. task[t].at = "use" /\ UNCHANGED <<config, node, file, mem, known, wanted, strained, lost, calls, edits, starts>>
  BY DEF Use, store, history
<1>2. /\ Others(t)
      /\ \/ t = Reader /\ task'[t] = Idle
         \/ /\ t # Reader /\ task'[t].at = "put" /\ task'[t].url = task[t].url /\ task'[t].cur = task[t].cur
            /\ task'[t].copy.rpc = task[t].url /\ task'[t].copy.own = mem.own
  <2>1. task \in [Tasks -> Duty] /\ mem \in Contents BY DEF SettingsInv, Typed, TasksTyped, FilesTyped
  <2>2. task[t] \in Duty BY <2>1
  <2>3. CASE t = Reader BY <2>3, Moved DEF Use, End
  <2>4. CASE t # Reader
    <3> DEFINE copy == [mem EXCEPT !.rpc = task[t].url]
               s == [task[t] EXCEPT !.at = "put", !.copy = copy]
    <3>1. copy \in Contents /\ copy.rpc = task[t].url /\ copy.own = mem.own BY <2>1, <2>2 DEF Contents, Duty
    <3>2. task' = [task EXCEPT ![t] = s] BY <2>1, <2>4 DEF Use
    <3> HIDE DEF copy
    <3>3. s \in Duty /\ s.at = "put" /\ s.copy = copy /\ s.url = task[t].url /\ s.cur = task[t].cur
      BY <2>2, <3>1 DEF Duty
    <3> HIDE DEF s
    <3> QED BY <2>4, <3>1, <3>2, <3>3, Moved
  <2> QED BY <2>3, <2>4
<1>3. TasksTyped' BY <1>1, <1>2 DEF SettingsInv, Typed, TasksTyped, FilesTyped, Idle, Duty
<1>4. FilesTyped' BY <1>1, <1>2 DEF SettingsInv, Typed, FilesTyped
<1>5. Turns' BY <1>1, <1>2 DEF SettingsInv, Typed, Turns
<1>6. Fresh' BY <1>1, <1>2 DEF SettingsInv, Typed, Fresh
<1>7. ASSUME ~strained' PROVE Calm'
  <2>1. FileStands' BY <1>1, <1>2, <1>7 DEF SettingsInv, Calm, FileStands
  <2>2. TimesTell' BY <1>1, <1>2, <1>7 DEF SettingsInv, Calm, TimesTell, Loaded
  <2>3. StartOnItsWay' BY <1>1, <1>2, <1>7 DEF SettingsInv, Calm, StartOnItsWay, Loaded
  <2>4. CommandOnItsWay' BY <1>1, <1>2, <1>7 DEF SettingsInv, Calm, CommandOnItsWay
  <2>5. SaveOnItsWay'
    BY <1>1, <1>2, <1>7, NamesAssumption
    DEF SettingsInv, Calm, SaveOnItsWay, StartOnItsWay, CommandOnItsWay, Typed, TasksTyped, Duty, OrDefault
  <2>6. Nodes' BY <1>1, <1>2, <1>7 DEF SettingsInv, Calm, Nodes
  <2>7. LookOnItsWay' BY <1>1, <1>2, <1>7 DEF SettingsInv, Calm, LookOnItsWay, Loaded
  <2> QED BY <2>1, <2>2, <2>3, <2>4, <2>5, <2>6, <2>7 DEF Calm
<1>8. ASSUME ~lost' PROVE OwnFields'
  BY <1>1, <1>2, <1>8
  DEF SettingsInv, OwnFields, Typed, Turns, Calm, LookOnItsWay, FileStands, Loaded, Default
<1> QED BY <1>3, <1>4, <1>5, <1>6, <1>7, <1>8 DEF SettingsInv, Typed

LEMMA AskKeeps == ASSUME SettingsInv, Ask PROVE SettingsInv'
<1>1. /\ Up /\ ~Active(Reader)
      /\ UNCHANGED <<config, node, file, mem, known, wanted, strained, lost, calls, edits, starts>>
  BY DEF Ask, store, history
<1>2. StepsTo(Reader, "stat")
  BY Gone DEF Ask
<1>3. TasksTyped' BY <1>1, <1>2 DEF SettingsInv, Typed, TasksTyped, FilesTyped
<1>4. FilesTyped' BY <1>1, <1>2 DEF SettingsInv, Typed, FilesTyped
<1>5. Turns' BY <1>1, <1>2 DEF SettingsInv, Typed, Turns
<1>6. Fresh' BY <1>1, <1>2 DEF SettingsInv, Typed, Fresh
<1>7. ASSUME ~strained' PROVE Calm'
  <2>1. FileStands' BY <1>1, <1>2, <1>7 DEF SettingsInv, Calm, FileStands
  <2>2. TimesTell' BY <1>1, <1>2, <1>7 DEF SettingsInv, Calm, TimesTell, Loaded
  <2>3. StartOnItsWay' BY <1>1, <1>2, <1>7 DEF SettingsInv, Calm, StartOnItsWay, Loaded
  <2>4. CommandOnItsWay' BY <1>1, <1>2, <1>7 DEF SettingsInv, Calm, CommandOnItsWay
  <2>5. SaveOnItsWay' BY <1>1, <1>2, <1>7 DEF SettingsInv, Calm, SaveOnItsWay
  <2>6. Nodes' BY <1>1, <1>2, <1>7 DEF SettingsInv, Calm, Nodes
  <2>7. LookOnItsWay' BY <1>1, <1>2, <1>7 DEF SettingsInv, Calm, LookOnItsWay, Loaded
  <2> QED BY <2>1, <2>2, <2>3, <2>4, <2>5, <2>6, <2>7 DEF Calm
<1>8. ASSUME ~lost' PROVE OwnFields' BY <1>1, <1>2, <1>8 DEF SettingsInv, OwnFields
<1> QED BY <1>3, <1>4, <1>5, <1>6, <1>7, <1>8 DEF SettingsInv, Typed

LEMMA EditKeeps == ASSUME SettingsInv, NEW own \in Owns, Edit(own) PROVE SettingsInv'
<1>1. /\ edits < MaxEdits /\ edits' = edits + 1 /\ file.is \in Contents /\ wanted' = own
      /\ UNCHANGED <<config, node, mem, known, task, calls, starts>>
  BY DEF Edit, store, SettingsInv, Typed, FilesTyped
<1>2. /\ file'.is \in Contents /\ file'.is.own = own /\ file'.is.rpc = file.is.rpc
      /\ file' \in [is : Contents \cup {Damaged}, mtime : Nat]
      /\ file.mtime \in Nat /\ file'.mtime \in {file.mtime, file.mtime + 1} /\ file'.mtime # 0
      /\ (strained => strained') /\ (lost => lost') /\ strained' \in BOOLEAN /\ lost' \in BOOLEAN
      /\ strained' => lost'
      /\ strained' \/ (file'.mtime = file.mtime + 1 /\ \A t \in Writers : ~At(t, Between))
      /\ lost' \/ \A t \in Writers : ~At(t, Between)
  <2> DEFINE is == [file.is EXCEPT !.own = own]
             raced == \E t \in Commands \cup {Start} : task[t].at \in Between
             cause == file'.mtime = file.mtime \/ raced
  <2>1. is \in Contents /\ is.own = own /\ is.rpc = file.is.rpc BY <1>1 DEF Contents
  <2>2. Written(is) /\ strained' = (strained \/ cause) /\ lost' = (lost \/ cause) BY DEF Edit, Strain
  <2>3. file.mtime \in Nat /\ strained \in BOOLEAN /\ lost \in BOOLEAN /\ (strained => lost)
    BY DEF SettingsInv, Typed, FilesTyped, Turns
  <2>4. /\ cause \in BOOLEAN
        /\ ~cause => file'.mtime # file.mtime /\ \A t \in Writers : ~At(t, Between)
    OBVIOUS
  <2> HIDE DEF is, raced, cause
  <2>5. /\ file'.is = is /\ file'.mtime \in {file.mtime, file.mtime + 1} /\ file'.mtime # 0
        /\ file' \in [is : Contents \cup {Damaged}, mtime : Nat]
    BY <2>1, <2>2, <2>3, WrittenIs
  <2>6. /\ (strained => strained') /\ (lost => lost') /\ strained' \in BOOLEAN /\ lost' \in BOOLEAN
        /\ strained' => lost'
        /\ ~strained' => ~cause
        /\ ~lost' => ~cause
    BY <2>2, <2>3, <2>4
  <2> QED BY <2>1, <2>3, <2>4, <2>5, <2>6
<1>3. TasksTyped' BY <1>1, <1>2 DEF SettingsInv, Typed, TasksTyped, FilesTyped, Duty
<1>4. FilesTyped' BY <1>1, <1>2, NamesAssumption DEF SettingsInv, Typed, FilesTyped
<1>5. Turns' BY <1>1, <1>2 DEF SettingsInv, Typed, Turns
<1>6. Fresh' BY <1>1, <1>2 DEF SettingsInv, Typed, Fresh, TasksTyped, FilesTyped, Duty
<1>7. ASSUME ~strained' PROVE Calm'
  <2>1. FileStands' BY <1>1, <1>2, <1>7, NamesAssumption DEF SettingsInv, Calm, FileStands
  <2>2. TimesTell' BY <1>1, <1>2, <1>7 DEF SettingsInv, Calm, TimesTell, Loaded, Typed, FilesTyped, TasksTyped, Duty
  <2>3. StartOnItsWay' BY <1>1, <1>2, <1>7, NamesAssumption DEF SettingsInv, Calm, StartOnItsWay, Between
  <2>4. CommandOnItsWay' BY <1>1, <1>2, <1>7 DEF SettingsInv, Calm, CommandOnItsWay
  <2>5. SaveOnItsWay' BY <1>1, <1>2, <1>7, NamesAssumption DEF SettingsInv, Calm, SaveOnItsWay, Between
  <2>6. Nodes' BY <1>1, <1>2, <1>7, NamesAssumption DEF SettingsInv, Calm, Nodes
  <2>7. LookOnItsWay'
    BY <1>1, <1>2, <1>7, NamesAssumption
    DEF SettingsInv, Calm, LookOnItsWay, Loaded, Typed, Turns, TasksTyped, Duty, Between
  <2> QED BY <2>1, <2>2, <2>3, <2>4, <2>5, <2>6, <2>7 DEF Calm
<1>8. ASSUME ~lost' PROVE OwnFields'
  BY <1>1, <1>2, <1>8, NamesAssumption
     DEF SettingsInv, OwnFields, Between, Calm, SaveOnItsWay, Typed, Turns
<1> QED BY <1>3, <1>4, <1>5, <1>6, <1>7, <1>8 DEF SettingsInv, Typed

LEMMA StartWalletKeeps == ASSUME SettingsInv, StartWallet PROVE SettingsInv'
<1>1. /\ task[Start].at = "wallet"
      /\ UNCHANGED <<config, node, file, mem, known, wanted, strained, lost, calls, edits, starts>>
  BY DEF StartWallet, store, history
<1>2. /\ Others(Start)
      /\ task'[Start].at = "stat" /\ task'[Start].url = OrDefault(config) /\ task'[Start].cur = task[Start].cur
  <2> DEFINE s == [task[Start] EXCEPT !.at = "stat", !.url = OrDefault(config)]
  <2>1. task \in [Tasks -> Duty] /\ OrDefault(config) \in Urls
    BY DefaultsAssumption DEF SettingsInv, Typed, TasksTyped, FilesTyped, OrDefault
  <2>2. task[Start] \in Duty BY <2>1
  <2>3. s \in Duty /\ s.at = "stat" /\ s.url = OrDefault(config) /\ s.cur = task[Start].cur
    BY <2>1, <2>2 DEF Duty
  <2>4. task' = [task EXCEPT ![Start] = s] BY <2>1 DEF StartWallet
  <2> HIDE DEF s
  <2> QED BY <2>3, <2>4, Moved
<1>3. TasksTyped' BY <1>1, <1>2 DEF SettingsInv, Typed, TasksTyped, FilesTyped
<1>4. FilesTyped' BY <1>1, <1>2 DEF SettingsInv, Typed, FilesTyped
<1>5. Turns' BY <1>1, <1>2 DEF SettingsInv, Typed, Turns
<1>6. Fresh' BY <1>1, <1>2 DEF SettingsInv, Typed, Fresh
<1>7. ASSUME ~strained' PROVE Calm'
  <2>1. FileStands' BY <1>1, <1>2, <1>7 DEF SettingsInv, Calm, FileStands
  <2>2. TimesTell' BY <1>1, <1>2, <1>7 DEF SettingsInv, Calm, TimesTell, Loaded
  <2>3. StartOnItsWay' BY <1>1, <1>2, <1>7 DEF SettingsInv, Calm, StartOnItsWay, Loaded, OrDefault
  <2>4. CommandOnItsWay' BY <1>1, <1>2, <1>7 DEF SettingsInv, Calm, CommandOnItsWay
  <2>5. SaveOnItsWay' BY <1>1, <1>2, <1>7 DEF SettingsInv, Calm, SaveOnItsWay
  <2>6. Nodes' BY <1>1, <1>2, <1>7 DEF SettingsInv, Calm, Nodes
  <2>7. LookOnItsWay' BY <1>1, <1>2, <1>7 DEF SettingsInv, Calm, LookOnItsWay, Loaded
  <2> QED BY <2>1, <2>2, <2>3, <2>4, <2>5, <2>6, <2>7 DEF Calm
<1>8. ASSUME ~lost' PROVE OwnFields' BY <1>1, <1>2, <1>8 DEF SettingsInv, OwnFields
<1> QED BY <1>3, <1>4, <1>5, <1>6, <1>7, <1>8 DEF SettingsInv, Typed

LEMMA StartNodesKeeps == ASSUME SettingsInv, StartNodes PROVE SettingsInv'
<1>1. /\ task[Start].at = "nodes" /\ node' = task[Start].url
      /\ UNCHANGED <<config, file, mem, known, wanted, strained, lost, calls, edits, starts>>
  BY DEF StartNodes, store, history
<1>2. task' \in [Tasks -> Duty] /\ task'[Start] = Idle /\ \A u \in Tasks : u # Start => task'[u] = task[u]
  BY Moved DEF StartNodes, End
<1>3. TasksTyped' BY <1>1, <1>2 DEF SettingsInv, Typed, TasksTyped, FilesTyped
<1>4. FilesTyped' BY <1>1, <1>2 DEF SettingsInv, Typed, FilesTyped, TasksTyped, Duty
<1>5. Turns' BY <1>1, <1>2 DEF SettingsInv, Typed, Turns
<1>6. Fresh' BY <1>1, <1>2 DEF SettingsInv, Typed, Fresh
<1>7. ASSUME ~strained' PROVE Calm'
  <2>1. FileStands' BY <1>1, <1>2, <1>7 DEF SettingsInv, Calm, FileStands
  <2>2. TimesTell' BY <1>1, <1>2, <1>7 DEF SettingsInv, Calm, TimesTell, Loaded
  <2>3. StartOnItsWay' BY <1>1, <1>2, <1>7 DEF SettingsInv, Calm, StartOnItsWay, Loaded
  <2>4. CommandOnItsWay' BY <1>1, <1>2, <1>7 DEF SettingsInv, Calm, CommandOnItsWay
  <2>5. SaveOnItsWay' BY <1>1, <1>2, <1>7 DEF SettingsInv, Calm, SaveOnItsWay
  <2>6. Nodes' BY <1>1, <1>2, <1>7 DEF SettingsInv, Calm, Nodes, StartOnItsWay, OrDefault, Typed, Turns
  <2>7. LookOnItsWay' BY <1>1, <1>2, <1>7 DEF SettingsInv, Calm, LookOnItsWay, Loaded
  <2> QED BY <2>1, <2>2, <2>3, <2>4, <2>5, <2>6, <2>7 DEF Calm
<1>8. ASSUME ~lost' PROVE OwnFields' BY <1>1, <1>2, <1>8 DEF SettingsInv, OwnFields
<1> QED BY <1>3, <1>4, <1>5, <1>6, <1>7, <1>8 DEF SettingsInv, Typed

LEMMA RestartKeeps == ASSUME SettingsInv, Restart PROVE SettingsInv'
<1>1. /\ starts < MaxStarts /\ starts' = starts + 1 /\ config' \in {config, Damaged} /\ node' = NoUrl /\ strained' = FALSE
      /\ UNCHANGED <<file, mem, known, calls, edits>>
  BY DEF Restart, store
<1>2. /\ task' \in [Tasks -> Duty] /\ task'[Start].at = "load" /\ task'[Start].cur = 0
      /\ \A t \in Tasks : t # Start => task'[t] = Idle
      /\ lost' \in BOOLEAN /\ (lost => lost') /\ wanted' \in Owns
      /\ \/ file.is = Damaged /\ wanted' = wanted /\ (lost' \/ file.mtime = 0)
         \/ file.is \in Contents /\ wanted' = file.is.own
  <2> DEFINE s == [Idle EXCEPT !.at = "load"]
  <2>1. s \in Duty /\ s.at = "load" /\ s.cur = 0 BY DEF Duty, Idle
  <2>2. task' = [t \in Tasks |-> IF t = Start THEN s ELSE Idle] BY DEF Restart
  <2> HIDE DEF s
  <2>3. file.is \in Contents \cup {Damaged} /\ file.mtime \in Nat /\ lost \in BOOLEAN /\ wanted \in Owns
    BY DEF SettingsInv, Typed, FilesTyped
  <2>4. CASE file.is = Damaged
    <3>1. lost' = (lost \/ file.mtime # 0) /\ wanted' = wanted BY <2>4 DEF Restart
    <3> QED BY <2>1, <2>2, <2>3, <2>4, <3>1
  <2>5. CASE file.is # Damaged
    <3>1. file.is \in Contents /\ file.is.own \in Owns BY <2>3, <2>5 DEF Contents
    <3>2. wanted' = file.is.own /\ lost' = lost BY <2>5 DEF Restart
    <3> QED BY <2>1, <2>2, <2>3, <3>1, <3>2
  <2> QED BY <2>4, <2>5
<1>3. TasksTyped' BY <1>1, <1>2 DEF SettingsInv, Typed, TasksTyped, FilesTyped, Idle, Duty
<1>4. FilesTyped'
  <2>1. starts' \in 1..MaxStarts BY <1>1, NamesAssumption DEF SettingsInv, Typed, FilesTyped
  <2>2. config' \in Urls \cup {Damaged} /\ strained' \in BOOLEAN BY <1>1 DEF SettingsInv, Typed, FilesTyped
  <2> QED BY <1>1, <1>2, <2>1, <2>2, DefaultsAssumption DEF SettingsInv, Typed, FilesTyped
<1>5. Turns' BY <1>1, <1>2 DEF SettingsInv, Typed, Turns
<1>6. Fresh' BY <1>1, <1>2 DEF SettingsInv, Typed, Fresh, Idle
<1>7. ASSUME ~strained' PROVE Calm'
  <2>1. FileStands' BY <1>1, <1>2, <1>7 DEF SettingsInv, Calm, FileStands
  <2>2. TimesTell' BY <1>1, <1>2, <1>7 DEF SettingsInv, Calm, TimesTell, Loaded
  <2>3. StartOnItsWay' BY <1>1, <1>2, <1>7 DEF SettingsInv, Calm, StartOnItsWay, Loaded
  <2>4. CommandOnItsWay' BY <1>1, <1>2, <1>7 DEF SettingsInv, Calm, CommandOnItsWay
  <2>5. SaveOnItsWay' BY <1>1, <1>2, <1>7 DEF SettingsInv, Calm, SaveOnItsWay
  <2>6. Nodes' BY <1>1, <1>2, <1>7 DEF SettingsInv, Calm, Nodes
  <2>7. LookOnItsWay' BY <1>1, <1>2, <1>7 DEF SettingsInv, Calm, LookOnItsWay
  <2> QED BY <2>1, <2>2, <2>3, <2>4, <2>5, <2>6, <2>7 DEF Calm
<1>8. ASSUME ~lost' PROVE OwnFields' BY <1>1, <1>2, <1>8, NamesAssumption DEF SettingsInv, OwnFields, Typed, Fresh
<1> QED BY <1>3, <1>4, <1>5, <1>6, <1>7, <1>8 DEF SettingsInv, Typed

--------------------------------------------------------------------------------
(* The theorems.                                                           *)

LEMMA StutterKeeps == ASSUME SettingsInv, UNCHANGED vars PROVE SettingsInv'
BY DEF vars, store, history, SettingsInv, Typed, TasksTyped, FilesTyped, Turns, Fresh, Calm, FileStands, TimesTell,
       StartOnItsWay, LookOnItsWay, CommandOnItsWay, SaveOnItsWay, Nodes, OwnFields, Loaded, OrDefault

LEMMA InitInv == Init => SettingsInv
<1> SUFFICES ASSUME Init PROVE SettingsInv OBVIOUS
<1> DEFINE s == [Idle EXCEPT !.at = "load"]
<1>1. s \in Duty /\ s.at = "load" /\ s.cur = 0 BY DEF Duty, Idle
<1>2. task = [t \in Tasks |-> IF t = Start THEN s ELSE Idle] BY DEF Init
<1> HIDE DEF s
<1>3. task \in [Tasks -> Duty] /\ task[Start] = s /\ \A t \in Tasks : t # Start => task[t] = Idle BY <1>1, <1>2
<1>4. /\ config \in Urls \cup {Damaged} /\ file \in [is : Contents \cup {Damaged}, mtime : Nat] /\ file.mtime \in Nat
      /\ (file.is = Damaged /\ file.mtime = 0) \/ (file.is \in Contents /\ file.is.own = Blank)
  BY DefaultsAssumption DEF Init, Contents
<1>5. /\ node = NoUrl /\ mem = Default /\ known = 0 /\ wanted = Blank /\ strained = FALSE /\ lost = FALSE
      /\ calls = 0 /\ edits = 0 /\ starts = 1
  BY DEF Init
<1>6. TasksTyped BY <1>1, <1>3, <1>4 DEF TasksTyped, Idle
<1>7. FilesTyped
  <2>1. calls \in 0..MaxCalls /\ edits \in 0..MaxEdits /\ starts \in 1..MaxStarts BY <1>5, NamesAssumption
  <2>2. known \in 0..file.mtime BY <1>4, <1>5
  <2>3. strained \in BOOLEAN /\ lost \in BOOLEAN BY <1>5
  <2> QED BY <1>4, <1>5, <2>1, <2>2, <2>3, DefaultsAssumption DEF FilesTyped
<1>8. Turns /\ Fresh BY <1>1, <1>3, <1>5 DEF Turns, Fresh
<1>9. Calm
  BY <1>1, <1>3
  DEF Calm, FileStands, TimesTell, StartOnItsWay, LookOnItsWay, CommandOnItsWay, SaveOnItsWay, Nodes
<1>10. OwnFields BY <1>1, <1>3, <1>4, <1>5, NamesAssumption DEF OwnFields
<1> QED BY <1>6, <1>7, <1>8, <1>9, <1>10 DEF SettingsInv, Typed

\* The reader never comes to save anything.
LEMMA ReaderReads ==
    ASSUME SettingsInv, NEW t \in Tasks, task[t].at \in Saves
    PROVE  t \in Writers
BY DEF SettingsInv, Typed, TasksTyped

LEMMA StoreStepKeeps == ASSUME SettingsInv, NEW t \in Tasks, StoreStep(t) PROVE SettingsInv'
<1>1. ASSUME Put(t) \/ Snapshot(t) \/ Write(t) \/ Fill(t) \/ Saved(t) PROVE t \in Writers
  BY <1>1, ReaderReads DEF Put, Snapshot, Write, Fill, Saved
<1> QED
  BY <1>1, StatKeeps, ReadKeeps, InstallKeeps, MarkKeeps, UseKeeps, PutKeeps, SnapshotKeeps, WriteKeeps, FillKeeps, SavedKeeps
  DEF StoreStep

LEMMA NextKeeps == SettingsInv /\ [Next]_vars => SettingsInv'
<1>1. ASSUME SettingsInv, NEW t \in Commands \cup {Reader}, Run(t) PROVE SettingsInv'
  <2>1. SetNode(t) => t \in Commands BY <1>1 DEF SetNode, SettingsInv, Typed, TasksTyped
  <2>2. SaveConfig(t) => t \in Commands BY DEF SaveConfig
  <2> QED BY <1>1, <2>1, <2>2, StoreStepKeeps, SaveConfigKeeps, SetNodeKeeps DEF Run
<1>2. ASSUME SettingsInv, StartStep PROVE SettingsInv'
  BY <1>2, StoreStepKeeps, LoadKeeps, LoadTimeKeeps, StartWalletKeeps, StartNodesKeeps DEF StartStep
<1> QED
  BY <1>1, <1>2, SetSettingsKeeps, SetProverSettingsKeeps, AskKeeps, EditKeeps, RestartKeeps, StutterKeeps DEF Next

\* Who is under way, where each has come to, and what the store's time says of its copy.
THEOREM SettingsInvariant == Spec => []SettingsInv
BY InitInv, NextKeeps, PTL DEF Spec

\* At rest the store's answer is the file, and the file is not damaged.
LEMMA AnswerIsFile == ASSUME SettingsInv, Rest, ~strained PROVE file.is \in Contents /\ Answer = file.is
<1>1. \A t \in Tasks : task[t].at = "idle" BY DEF Rest
<1>2. file.is \in Contents
  BY <1>1 DEF SettingsInv, Calm, FileStands, Typed, FilesTyped
<1>3. file.is # Damaged BY <1>2, NamesAssumption
<1>4. known = file.mtime => mem = file.is BY <1>1, <1>3 DEF SettingsInv, Calm, TimesTell, Loaded
<1> QED BY <1>2, <1>3, <1>4 DEF Answer

\* When nothing is under way, config.json, the service's node, settings.json and the store agree on the node, and the
\* store answers what its file says, if since the start no commands overlapped, no write failed, no edit by hand kept
\* the file's time or fell between a command's look and its save, and no reload was overtaken, by a save for one
\* (sync_prover_rpc, SettingsStore::reload_if_changed, update and save).
THEOREM FilesAgree == Spec => []Agreement
<1>1. ASSUME SettingsInv PROVE TypeOK
  BY <1>1 DEF SettingsInv, Typed, TasksTyped, FilesTyped, TypeOK, Duty
<1>2. ASSUME SettingsInv PROVE SameNode /\ StoreTellsFile
  <2>1. SUFFICES ASSUME Rest, ~strained PROVE node = OrDefault(config) /\ Answer = file.is /\ file.is.rpc = node
    BY DEF SameNode, StoreTellsFile
  <2>2. \A t \in Tasks : task[t].at = "idle" BY <2>1 DEF Rest
  <2>3. node = OrDefault(config) /\ file.is.rpc = OrDefault(config)
    BY <1>2, <2>1, <2>2 DEF SettingsInv, Calm, Nodes
  <2> QED BY <1>2, <2>1, <2>3, AnswerIsFile
<1>3. SettingsInv => Agreement BY <1>1, <1>2 DEF Agreement
<1> QED BY <1>3, SettingsInvariant, PTL

\* The prover's own fields are what the user has last made of them, over the mirrors of a URL, the edits by hand and
\* the starts, as long as none of what FilesAgree names has ever happened and no crash has left the file torn
\* (sync_prover_rpc, SettingsStore::update).
THEOREM OwnFieldsStay == Spec => []OwnFieldsKept
<1>1. ASSUME SettingsInv, Rest, ~lost PROVE Answer.own = wanted
  <2>1. ~strained BY <1>1 DEF SettingsInv, Typed, Turns
  <2>2. file.is \in Contents /\ Answer = file.is BY <1>1, <2>1, AnswerIsFile
  <2>3. \A t \in Writers : task[t].at = "idle" BY <1>1 DEF Rest
  <2> QED BY <1>1, <2>2, <2>3, NamesAssumption DEF SettingsInv, OwnFields
<1>2. SettingsInv => OwnFieldsKept BY <1>1 DEF OwnFieldsKept
<1> QED BY <1>2, SettingsInvariant, PTL
================================================================================
