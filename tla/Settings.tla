--------------------------------- MODULE Settings ---------------------------------
(***************************************************************************)
(* The two settings files and what is made of them: the wallet's           *)
(* config.json (desktop/src-tauri/src/settings.rs) with the node client of *)
(* the service, and the prover's settings.json with the copy its store     *)
(* keeps (crates/prover/src/settings.rs). The wallet's URL is mirrored to  *)
(* the prover at the start and on every save; the file's time of change    *)
(* tells the store whether someone else has edited it.                     *)
(*                                                                         *)
(* One network stands for both. The commands run on several threads, so    *)
(* that every access to a file or to the store is a step of its own.       *)
(***************************************************************************)
EXTENDS Naturals

CONSTANTS Urls,                 \* RPC URLs
          NoUrl,                \* the empty one, which is the default
          Owns,                 \* values of the prover's own fields: backend, remote prover, API keys
          Blank,                \* their default
          Damaged,              \* what is not JSON, or not there
          Commands,             \* calls of set_settings and set_prover_settings
          Reader,               \* whoever asks the store: get_prover_settings, for_network
          MaxCalls, MaxEdits, MaxStarts   \* bounds: commands, edits of settings.json by hand, starts of the process

ASSUME DefaultsAssumption == NoUrl \in Urls /\ Blank \in Owns

VARIABLES
  config,       \* config.json: a URL
  node,         \* the service's node client, by its URL
  file,         \* settings.json: [is, mtime]
  mem, known,   \* the store: settings, and mtime as last read
  task,         \* what each call does: [at, url, copy, cur]
  wanted,       \* history: the prover's fields as the user has set them
  strained,     \* history: since the start, one of what Strain names has happened
  lost,         \* history: one of these has ever happened, or a crash in the middle of a write
  calls, edits, starts

store == <<mem, known>>
history == <<wanted, strained, lost, calls, edits, starts>>
vars == <<config, node, file, store, task, history>>

Start == "start"
Tasks == Commands \cup {Reader, Start}
Contents == [rpc : Urls, own : Owns]
Default == [rpc |-> NoUrl, own |-> Blank]
ASSUME NamesAssumption ==
  /\ Damaged \notin Urls \cup Contents /\ Start \notin Commands /\ Reader \notin Commands \cup {Start}
  /\ MaxCalls \in Nat /\ MaxEdits \in Nat /\ MaxStarts \in Nat \ {0}

Idle == [at |-> "idle", url |-> NoUrl, copy |-> Default, cur |-> 0]

Active(c) == task[c].at # "idle"
Up == ~Active(Start)
Rest == \A t \in Tasks : ~Active(t)

Go(t, at) == task' = [task EXCEPT ![t].at = at]
End(t) == task' = [task EXCEPT ![t] = Idle]

\* What the code has no answer to: commands that overlap, a write that fails, an edit by hand that nobody can see, and a
\* reload that a save or another reload has overtaken.
Strain(cause) == strained' = (strained \/ cause) /\ lost' = (lost \/ cause)
OrDefault(url) == IF url = Damaged THEN NoUrl ELSE url

TypeOK ==
  /\ config \in Urls \cup {Damaged} /\ node \in Urls
  /\ file.is \in Contents \cup {Damaged} /\ file.mtime \in Nat
  /\ mem \in Contents /\ known \in 0..file.mtime
  /\ \A t \in Tasks : task[t].copy \in Contents /\ task[t].cur <= file.mtime
  /\ wanted \in Owns /\ strained \in BOOLEAN /\ lost \in BOOLEAN
  /\ calls \in 0..MaxCalls /\ edits \in 0..MaxEdits /\ starts \in 1..MaxStarts

\* Either a first start, with neither file, or one after a past session.
Init ==
  /\ \/ config = Damaged /\ file = [is |-> Damaged, mtime |-> 0]
     \/ config \in Urls /\ file = [is |-> [rpc |-> config, own |-> Blank], mtime |-> 1]
  /\ node = NoUrl /\ mem = Default /\ known = 0
  /\ task = [t \in Tasks |-> IF t = Start THEN [Idle EXCEPT !.at = "load"] ELSE Idle]
  /\ wanted = Blank /\ strained = FALSE /\ lost = FALSE
  /\ calls = 0 /\ edits = 0 /\ starts = 1

--------------------------------------------------------------------------------
(* The store. *)

\* SettingsStore::load: the contents first, then the time.
Load ==
  /\ task[Start].at = "load"
  /\ mem' = IF file.is = Damaged THEN Default ELSE file.is
  /\ Go(Start, "loadTime")
  /\ UNCHANGED <<config, node, file, known, history>>

LoadTime ==
  /\ task[Start].at = "loadTime"
  /\ known' = file.mtime
  /\ Go(Start, "wallet")
  /\ UNCHANGED <<config, node, file, mem, history>>

\* Mutant: get answers from the store without a look at the file.
StatNever(t) ==
  /\ task[t].at = "stat"
  /\ Go(t, "use")
  /\ UNCHANGED <<config, node, file, store, history>>

\* reload_if_changed.
Stat(t) ==
  /\ task[t].at = "stat"
  /\ IF file.mtime # 0 /\ file.mtime # known
     THEN task' = [task EXCEPT ![t].at = "read", ![t].cur = file.mtime]
     ELSE Go(t, "use")
  /\ UNCHANGED <<config, node, file, store, history>>

\* A file that is just being written is left for the next time.
Read(t) ==
  /\ task[t].at = "read"
  /\ IF file.is = Damaged
     THEN Go(t, "use")
     ELSE task' = [task EXCEPT ![t].at = "install", ![t].copy = file.is]
  /\ UNCHANGED <<config, node, file, store, history>>

\* Since t has read the file, the store was given something else, and the file was, or is about to be, as well.
Overtaken(t) ==
  mem # task[t].copy /\ (file.is # task[t].copy \/ \E u \in Tasks : task[u].at \in {"snapshot", "write"})

\* A reload that was overtaken puts back what it has read before: between the store and the save of an update it undoes
\* the update, of which the save then writes the older settings, or none of which the store still has.
Install(t) ==
  /\ task[t].at = "install"
  /\ mem' = task[t].copy
  /\ Go(t, "mark")
  /\ Strain(Overtaken(t))
  /\ UNCHANGED <<config, node, file, known, wanted, calls, edits, starts>>

\* Mutant: the time is taken when the contents have been read.
MarkNow(t) ==
  /\ task[t].at = "mark"
  /\ known' = file.mtime
  /\ Go(t, "use")
  /\ UNCHANGED <<config, node, file, mem, history>>

Mark(t) ==
  /\ task[t].at = "mark"
  /\ known' = task[t].cur
  /\ Go(t, "use")
  /\ UNCHANGED <<config, node, file, mem, history>>

\* update: the store first.
Put(t) ==
  /\ task[t].at = "put"
  /\ mem' = task[t].copy
  /\ Go(t, "snapshot")
  /\ UNCHANGED <<config, node, file, known, history>>

\* save: of what is in the store by then.
Snapshot(t) ==
  /\ task[t].at = "snapshot"
  /\ task' = [task EXCEPT ![t].at = "write", ![t].copy = mem]
  /\ UNCHANGED <<config, node, file, store, history>>

\* The time of a file is as fine as the file system's clock: two writes may carry the same.
Written(is) == \E time \in {file.mtime, file.mtime + 1} \ {0} : file' = [is |-> is, mtime |-> time]
Failed == Strain(TRUE) /\ UNCHANGED <<wanted, calls, edits, starts>>

After(t) == IF t = Start THEN Go(t, "nodes") ELSE End(t)

\* fs::write empties the file and fills it; either may fail, which sync_prover_rpc ignores.
Write(t) ==
  /\ task[t].at = "write"
  /\ \/ Written(Damaged) /\ Go(t, "fill") /\ UNCHANGED history
     \/ UNCHANGED file /\ After(t) /\ Failed
  /\ UNCHANGED <<config, node, store>>

Fill(t) ==
  /\ task[t].at = "fill"
  /\ \/ Written(task[t].copy) /\ Go(t, "saved") /\ UNCHANGED history
     \/ UNCHANGED file /\ After(t) /\ Failed
  /\ UNCHANGED <<config, node, store>>

Saved(t) ==
  /\ task[t].at = "saved"
  /\ known' = file.mtime
  /\ After(t)
  /\ UNCHANGED <<config, node, file, mem, history>>

--------------------------------------------------------------------------------
(* The commands. *)

Overlap(c) == \E d \in Commands \ {c} : Active(d)

\* validate only looks at the form of a URL.
SetSettings(c, url) ==
  /\ Up /\ ~Active(c) /\ calls < MaxCalls
  /\ calls' = calls + 1
  /\ task' = [task EXCEPT ![c] = [Idle EXCEPT !.at = "config", !.url = url]]
  /\ Strain(Overlap(c))
  /\ UNCHANGED <<config, node, file, store, wanted, edits, starts>>

SaveConfig(c) ==
  /\ c \in Commands /\ task[c].at = "config"
  /\ \/ config' = task[c].url /\ Go(c, "node") /\ UNCHANGED history
     \/ config' \in {config, Damaged, task[c].url} /\ End(c) /\ Failed
  /\ UNCHANGED <<node, file, store>>

SetNode(c) ==
  /\ task[c].at = "node"
  /\ node' = task[c].url
  /\ Go(c, "stat")
  /\ UNCHANGED <<config, file, store, history>>

\* What get answers; sync_prover_rpc puts the wallet's URL into it.
Use(t) ==
  /\ task[t].at = "use"
  /\ IF t = Reader THEN End(t)
     ELSE task' = [task EXCEPT ![t].at = "put", ![t].copy = [mem EXCEPT !.rpc = task[t].url]]
  /\ UNCHANGED <<config, node, file, store, history>>

\* set_prover_settings replaces everything but the URL, which it takes from config.json.
SetProverSettings(c, own) ==
  /\ Up /\ ~Active(c) /\ calls < MaxCalls
  /\ calls' = calls + 1
  /\ task' = [task EXCEPT ![c] = [Idle EXCEPT !.at = "put", !.copy = [rpc |-> OrDefault(config), own |-> own]]]
  /\ wanted' = own
  /\ Strain(Overlap(c))
  /\ UNCHANGED <<config, node, file, store, edits, starts>>

Ask ==
  /\ Up /\ ~Active(Reader)
  /\ Go(Reader, "stat")
  /\ UNCHANGED <<config, node, file, store, history>>

Between == {"loadTime", "read", "install", "mark", "use", "put", "snapshot", "write", "saved"}

\* By hand, the prover's fields only. Nobody can see it when the file keeps its time, and one of the two is lost when it
\* falls between a command's look at the file and the end of its save, or between the two reads of a load.
Edit(own) ==
  /\ edits < MaxEdits /\ file.is # Damaged
  /\ edits' = edits + 1
  /\ Written([file.is EXCEPT !.own = own])
  /\ wanted' = own
  /\ Strain(file'.mtime = file.mtime \/ \E t \in Commands \cup {Start} : task[t].at \in Between)
  /\ UNCHANGED <<config, node, store, task, calls, starts>>

--------------------------------------------------------------------------------
(* The start of the app. *)

\* Mutant: the prover's settings are only written on a save.
StartWalletNoSync ==
  /\ task[Start].at = "wallet"
  /\ task' = [task EXCEPT ![Start].at = "nodes", ![Start].url = OrDefault(config)]
  /\ UNCHANGED <<config, node, file, store, history>>

StartWallet ==
  /\ task[Start].at = "wallet"
  /\ task' = [task EXCEPT ![Start].at = "stat", ![Start].url = OrDefault(config)]
  /\ UNCHANGED <<config, node, file, store, history>>

StartNodes ==
  /\ task[Start].at = "nodes"
  /\ node' = task[Start].url
  /\ End(Start)
  /\ UNCHANGED <<config, file, store, history>>

\* The process dies and starts again; a file it was writing may be in pieces.
Restart ==
  /\ starts < MaxStarts
  /\ starts' = starts + 1
  /\ config' \in {config} \cup {Damaged : c \in {d \in Commands : task[d].at = "config"}}
  /\ task' = [t \in Tasks |-> IF t = Start THEN [Idle EXCEPT !.at = "load"] ELSE Idle]
  /\ node' = NoUrl
  /\ strained' = FALSE
  /\ IF file.is = Damaged
     THEN lost' = (lost \/ file.mtime # 0) /\ UNCHANGED wanted
     ELSE wanted' = file.is.own /\ UNCHANGED lost
  /\ UNCHANGED <<file, store, calls, edits>>

--------------------------------------------------------------------------------
StoreStep(t) == Stat(t) \/ Read(t) \/ Install(t) \/ Mark(t) \/ Use(t) \/ Put(t) \/ Snapshot(t)
                \/ Write(t) \/ Fill(t) \/ Saved(t)
Run(t) == StoreStep(t) \/ SaveConfig(t) \/ SetNode(t)
StartStep == Load \/ LoadTime \/ StartWallet \/ StoreStep(Start) \/ StartNodes

Next ==
  \/ \E c \in Commands, url \in Urls : SetSettings(c, url)
  \/ \E c \in Commands, own \in Owns : SetProverSettings(c, own)
  \/ \E t \in Commands \cup {Reader} : Run(t)
  \/ Ask
  \/ \E own \in Owns : Edit(own)
  \/ StartStep \/ Restart

\* What has begun goes on, and someone asks the store again and again.
Fairness == (\A t \in Commands \cup {Reader} : WF_vars(Run(t))) /\ WF_vars(StartStep) /\ WF_vars(Ask)

Spec == Init /\ [][Next]_vars /\ Fairness

--------------------------------------------------------------------------------
(* Properties *)

\* What the store answers when it is asked next and nothing else happens.
Answer == IF file.is # Damaged /\ file.mtime # known THEN file.is ELSE mem

\* The service's node and the prover's are the one of config.json when nothing is under way: also after a crash between
\* the two files, which the next start repairs. Until the next start, what Strain names stands in the way, and nothing
\* else: a reload overtaken by a save, too, can leave the prover on another node, though sync_prover_rpc has returned
\* (lib.rs, sync_prover_rpc; prover/settings.rs, reload_if_changed against update).
SameNode == Rest /\ ~strained => node = OrDefault(config) /\ Answer.rpc = node

\* The prover's own fields are what the user has last made of them: no mirror of a URL puts back older ones, at no
\* start and after no edit by hand that could be seen. What Strain names may lose an update for good, and so may a
\* crash in the middle of a write (lib.rs, sync_prover_rpc; prover/settings.rs, update).
OwnFieldsKept == Rest /\ ~lost => Answer.own = wanted

\* At rest the store answers what the file says, while nothing that Strain names has happened: also when a read was
\* overtaken by a save that wrote the same, and when the two writes of a save carry the same time
\* (prover/settings.rs, reload_if_changed and save).
StoreTellsFile == Rest /\ ~strained => Answer = file.is

\* An edit of the file takes effect without a restart: the store comes to have what the file says, unless something
\* that Strain names has happened (prover/settings.rs, reload_if_changed).
EditTakesEffect == (~strained /\ file.is # mem) ~> (file.is = mem \/ strained)

\* Types, and wallet, prover, store and file agree on the node and on the rest (sync_prover_rpc, SettingsStore).
Agreement == TypeOK /\ SameNode /\ StoreTellsFile
================================================================================
