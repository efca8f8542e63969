------------------------------ MODULE AccountVault ------------------------------
(***************************************************************************)
(* The unlocked session, the account registry and the vault file:          *)
(* WalletSession (wallet-rpc/src/session.rs), Registry                     *)
(* (wallet-core/src/accounts.rs), VaultStore (wallet-rpc/src/store.rs),    *)
(* the createAgentAccount handler (wallet-rpc/src/dispatch.rs) and the     *)
(* desktop's onboarding, unlock, lock, add-account and archive commands    *)
(* (desktop/src-tauri/src/lib.rs).                                         *)
(*                                                                         *)
(* The session mutex makes each critical section one step; what a command  *)
(* does before it has the mutex is a step of its own.                      *)
(***************************************************************************)
EXTENDS Naturals

CONSTANTS Clients,              \* paired agent clients
          User,                 \* owner of the accounts added in the app
          Seeds,                \* recovery phrases
          NoSeed,
          UnlockCalls,          \* unlock commands that can be in flight
          OneCommand,           \* TRUE: the UI issues a command only when the
                                \* screen is current and no command is in flight
          MaxIndex              \* bound on the derivation index

ASSUME ConstantsAssumption ==
  /\ User \notin Clients
  /\ NoSeed \notin Seeds
  /\ OneCommand \in BOOLEAN
  /\ MaxIndex \in Nat

VARIABLES
  unlocked, mseed, mreg,        \* the session: seed and registry in memory
  vault, dseed, dreg,           \* vault.bin: none, refused (old version) or ok
  archives,                     \* seeds of the vault files moved aside
  staged,                       \* the mnemonic staged by generate / import
  fin, finSeed,                 \* finalize_setup in flight, and what it took
  call, snap,                   \* each unlock in flight, and the vault it read
  screen,                       \* what the UI shows, from the last status poll
  issued,                       \* history: accounts returned to a caller
  sealed                        \* history: seeds ever written to vault.bin

session == <<unlocked, mseed, mreg>>
disk == <<vault, dseed, dreg, archives>>
onboarding == <<staged, fin, finSeed>>
unlocking == <<call, snap>>
history == <<issued, sealed>>
vaultVars == <<unlocked, mseed, mreg, vault, dseed, dreg, archives, staged, fin, finSeed,
          call, snap, screen, issued, sealed>>

Domains == {"user", "agent"}
Accounts == [seed : Seeds, domain : Domains, index : 0..MaxIndex, owner : Clients \cup {User}]
Address(a) == <<a.seed, a.domain, a.index>>

Indices(reg, d) == {a.index : a \in {b \in reg : b.domain = d}}

\* Mutant: the first index of a domain is 1.
NextIndexFromOne(reg, d) ==
  CHOOSE n \in 1..(MaxIndex + 1) :
    /\ \A i \in Indices(reg, d) : i < n
    /\ n = 1 \/ n - 1 \in Indices(reg, d)

\* Registry::next_index: one more than the largest index of the domain, or 0.
NextIndex(reg, d) ==
  CHOOSE n \in 0..(MaxIndex + 1) :
    /\ \A i \in Indices(reg, d) : i < n
    /\ n = 0 \/ n - 1 \in Indices(reg, d)

VaultFile == [vault : {"none", "refused", "ok"}, seed : Seeds \cup {NoSeed}, reg : SUBSET Accounts]
NoFile == [vault |-> "none", seed |-> NoSeed, reg |-> {}]

VaultTypeOK ==
  /\ unlocked \in BOOLEAN /\ mseed \in Seeds \cup {NoSeed} /\ mreg \subseteq Accounts
  /\ vault \in {"none", "refused", "ok"} /\ dseed \in Seeds \cup {NoSeed} /\ dreg \subseteq Accounts
  /\ archives \subseteq Seeds
  /\ staged \in Seeds \cup {NoSeed}
  /\ fin \in {"idle", "taken", "saved"} /\ finSeed \in Seeds \cup {NoSeed}
  /\ call \in [UnlockCalls -> {"idle", "loaded"}]
  /\ snap \in [UnlockCalls -> VaultFile]
  /\ screen \in {"unsupported", "onboarding", "unlock", "main"}
  /\ issued \subseteq Accounts
  /\ sealed \subseteq Seeds

--------------------------------------------------------------------------------
(* The UI: App.tsx routes on the last polled status. *)

ScreenNow == CASE vault = "refused" -> "unsupported"
               [] vault = "none" -> "onboarding"
               [] vault = "ok" /\ ~unlocked -> "unlock"
               [] OTHER -> "main"

InFlight == fin # "idle" \/ \E u \in UnlockCalls : call[u] # "idle"

Offered(s) == screen = s /\ (OneCommand => ScreenNow = s /\ ~InFlight)

VaultInit ==
  /\ unlocked = FALSE /\ mseed = NoSeed /\ mreg = {}
  /\ \/ vault = "none" /\ dseed = NoSeed
     \/ vault = "refused" /\ dseed \in Seeds
  /\ dreg = {} /\ archives = {}
  /\ staged = NoSeed /\ fin = "idle" /\ finSeed = NoSeed
  /\ call = [u \in UnlockCalls |-> "idle"]
  /\ snap = [u \in UnlockCalls |-> NoFile]
  /\ screen = ScreenNow
  /\ issued = {} /\ sealed = {dseed} \ {NoSeed}

RefreshStatus ==
  /\ screen' = ScreenNow
  /\ UNCHANGED session /\ UNCHANGED disk /\ UNCHANGED onboarding
  /\ UNCHANGED unlocking /\ UNCHANGED history

--------------------------------------------------------------------------------
(* Onboarding: generate / import, then finalize_setup. *)

Stage(seed) ==
  /\ Offered("onboarding")
  /\ staged' = seed
  /\ UNCHANGED session /\ UNCHANGED disk /\ UNCHANGED <<fin, finSeed, screen>>
  /\ UNCHANGED unlocking /\ UNCHANGED history

\* The staged mnemonic is taken first; nothing puts it back on an error.
FinalizeTake ==
  /\ Offered("onboarding") /\ fin = "idle" /\ staged # NoSeed
  /\ fin' = "taken" /\ finSeed' = staged /\ staged' = NoSeed
  /\ UNCHANGED session /\ UNCHANGED disk /\ UNCHANGED <<unlocking, screen>> /\ UNCHANGED history

\* Seal an empty registry and save it, without the session mutex and whatever
\* the file was before; or the save fails and the command with it.
FinalizeSave ==
  /\ fin = "taken"
  /\ \/ /\ fin' = "saved"
        /\ vault' = "ok" /\ dseed' = finSeed /\ dreg' = {}
        /\ sealed' = sealed \cup {finSeed}
        /\ UNCHANGED finSeed
     \/ /\ fin' = "idle" /\ finSeed' = NoSeed
        /\ UNCHANGED <<vault, dseed, dreg, sealed>>
  /\ UNCHANGED session /\ UNCHANGED <<archives, staged, screen, issued>> /\ UNCHANGED unlocking

FinalizeInstall ==
  /\ fin = "saved"
  /\ unlocked' = TRUE /\ mseed' = finSeed /\ mreg' = {}
  /\ fin' = "idle" /\ finSeed' = NoSeed
  /\ UNCHANGED disk /\ UNCHANGED <<staged, screen>> /\ UNCHANGED unlocking /\ UNCHANGED history

--------------------------------------------------------------------------------
(* Unlock and lock. *)

\* VaultStore::load, before the session mutex is taken.
UnlockLoad(u) ==
  /\ Offered("unlock") /\ call[u] = "idle" /\ vault # "none"
  /\ call' = [call EXCEPT ![u] = "loaded"]
  /\ snap' = [snap EXCEPT ![u] = [vault |-> vault, seed |-> dseed, reg |-> dreg]]
  /\ UNCHANGED session /\ UNCHANGED disk /\ UNCHANGED onboarding /\ UNCHANGED <<screen, history>>

\* With the mutex: WalletSession::unlock replaces the whole unlocked state by
\* what was read; a wrong passphrase or a refused version changes nothing.
UnlockOpen(u) ==
  /\ call[u] = "loaded"
  /\ \/ /\ snap[u].vault = "ok"
        /\ unlocked' = TRUE /\ mseed' = snap[u].seed /\ mreg' = snap[u].reg
     \/ UNCHANGED session
  /\ call' = [call EXCEPT ![u] = "idle"]
  /\ snap' = [snap EXCEPT ![u] = NoFile]
  /\ UNCHANGED disk /\ UNCHANGED onboarding /\ UNCHANGED <<screen, history>>

Forget == unlocked' = FALSE /\ mseed' = NoSeed /\ mreg' = {}

\* The lock command or the auto-lock task.
Lock ==
  /\ unlocked
  /\ Forget
  /\ UNCHANGED disk /\ UNCHANGED onboarding /\ UNCHANGED unlocking /\ UNCHANGED <<screen, history>>

\* The process dies with everything in memory; the app starts again.
Die ==
  /\ Forget
  /\ staged' = NoSeed /\ fin' = "idle" /\ finSeed' = NoSeed
  /\ call' = [u \in UnlockCalls |-> "idle"]
  /\ snap' = [u \in UnlockCalls |-> NoFile]

Crash ==
  /\ UNCHANGED disk /\ UNCHANGED history
  /\ Die
  /\ screen' = ScreenNow'

--------------------------------------------------------------------------------
(* Accounts: under the session mutex, derive the next account, add it, reseal  *)
(* and save; roll the add back when that fails.                                *)

\* Mutant: the index is incremented once more.
NewAccountSkips(d, owner) ==
  [seed |-> mseed, domain |-> d, index |-> NextIndex(mreg, d) + 1, owner |-> owner]

NewAccount(d, owner) ==
  [seed |-> mseed, domain |-> d, index |-> NextIndex(mreg, d), owner |-> owner]

\* Mutant: the vault as it was loaded is saved again.
WriteVaultStale(reg) == vault' = "ok" /\ dseed' = mseed /\ dreg' = dreg

WriteVault(reg) == vault' = "ok" /\ dseed' = mseed /\ dreg' = reg

\* Mutant: nothing is rolled back.
RollbackNothing(reg, a) == reg

\* Mutant: removes by label, which is the owner's.
RollbackByLabel(reg, a) == {b \in reg : b.owner # a.owner}

\* Registry::remove_by_address
Rollback(reg, a) == {b \in reg : Address(b) # Address(a)}

CreateAccount(d, owner) ==
  /\ unlocked
  /\ NextIndex(mreg, d) <= MaxIndex                     \* bound
  /\ LET a   == NewAccount(d, owner)
         reg == mreg \cup {a}
     IN \/ /\ WriteVault(reg)                           \* saved and answered
           /\ mreg' = reg
           /\ issued' = issued \cup {a}
           /\ UNCHANGED <<unlocked, mseed, onboarding, unlocking, screen>>
        \/ /\ mreg' = Rollback(reg, a)                  \* reseal or save failed
           /\ UNCHANGED <<unlocked, mseed, vault, dseed, dreg, issued>>
           /\ UNCHANGED <<onboarding, unlocking, screen>>
        \/ /\ WriteVault(reg)                           \* died after the rename
           /\ Die
           /\ screen' = ScreenNow'
           /\ UNCHANGED issued
  /\ UNCHANGED <<archives, sealed>>

\* companion_createAgentAccount, after its approval.
CreateAgentAccount(c) == CreateAccount("agent", c)

AddUserAccount == Offered("main") /\ CreateAccount("user", User)

\* Mutant: the refused vault is deleted.
DeleteUnsupportedVault ==
  /\ Offered("unsupported") /\ vault = "refused"
  /\ vault' = "none" /\ dseed' = NoSeed /\ dreg' = {} /\ UNCHANGED archives
  /\ UNCHANGED session /\ UNCHANGED onboarding /\ UNCHANGED unlocking /\ UNCHANGED <<screen, history>>

\* archive_unsupported_vault: a rename, refused for a vault this build opens.
ArchiveUnsupportedVault ==
  /\ Offered("unsupported") /\ vault = "refused"
  /\ archives' = archives \cup {dseed}
  /\ vault' = "none" /\ dseed' = NoSeed /\ dreg' = {}
  /\ UNCHANGED session /\ UNCHANGED onboarding /\ UNCHANGED unlocking /\ UNCHANGED <<screen, history>>

--------------------------------------------------------------------------------
VaultNext ==
  \/ RefreshStatus
  \/ \E seed \in Seeds : Stage(seed)
  \/ FinalizeTake \/ FinalizeSave \/ FinalizeInstall
  \/ \E u \in UnlockCalls : UnlockLoad(u) \/ UnlockOpen(u)
  \/ Lock \/ Crash
  \/ \E c \in Clients : CreateAgentAccount(c)
  \/ AddUserAccount
  \/ ArchiveUnsupportedVault

VaultSpec == VaultInit /\ [][VaultNext]_vaultVars
--------------------------------------------------------------------------------
(* Properties *)

\* While the wallet is unlocked, the registry in memory is the one a restart
\* would load: an add that could not be persisted was undone (dispatch.rs
\* handle_create_agent_account), and no unlock brought back an older one.
MemoryMatchesDisk == unlocked => vault = "ok" /\ dseed = mseed /\ dreg = mreg

\* An account a caller was told of is in the vault file from then on: locking,
\* crashes, failed saves and later accounts do not lose it.
AcknowledgedIsDurable == issued \subseteq dreg

\* No address is ever handed to two owners (accounts.rs next_index), whatever
\* crashed, rolled back or locked in between.
OneOwnerPerAddress == \A a, b \in issued : Address(a) = Address(b) => a.owner = b.owner

\* The indices of each domain in the vault file have no gap and no repetition:
\* a rolled-back index is used again, a saved one never (accounts.rs next_index
\* with remove_by_address).
IndicesDense ==
  /\ \A d \in Domains : \A i \in Indices(dreg, d) : \A j \in 0..i : j \in Indices(dreg, d)
  /\ \A a, b \in dreg : Address(a) = Address(b) => a = b

\* A recovery phrase that was once sealed to disk is still on disk, in the
\* vault or in a file moved aside (archive_unsupported_vault renames, never
\* deletes; finalize_setup writes over whatever is there).
SeedNeverLost == \A s \in sealed : s \in archives \/ (vault # "none" /\ dseed = s)

\* The session and the vault file together keep the account ledger's promise.
Ledger == INSTANCE AccountLedger WITH durable <- dreg
KeepsLedger == Ledger!Spec
================================================================================
