-------------------------- MODULE VaultAndBrokerProofs --------------------------
(***************************************************************************)
(* Theorems about the two parts every account and every consent goes       *)
(* through: AccountVault, for any number of clients, seeds, unlock calls   *)
(* and accounts, and ApprovalBroker, for any number of calls and any       *)
(* capacity of the channel.  They share no state.                          *)
(***************************************************************************)
EXTENDS AccountVault, ApprovalBroker, FiniteSetTheorems, TLAPS

--------------------------------------------------------------------------------
(* AccountVault.                                                                *)

\* The indices of a registry run from 0 without a gap, in each domain.
Segment(reg) == \A d \in Domains : \E n \in 0..(MaxIndex + 1) : Indices(reg, d) = 0..(n - 1)

Segments == Segment(mreg) /\ Segment(dreg) /\ \A u \in UnlockCalls : Segment(snap[u].reg)

--------------------------------------------------------------------------------
(* The registry's operators. *)

\* An empty registry, the one finalize_setup seals, is a segment.
LEMMA EmptySegment == Segment({})
BY ConstantsAssumption DEF Segment, Indices, Domains

\* next_index of a segment is the first free index.
LEMMA NextIndexOfSegment ==
  ASSUME NEW reg, Segment(reg), NEW d \in Domains
  PROVE  /\ NextIndex(reg, d) \in 0..(MaxIndex + 1)
         /\ Indices(reg, d) = 0..(NextIndex(reg, d) - 1)
<1>1. PICK n \in 0..(MaxIndex + 1) : Indices(reg, d) = 0..(n - 1)
  BY DEF Segment
<1>2. \A m \in 0..(MaxIndex + 1) :
        (/\ \A i \in Indices(reg, d) : i < m
         /\ m = 0 \/ m - 1 \in Indices(reg, d)) <=> m = n
  BY <1>1, ConstantsAssumption
<1>3. NextIndex(reg, d) = n
  BY <1>1, <1>2 DEF NextIndex
<1> QED BY <1>1, <1>3

\* An account added at next_index keeps the registry a segment, has an address
\* no other account has, and remove_by_address takes out nothing else.
LEMMA AddAtNextIndex ==
  ASSUME NEW reg \in SUBSET Accounts, Segment(reg),
         NEW a \in Accounts, a.index = NextIndex(reg, a.domain)
  PROVE  /\ Segment(reg \cup {a})
         /\ \A b \in reg : Address(b) # Address(a)
         /\ Rollback(reg \cup {a}, a) = reg
<1>1. a.domain \in Domains /\ a.index \in 0..MaxIndex
  BY DEF Accounts
<1>2. Indices(reg, a.domain) = 0..(a.index - 1)
  BY <1>1, NextIndexOfSegment
<1>3. \A b \in reg : Address(b) # Address(a)
  <2>1. ASSUME NEW b \in reg, Address(b) = Address(a) PROVE FALSE
    <3>1. b.domain = a.domain /\ b.index = a.index
      BY <2>1 DEF Address
    <3>2. a.index \in Indices(reg, a.domain)
      BY <3>1 DEF Indices
    <3> QED BY <3>2, <1>1, <1>2, ConstantsAssumption
  <2> QED BY <2>1
<1>4. Rollback(reg \cup {a}, a) = reg
  BY <1>3 DEF Rollback
<1>5. Segment(reg \cup {a})
  <2> SUFFICES ASSUME NEW d \in Domains
               PROVE  \E n \in 0..(MaxIndex + 1) : Indices(reg \cup {a}, d) = 0..(n - 1)
    BY DEF Segment
  <2>1. CASE d = a.domain
    <3>1. Indices(reg \cup {a}, d) = Indices(reg, d) \cup {a.index}
      BY <2>1 DEF Indices
    <3>2. Indices(reg \cup {a}, d) = (0..(a.index - 1)) \cup {a.index}
      BY <3>1, <2>1, <1>2
    <3>3. \A k \in Nat : (0..(k - 1)) \cup {k} = 0..((k + 1) - 1)
      OBVIOUS
    <3>4. a.index \in Nat /\ a.index + 1 \in 0..(MaxIndex + 1)
      BY <1>1, ConstantsAssumption
    <3>5. (0..(a.index - 1)) \cup {a.index} = 0..((a.index + 1) - 1)
      BY <3>3, <3>4
    <3>6. Indices(reg \cup {a}, d) = 0..((a.index + 1) - 1)
      BY <3>2, <3>5, Zenon
    <3> QED BY <3>4, <3>6
  <2>2. CASE d # a.domain
    <3>1. Indices(reg \cup {a}, d) = Indices(reg, d)
      BY <2>2 DEF Indices
    <3> QED BY <3>1 DEF Segment
  <2> QED BY <2>1, <2>2
<1> QED BY <1>3, <1>4, <1>5

--------------------------------------------------------------------------------
(* Types. *)

\* Where there is a vault, a session or an onboarding in flight there is a seed.
RealSeeds ==
  /\ unlocked => mseed \in Seeds
  /\ vault # "none" => dseed \in Seeds
  /\ \A u \in UnlockCalls : snap[u].vault # "none" => snap[u].seed \in Seeds
  /\ fin # "idle" => finSeed \in Seeds

VaultTyped == VaultTypeOK /\ Segments /\ RealSeeds

\* What an account creation gives the registry.
LEMMA NewAccountFits ==
  ASSUME VaultTyped, unlocked, NEW d \in Domains, NEW owner \in Clients \cup {User},
         NextIndex(mreg, d) <= MaxIndex
  PROVE  /\ NewAccount(d, owner) \in Accounts
         /\ Segment(mreg \cup {NewAccount(d, owner)})
         /\ \A b \in mreg : Address(b) # Address(NewAccount(d, owner))
         /\ Rollback(mreg \cup {NewAccount(d, owner)}, NewAccount(d, owner)) = mreg
<1> DEFINE a == NewAccount(d, owner)
<1>1. NextIndex(mreg, d) \in 0..MaxIndex
  BY NextIndexOfSegment, ConstantsAssumption DEF VaultTyped, Segments
<1>2. a \in Accounts
  BY <1>1 DEF NewAccount, Accounts, VaultTyped, RealSeeds
<1>3. mreg \in SUBSET Accounts /\ Segment(mreg) /\ a.index = NextIndex(mreg, a.domain)
  BY DEF VaultTyped, VaultTypeOK, Segments, NewAccount
<1> HIDE DEF a
<1>4. Segment(mreg \cup {a}) /\ (\A b \in mreg : Address(b) # Address(a)) /\ Rollback(mreg \cup {a}, a) = mreg
  BY <1>2, <1>3, AddAtNextIndex
<1> QED BY <1>2, <1>4 DEF a

\* The process dies: nothing is left in memory.
LEMMA DieTyped ==
  ASSUME VaultTyped, Die
  PROVE  /\ unlocked' = FALSE /\ mseed' = NoSeed /\ mreg' = {} /\ Segment(mreg')
         /\ staged' = NoSeed /\ fin' = "idle" /\ finSeed' = NoSeed
         /\ call' \in [UnlockCalls -> {"idle", "loaded"}]
         /\ snap' \in [UnlockCalls -> VaultFile]
         /\ \A u \in UnlockCalls : snap'[u] = NoFile /\ call'[u] = "idle" /\ Segment(snap'[u].reg)
<1>1. NoFile \in VaultFile /\ NoFile.reg = {}
  BY DEF NoFile, VaultFile
<1> QED BY <1>1, EmptySegment DEF Die, Forget

\* What the screen can show after any step.
LEMMA ScreenTyped ==
  ASSUME TRUE
  PROVE  ScreenNow \in {"unsupported", "onboarding", "unlock", "main"}
BY DEF ScreenNow

LEMMA TypedInit == VaultInit => VaultTyped
<1> SUFFICES ASSUME VaultInit PROVE VaultTyped
  OBVIOUS
<1>1. NoFile \in VaultFile /\ NoFile.reg = {} /\ NoFile.vault = "none"
  BY DEF NoFile, VaultFile
<1>2. VaultTypeOK
  BY <1>1, ScreenTyped DEF VaultInit, VaultTypeOK
<1>3. Segments /\ RealSeeds
  BY <1>1, EmptySegment DEF VaultInit, Segments, RealSeeds
<1> QED BY <1>2, <1>3 DEF VaultTyped

\* The account actions, of either domain.
LEMMA CreateTyped ==
  ASSUME VaultTyped, NEW d \in Domains, NEW owner \in Clients \cup {User}, CreateAccount(d, owner)
  PROVE  VaultTyped'
<1> DEFINE a == NewAccount(d, owner)
           reg == mreg \cup {a}
<1>1. /\ a \in Accounts /\ Segment(reg) /\ Rollback(reg, a) = mreg
      /\ unlocked /\ mseed \in Seeds /\ reg \subseteq Accounts
  BY NewAccountFits DEF CreateAccount, VaultTyped, RealSeeds, VaultTypeOK
<1>2. /\ archives' = archives /\ sealed' = sealed
      /\ \/ /\ WriteVault(reg) /\ mreg' = reg /\ issued' = issued \cup {a}
            /\ UNCHANGED <<unlocked, mseed, onboarding, unlocking, screen>>
         \/ /\ mreg' = mreg
            /\ UNCHANGED <<unlocked, mseed, vault, dseed, dreg, issued, onboarding, unlocking, screen>>
         \/ WriteVault(reg) /\ Die /\ screen' = ScreenNow' /\ UNCHANGED issued
  BY <1>1 DEF CreateAccount
<1> HIDE DEF a, reg
<1>3. CASE /\ WriteVault(reg) /\ mreg' = reg /\ issued' = issued \cup {a}
           /\ UNCHANGED <<unlocked, mseed, onboarding, unlocking, screen>>
  BY <1>1, <1>2, <1>3 DEF VaultTyped, VaultTypeOK, Segments, Segment, Indices, RealSeeds, WriteVault, onboarding, unlocking
<1>4. CASE /\ mreg' = mreg
           /\ UNCHANGED <<unlocked, mseed, vault, dseed, dreg, issued, onboarding, unlocking, screen>>
  BY <1>1, <1>2, <1>4 DEF VaultTyped, VaultTypeOK, Segments, Segment, Indices, RealSeeds, onboarding, unlocking
<1>5. CASE WriteVault(reg) /\ Die /\ screen' = ScreenNow' /\ UNCHANGED issued
  <2>1. VaultTypeOK'
    BY <1>1, <1>2, <1>5, DieTyped DEF VaultTyped, VaultTypeOK, WriteVault, ScreenNow
  <2>2. Segments'
    BY <1>1, <1>5, DieTyped DEF Segments, WriteVault, Segment, Indices
  <2>3. RealSeeds'
    BY <1>1, <1>5, DieTyped DEF RealSeeds, WriteVault, NoFile
  <2> QED BY <2>1, <2>2, <2>3 DEF VaultTyped
<1> QED BY <1>2, <1>3, <1>4, <1>5

\* Types, gapless registries and real seeds are kept by every step.
LEMMA TypedStep == VaultTyped /\ [VaultNext]_vaultVars => VaultTyped'
<1> SUFFICES ASSUME VaultTyped, [VaultNext]_vaultVars PROVE VaultTyped'
  OBVIOUS
<1> USE DEF VaultTyped, VaultTypeOK, Segments, RealSeeds, Segment, Indices
<1> USE DEF session, disk, onboarding, unlocking, history
<1>0. NoFile \in VaultFile /\ NoFile.reg = {} /\ NoFile.vault = "none" /\ Segment({})
  BY EmptySegment DEF NoFile, VaultFile
<1>1. CASE RefreshStatus
  BY <1>1, ScreenTyped DEF RefreshStatus
<1>2. ASSUME NEW seed \in Seeds, Stage(seed) PROVE VaultTyped'
  BY <1>2 DEF Stage
<1>3. CASE FinalizeTake
  BY <1>3 DEF FinalizeTake
<1>4. CASE FinalizeSave
  <2>1. CASE fin' = "saved"
    BY <1>0, <1>4, <2>1 DEF FinalizeSave
  <2>2. CASE fin' = "idle"
    BY <1>0, <1>4, <2>2 DEF FinalizeSave
  <2> QED BY <1>4, <2>1, <2>2 DEF FinalizeSave
<1>5. CASE FinalizeInstall
  BY <1>0, <1>5 DEF FinalizeInstall
<1>6. ASSUME NEW u \in UnlockCalls, UnlockLoad(u) PROVE VaultTyped'
  BY <1>6 DEF UnlockLoad, VaultFile
<1>7. ASSUME NEW u \in UnlockCalls, UnlockOpen(u) PROVE VaultTyped'
  <2>1. /\ snap' \in [UnlockCalls -> VaultFile] /\ call' \in [UnlockCalls -> {"idle", "loaded"}]
        /\ \A v \in UnlockCalls : snap'[v] = snap[v] \/ snap'[v] = NoFile
    BY <1>0, <1>7 DEF UnlockOpen
  <2>2. /\ snap[u].reg \subseteq Accounts /\ Segment(snap[u].reg)
        /\ snap[u].vault = "ok" => snap[u].seed \in Seeds
    BY DEF VaultFile
  <2>3. /\ unlocked' \in BOOLEAN /\ mreg' \subseteq Accounts /\ Segment(mreg')
        /\ mseed' \in Seeds \cup {NoSeed} /\ (unlocked' => mseed' \in Seeds)
    <3>1. CASE snap[u].vault = "ok" /\ unlocked' = TRUE /\ mseed' = snap[u].seed /\ mreg' = snap[u].reg
      BY <2>2, <3>1
    <3>2. CASE UNCHANGED session
      BY <3>2
    <3> QED BY <3>1, <3>2, <1>7 DEF UnlockOpen
  <2>4. \A v \in UnlockCalls : Segment(snap'[v].reg) /\ (snap'[v].vault # "none" => snap'[v].seed \in Seeds)
    BY <1>0, <2>1
  <2> QED BY <2>1, <2>3, <2>4, <1>7 DEF UnlockOpen
<1>8. CASE Lock
  BY <1>0, <1>8 DEF Lock, Forget
<1>9. CASE Crash
  BY <1>0, <1>9, DieTyped DEF Crash, ScreenNow
<1>10. ASSUME NEW c \in Clients, CreateAgentAccount(c) PROVE VaultTyped'
  BY <1>10, CreateTyped DEF CreateAgentAccount, Domains
<1>11. CASE AddUserAccount
  BY <1>11, CreateTyped DEF AddUserAccount, Domains
<1>12. CASE ArchiveUnsupportedVault
  BY <1>0, <1>12 DEF ArchiveUnsupportedVault
<1>13. CASE UNCHANGED vaultVars
  BY <1>13 DEF vaultVars
<1> QED BY <1>1, <1>2, <1>3, <1>4, <1>5, <1>6, <1>7, <1>8, <1>9, <1>10, <1>11, <1>12, <1>13 DEF VaultNext

\* The type invariant of the specification.
THEOREM TypeCorrect == VaultSpec => []VaultTypeOK
<1>1. VaultTyped => VaultTypeOK
  BY DEF VaultTyped
<1> QED BY TypedInit, TypedStep, <1>1, PTL DEF VaultSpec

--------------------------------------------------------------------------------
(* Safety, when the UI issues one command at a time. *)

DiskFile == [vault |-> vault, seed |-> dseed, reg |-> dreg]

UniqueAddresses == \A a, b \in dreg : Address(a) = Address(b) => a = b

\* While a command is in flight the session is locked and the command is alone;
\* an unlock holds what the vault file still is; a finalize_setup has found no
\* vault file, or has just written an empty one. This is what rules out the
\* stale read before the session mutex.
Alone ==
  /\ InFlight => ~unlocked
  /\ \A u \in UnlockCalls : call[u] = "loaded" => fin = "idle" /\ snap[u] = DiskFile
  /\ \A u, v \in UnlockCalls : call[u] = "loaded" /\ call[v] = "loaded" => u = v
  /\ fin = "taken" => vault = "none"
  /\ fin = "saved" => vault = "ok" /\ dseed = finSeed /\ dreg = {}

\* A file that this build does not open has no accounts in it.
NoVaultNoAccounts == vault # "ok" => dreg = {}

Safe == Alone /\ NoVaultNoAccounts /\ UniqueAddresses
        /\ MemoryMatchesDisk /\ AcknowledgedIsDurable /\ SeedNeverLost

LEMMA SafeInit == VaultInit => Safe
<1> SUFFICES ASSUME VaultInit PROVE Safe
  OBVIOUS
<1>1. Alone
  BY DEF VaultInit, Alone, InFlight
<1> QED
  BY <1>1 DEF VaultInit, Safe, NoVaultNoAccounts, UniqueAddresses, MemoryMatchesDisk,
              AcknowledgedIsDurable, SeedNeverLost

\* Creating an account, of either domain: what it does to the session and the
\* file when memory and file agree.
LEMMA CreateSafe ==
  ASSUME VaultTyped, Safe, NEW d \in Domains, NEW owner \in Clients \cup {User}, CreateAccount(d, owner)
  PROVE  Safe'
<1> DEFINE a == NewAccount(d, owner)
           reg == mreg \cup {a}
<1>1. /\ unlocked /\ ~InFlight /\ vault = "ok" /\ dseed = mseed /\ dreg = mreg
      /\ \A b \in mreg : Address(b) # Address(a)
      /\ Rollback(reg, a) = mreg
  BY NewAccountFits DEF CreateAccount, Safe, Alone, MemoryMatchesDisk
<1>2. /\ archives' = archives /\ sealed' = sealed
      /\ \/ /\ WriteVault(reg) /\ mreg' = reg /\ issued' = issued \cup {a}
            /\ UNCHANGED <<unlocked, mseed, onboarding, unlocking, screen>>
         \/ /\ mreg' = mreg
            /\ UNCHANGED <<unlocked, mseed, vault, dseed, dreg, issued, onboarding, unlocking, screen>>
         \/ WriteVault(reg) /\ Die /\ screen' = ScreenNow' /\ UNCHANGED issued
  BY <1>1 DEF CreateAccount
<1>3. \A b, c \in reg : Address(b) = Address(c) => b = c
  BY <1>1 DEF Safe, UniqueAddresses
<1>4. fin = "idle" /\ \A u \in UnlockCalls : call[u] = "idle"
  BY <1>1 DEF InFlight
<1> HIDE DEF a, reg
<1>5. CASE /\ WriteVault(reg) /\ mreg' = reg /\ issued' = issued \cup {a}
           /\ UNCHANGED <<unlocked, mseed, onboarding, unlocking, screen>>
  <2>1. a \in reg /\ mreg \subseteq reg
    BY DEF reg
  <2>2. Alone'
    BY <1>4, <1>5 DEF Alone, InFlight, onboarding, unlocking
  <2> QED
    BY <1>1, <1>2, <1>3, <1>5, <2>1, <2>2
    DEF Safe, WriteVault, NoVaultNoAccounts, UniqueAddresses, Address, MemoryMatchesDisk,
        AcknowledgedIsDurable, SeedNeverLost
<1>6. CASE /\ mreg' = mreg
           /\ UNCHANGED <<unlocked, mseed, vault, dseed, dreg, issued, onboarding, unlocking, screen>>
  <2>1. Alone'
    BY <1>4, <1>6 DEF Alone, InFlight, onboarding, unlocking
  <2> QED
    BY <1>1, <1>2, <1>6, <2>1
    DEF Safe, NoVaultNoAccounts, UniqueAddresses, Address, MemoryMatchesDisk,
        AcknowledgedIsDurable, SeedNeverLost
<1>7. CASE WriteVault(reg) /\ Die /\ screen' = ScreenNow' /\ UNCHANGED issued
  <2>1. Alone' /\ ~unlocked'
    BY <1>7, DieTyped DEF Alone, InFlight
  <2>2. mreg \subseteq reg
    BY DEF reg
  <2> QED
    BY <1>1, <1>2, <1>3, <1>7, <2>1, <2>2
    DEF Safe, WriteVault, NoVaultNoAccounts, UniqueAddresses, Address, MemoryMatchesDisk,
        AcknowledgedIsDurable, SeedNeverLost
<1> QED BY <1>2, <1>5, <1>6, <1>7

\* Every step keeps the safety invariant when commands come one at a time.
LEMMA SafeStep == OneCommand /\ VaultTyped /\ Safe /\ [VaultNext]_vaultVars => Safe'
<1> SUFFICES ASSUME OneCommand, VaultTyped, Safe, [VaultNext]_vaultVars PROVE Safe'
  OBVIOUS
<1> USE DEF Safe, NoVaultNoAccounts, UniqueAddresses, Address, MemoryMatchesDisk,
            AcknowledgedIsDurable, SeedNeverLost
<1> USE DEF session, disk, onboarding, unlocking, history
<1>1. CASE RefreshStatus
  BY <1>1 DEF RefreshStatus, Alone, InFlight, DiskFile
<1>2. ASSUME NEW seed \in Seeds, Stage(seed) PROVE Safe'
  BY <1>2 DEF Stage, Alone, InFlight, DiskFile
<1>3. CASE FinalizeTake
  <2>1. ~InFlight /\ vault = "none" /\ ~unlocked
    BY <1>3 DEF FinalizeTake, Offered, ScreenNow
  <2>2. Alone'
    BY <1>3, <2>1 DEF FinalizeTake, Alone, InFlight
  <2> QED BY <1>3, <2>2 DEF FinalizeTake
<1>4. CASE FinalizeSave
  <2>1. vault = "none" /\ dreg = {} /\ ~unlocked /\ \A u \in UnlockCalls : call[u] # "loaded"
    BY <1>4 DEF FinalizeSave, Alone, InFlight
  <2>2. call' = call /\ unlocked' = unlocked /\ issued' = issued
    BY <1>4 DEF FinalizeSave
  <2>3. CASE fin' = "saved" /\ vault' = "ok" /\ dseed' = finSeed /\ dreg' = {}
             /\ sealed' = sealed \cup {finSeed} /\ UNCHANGED finSeed
    <3>1. Alone'
      BY <2>1, <2>2, <2>3 DEF Alone, InFlight
    <3> QED BY <1>4, <2>1, <2>2, <2>3, <3>1 DEF FinalizeSave
  <2>4. CASE fin' = "idle" /\ UNCHANGED <<vault, dseed, dreg, sealed>>
    <3>1. Alone'
      BY <2>1, <2>2, <2>4 DEF Alone, InFlight
    <3> QED BY <1>4, <2>1, <2>2, <2>4, <3>1 DEF FinalizeSave
  <2> QED BY <1>4, <2>3, <2>4 DEF FinalizeSave
<1>5. CASE FinalizeInstall
  <2>1. vault = "ok" /\ dseed = finSeed /\ dreg = {} /\ \A u \in UnlockCalls : call[u] # "loaded"
    BY <1>5 DEF FinalizeInstall, Alone
  <2>2. \A u \in UnlockCalls : call[u] = "idle"
    BY <2>1 DEF VaultTyped, VaultTypeOK
  <2>3. Alone'
    BY <1>5, <2>1, <2>2 DEF FinalizeInstall, Alone, InFlight
  <2> QED BY <1>5, <2>1, <2>3 DEF FinalizeInstall
<1>6. ASSUME NEW u \in UnlockCalls, UnlockLoad(u) PROVE Safe'
  <2>1. ~InFlight /\ vault = "ok" /\ ~unlocked
    BY <1>6 DEF UnlockLoad, Offered, ScreenNow
  <2>2. fin = "idle" /\ \A v \in UnlockCalls : call[v] = "idle"
    BY <2>1 DEF InFlight
  <2>3. call'[u] = "loaded" /\ snap'[u] = DiskFile /\ \A v \in UnlockCalls \ {u} : call'[v] = "idle"
    BY <1>6, <2>2 DEF UnlockLoad, DiskFile, VaultTyped, VaultTypeOK
  <2>4. Alone'
    BY <1>6, <2>1, <2>2, <2>3 DEF UnlockLoad, Alone, InFlight, DiskFile
  <2> QED BY <1>6, <2>4 DEF UnlockLoad
<1>7. ASSUME NEW u \in UnlockCalls, UnlockOpen(u) PROVE Safe'
  <2>1. fin = "idle" /\ snap[u] = DiskFile /\ \A v \in UnlockCalls \ {u} : call[v] = "idle"
    BY <1>7 DEF UnlockOpen, Alone, VaultTyped, VaultTypeOK
  <2>2. fin' = "idle" /\ \A v \in UnlockCalls : call'[v] = "idle"
    BY <1>7, <2>1 DEF UnlockOpen, VaultTyped, VaultTypeOK
  <2>3. Alone'
    BY <2>2 DEF Alone, InFlight
  <2>4. MemoryMatchesDisk'
    <3>1. CASE snap[u].vault = "ok" /\ unlocked' = TRUE /\ mseed' = snap[u].seed /\ mreg' = snap[u].reg
      BY <1>7, <2>1, <3>1 DEF UnlockOpen, DiskFile
    <3>2. CASE UNCHANGED session
      BY <1>7, <3>2 DEF UnlockOpen
    <3> QED BY <3>1, <3>2, <1>7 DEF UnlockOpen
  <2> QED BY <1>7, <2>3, <2>4 DEF UnlockOpen
<1>8. CASE Lock
  BY <1>8 DEF Lock, Forget, Alone, InFlight, DiskFile
<1>9. CASE Crash
  <2>1. Alone' /\ ~unlocked'
    BY <1>9, DieTyped DEF Crash, Alone, InFlight
  <2> QED BY <1>9, <2>1 DEF Crash
<1>10. ASSUME NEW c \in Clients, CreateAgentAccount(c) PROVE Safe'
  BY <1>10, CreateSafe DEF CreateAgentAccount, Domains
<1>11. CASE AddUserAccount
  BY <1>11, CreateSafe DEF AddUserAccount, Domains
<1>12. CASE ArchiveUnsupportedVault
  <2>1. ~InFlight /\ ~unlocked /\ dreg = {}
    BY <1>12 DEF ArchiveUnsupportedVault, Offered
  <2>2. fin = "idle" /\ \A v \in UnlockCalls : call[v] = "idle"
    BY <2>1 DEF InFlight
  <2>3. Alone'
    BY <1>12, <2>2 DEF ArchiveUnsupportedVault, Alone, InFlight
  <2> QED BY <1>12, <2>1, <2>3 DEF ArchiveUnsupportedVault
<1>13. CASE UNCHANGED vaultVars
  BY <1>13 DEF vaultVars, Alone, InFlight, DiskFile
<1> QED BY <1>1, <1>2, <1>3, <1>4, <1>5, <1>6, <1>7, <1>8, <1>9, <1>10, <1>11, <1>12, <1>13 DEF VaultNext

\* The inductive invariant.
LEMMA Invariance == OneCommand /\ VaultSpec => [](VaultTyped /\ Safe)
<1> SUFFICES ASSUME OneCommand PROVE VaultSpec => [](VaultTyped /\ Safe)
  OBVIOUS
<1>1. VaultTyped /\ Safe /\ [VaultNext]_vaultVars => (VaultTyped /\ Safe)'
  BY TypedStep, SafeStep
<1> QED BY TypedInit, SafeInit, <1>1, PTL DEF VaultSpec

\* While it is unlocked, the session's registry is the one on disk.
THEOREM MemoryAlwaysMatchesDisk == OneCommand /\ VaultSpec => []MemoryMatchesDisk
<1>1. Safe => MemoryMatchesDisk
  BY DEF Safe
<1> QED BY Invariance, <1>1, PTL

\* An account whose creation was acknowledged stays on disk.
THEOREM AcknowledgedAlwaysDurable == OneCommand /\ VaultSpec => []AcknowledgedIsDurable
<1>1. Safe => AcknowledgedIsDurable
  BY DEF Safe
<1> QED BY Invariance, <1>1, PTL

\* No address has two owners.
THEOREM AddressesHaveOneOwner == OneCommand /\ VaultSpec => []OneOwnerPerAddress
<1>1. Safe => OneOwnerPerAddress
  BY DEF Safe, AcknowledgedIsDurable, UniqueAddresses, OneOwnerPerAddress
<1> QED BY Invariance, <1>1, PTL

\* The vault file's indices have no gap and no repetition.
THEOREM IndicesAlwaysDense == OneCommand /\ VaultSpec => []IndicesDense
<1>1. VaultTyped /\ Safe => IndicesDense
  <2> SUFFICES ASSUME VaultTyped, Safe PROVE IndicesDense
    OBVIOUS
  <2>1. \A d \in Domains : \A i \in Indices(dreg, d) : \A j \in 0..i : j \in Indices(dreg, d)
    <3> TAKE d \in Domains
    <3>1. PICK n \in 0..(MaxIndex + 1) : Indices(dreg, d) = 0..(n - 1)
      BY DEF VaultTyped, Segments, Segment
    <3> QED BY <3>1, ConstantsAssumption
  <2> QED BY <2>1 DEF IndicesDense, Safe, UniqueAddresses
<1> QED BY Invariance, <1>1, PTL

\* A recovery phrase once sealed stays on disk.
THEOREM SeedsNeverLost == OneCommand /\ VaultSpec => []SeedNeverLost
<1>1. Safe => SeedNeverLost
  BY DEF Safe
<1> QED BY Invariance, <1>1, PTL

--------------------------------------------------------------------------------
(* Refinement: the vault keeps the account ledger. *)

\* Creating an account, as the ledger sees it.
LEMMA CreatePersists ==
  ASSUME VaultTyped, Safe, NEW d \in Domains, NEW owner \in Clients \cup {User}, CreateAccount(d, owner)
  PROVE  [Ledger!Next]_(Ledger!vars)
<1> DEFINE a == NewAccount(d, owner)
           reg == mreg \cup {a}
<1>1. /\ dreg = mreg /\ a \in Accounts
      /\ \A b \in mreg : Address(b) # Address(a)
  BY NewAccountFits DEF CreateAccount, Safe, MemoryMatchesDisk
<1>2. \/ dreg' = dreg \cup {a} /\ issued' \in {issued, issued \cup {a}}
      \/ UNCHANGED <<dreg, issued>>
  BY <1>1 DEF CreateAccount, WriteVault
<1> HIDE DEF a
<1>3. CASE dreg' = dreg \cup {a} /\ issued' \in {issued, issued \cup {a}}
  <2>1. Ledger!Persist(a)
    BY <1>1, <1>3 DEF Ledger!Persist
  <2> QED BY <1>1, <2>1 DEF Ledger!Next
<1> QED BY <1>2, <1>3 DEF Ledger!vars

\* Every step is a step of the ledger, or none.
LEMMA LedgerStep == OneCommand /\ VaultTyped /\ Safe /\ [VaultNext]_vaultVars => [Ledger!Next]_(Ledger!vars)
<1> SUFFICES ASSUME OneCommand, VaultTyped, Safe, [VaultNext]_vaultVars PROVE [Ledger!Next]_(Ledger!vars)
  OBVIOUS
<1>1. ASSUME NEW c \in Clients, CreateAgentAccount(c) PROVE [Ledger!Next]_(Ledger!vars)
  BY <1>1, CreatePersists DEF CreateAgentAccount, Domains
<1>2. CASE AddUserAccount
  BY <1>2, CreatePersists DEF AddUserAccount, Domains
<1>3. CASE FinalizeSave
  <2>1. dreg = {}
    BY <1>3 DEF FinalizeSave, Safe, Alone, NoVaultNoAccounts
  <2> QED BY <1>3, <2>1 DEF FinalizeSave, Ledger!vars
<1>4. CASE ArchiveUnsupportedVault
  BY <1>4 DEF ArchiveUnsupportedVault, Safe, NoVaultNoAccounts, Ledger!vars, history
<1>5. CASE \/ RefreshStatus \/ (\E seed \in Seeds : Stage(seed)) \/ FinalizeTake \/ FinalizeInstall
           \/ (\E u \in UnlockCalls : UnlockLoad(u) \/ UnlockOpen(u)) \/ Lock \/ Crash
           \/ UNCHANGED vaultVars
  BY <1>5 DEF RefreshStatus, Stage, FinalizeTake, FinalizeInstall, UnlockLoad, UnlockOpen, Lock, Crash,
              vaultVars, disk, history, Ledger!vars
<1> QED BY <1>1, <1>2, <1>3, <1>4, <1>5 DEF VaultNext

\* The session and the vault file implement the account ledger.
THEOREM VaultKeepsLedger == OneCommand /\ VaultSpec => KeepsLedger
<1> SUFFICES ASSUME OneCommand PROVE VaultSpec => KeepsLedger
  OBVIOUS
<1>1. VaultInit => Ledger!Init
  BY DEF VaultInit, Ledger!Init
<1>2. VaultTyped /\ Safe /\ [VaultNext]_vaultVars => [Ledger!Next]_(Ledger!vars)
  BY LedgerStep
<1>3. VaultSpec => [](VaultTyped /\ Safe)
  BY Invariance
<1> QED BY <1>1, <1>2, <1>3, PTL DEF VaultSpec, KeepsLedger, Ledger!Spec

--------------------------------------------------------------------------------
(* ApprovalBroker.                                                              *)

\* A turn of the bridge is for one prompt it has numbered.
Typed ==
  /\ handler \in [Requests -> {"idle", "sending", "waiting", "Approve", "Reject", "dropped"}]
  /\ queue \in Seq(Requests) /\ prompts \in Seq(Requests)
  /\ bridge \in BOOLEAN
  /\ oneshot \in [Requests -> {"open", "Approve", "Reject", "closed"}]
  /\ clicked \in [Requests -> {"none", "Approve", "Reject"}]
  /\ pending \subseteq Ids /\ timers \subseteq Ids
  /\ dialogs \subseteq Ids /\ answered \subseteq dialogs
  /\ turn = {} \/ \E id \in Ids : turn = {id}

InQueue(r) == \E i \in 1..Len(queue) : queue[i] = r
Prompted(r) == \E id \in Ids : prompts[id] = r

\* A call is in the channel once, or has one prompt, or neither; and it is in neither before it is sent.
OnePlace ==
  /\ \A i, j \in 1..Len(queue) : queue[i] = queue[j] => i = j
  /\ \A i, j \in Ids : prompts[i] = prompts[j] => i = j
  /\ \A r \in Requests : ~InQueue(r) \/ ~Prompted(r)
  /\ \A r \in Requests : handler[r] \in {"idle", "sending"} => ~InQueue(r) /\ ~Prompted(r)

\* What can still be answered has not been, and no button of it was pressed.
StillOpen ==
  /\ \A r \in Requests : InQueue(r) \/ handler[r] \in {"idle", "sending"} => oneshot[r] = "open"
  /\ \A id \in pending : oneshot[prompts[id]] = "open" /\ clicked[prompts[id]] = "none"
  /\ \A r \in Requests : clicked[r] # "none" => Prompted(r)

\* Approve is in a reply channel, or has been taken from it, by the user's first press only.
Meant == \A r \in Requests : "Approve" \in {oneshot[r], handler[r]} => clicked[r] = "Approve"

BrokerInv == Typed /\ OnePlace /\ StillOpen /\ Meant /\ NobodyForgotten /\ PendingHasTimer

--------------------------------------------------------------------------------
LEMMA InitInv == Init => BrokerInv
BY DEF Init, BrokerInv, Typed, OnePlace, StillOpen, Meant, NobodyForgotten, PendingHasTimer, InQueue, Prompted, Ids

LEMMA AskKeeps == ASSUME BrokerInv, NEW r \in Requests, Ask(r) PROVE BrokerInv'
<1> USE DEF BrokerInv, Ask, uiVars
<1>1. Typed' BY DEF Typed, Ids
<1>2. OnePlace' BY DEF Typed, OnePlace, InQueue, Prompted, Ids
<1>3. StillOpen' BY DEF Typed, StillOpen, InQueue, Prompted, Ids
<1>4. Meant' BY DEF Typed, Meant
<1>5. NobodyForgotten' BY DEF Typed, NobodyForgotten
<1>6. PendingHasTimer' BY DEF PendingHasTimer
<1> QED BY <1>1, <1>2, <1>3, <1>4, <1>5, <1>6

LEMMA SendKeeps == ASSUME BrokerInv, NEW r \in Requests, Send(r) PROVE BrokerInv'
<1> USE DEF BrokerInv, Send, uiVars
<1>0. CASE queue' = Append(queue, r) /\ handler' = [handler EXCEPT ![r] = "waiting"]
  <2>0. /\ Len(queue') = Len(queue) + 1 /\ queue'[Len(queue')] = r
        /\ \A i \in 1..Len(queue) : queue'[i] = queue[i]
        /\ \A c \in Requests : InQueue(c)' <=> InQueue(c) \/ c = r
    BY <1>0 DEF Typed, InQueue
  <2>1. Typed' BY <1>0 DEF Typed, Ids
  <2>2. OnePlace'
    <3>1. (\A i, j \in 1..Len(queue) : queue[i] = queue[j] => i = j)'
      <4>1. \A i \in 1..Len(queue) : queue[i] # r BY DEF OnePlace, InQueue
      <4>2. Len(queue) \in Nat /\ \A i, j \in 1..Len(queue) : queue[i] = queue[j] => i = j
        BY DEF Typed, OnePlace
      <4>3. \A i \in 1..Len(queue') : i \in 1..Len(queue) \/ i = Len(queue') BY <4>2, <2>0
      <4> QED BY <4>1, <4>2, <4>3, <2>0
    <3>2. \A q \in Requests : Prompted(q)' <=> Prompted(q) BY DEF Prompted, Ids
    <3>3. (\A i, j \in Ids : prompts[i] = prompts[j] => i = j)' BY DEF OnePlace, Ids
    <3> QED BY <3>1, <3>2, <3>3, <2>0, <1>0 DEF Typed, OnePlace
  <2>3. StillOpen' BY <2>0 DEF Typed, StillOpen, Prompted, Ids
  <2>4. Meant' BY DEF Typed, Meant
  <2>5. NobodyForgotten' BY <2>0 DEF Typed, NobodyForgotten, InQueue
  <2>6. PendingHasTimer' BY DEF PendingHasTimer
  <2> QED BY <2>1, <2>2, <2>3, <2>4, <2>5, <2>6
<1>9. CASE ~bridge /\ UNCHANGED queue /\ handler' = [handler EXCEPT ![r] = "Reject"]
  <2>1. Typed' BY <1>9 DEF Typed, Ids
  <2>2. OnePlace' BY <1>9 DEF Typed, OnePlace, InQueue, Prompted, Ids
  <2>3. StillOpen' BY <1>9 DEF Typed, StillOpen, InQueue, Prompted, Ids
  <2>4. Meant' BY <1>9 DEF Typed, Meant
  <2>5. NobodyForgotten' BY <1>9 DEF Typed, NobodyForgotten
  <2>6. PendingHasTimer' BY DEF PendingHasTimer
  <2> QED BY <2>1, <2>2, <2>3, <2>4, <2>5, <2>6
<1> QED BY <1>0, <1>9

LEMMA ResumeKeeps == ASSUME BrokerInv, NEW r \in Requests, Resume(r) PROVE BrokerInv'
<1> USE DEF BrokerInv, Resume, uiVars
<1>1. Typed' BY DEF Typed, Ids
<1>2. OnePlace' BY DEF Typed, OnePlace, InQueue, Prompted, Ids
<1>3. StillOpen' BY DEF Typed, StillOpen, InQueue, Prompted, Ids
<1>4. Meant' BY DEF Typed, Meant
<1>5. NobodyForgotten' BY DEF Typed, NobodyForgotten
<1>6. PendingHasTimer' BY DEF PendingHasTimer
<1> QED BY <1>1, <1>2, <1>3, <1>4, <1>5, <1>6

LEMMA DisconnectKeeps == ASSUME BrokerInv, NEW r \in Requests, Disconnect(r) PROVE BrokerInv'
<1> USE DEF BrokerInv, Disconnect, uiVars
<1>1. Typed' BY DEF Typed, Ids
<1>2. OnePlace' BY DEF Typed, OnePlace, InQueue, Prompted, Ids
<1>3. StillOpen' BY DEF Typed, StillOpen, InQueue, Prompted, Ids
<1>4. Meant' BY DEF Typed, Meant
<1>5. NobodyForgotten' BY DEF Typed, NobodyForgotten
<1>6. PendingHasTimer' BY DEF PendingHasTimer
<1> QED BY <1>1, <1>2, <1>3, <1>4, <1>5, <1>6

LEMMA TakeKeeps == ASSUME BrokerInv, BridgeTake PROVE BrokerInv'
<1> DEFINE c == Head(queue)
           id == Len(prompts) + 1
<1> USE DEF BrokerInv
<1>0. /\ c \in Requests /\ InQueue(c) /\ c = queue[1]
      /\ Len(queue') = Len(queue) - 1 /\ \A i \in 1..Len(queue') : queue'[i] = queue[i + 1]
      /\ Len(prompts') = id /\ id \in Nat \ {0} /\ prompts'[id] = c /\ \A i \in Ids : prompts'[i] = prompts[i]
      /\ Ids' = Ids \cup {id} /\ id \notin Ids
  BY DEF Typed, BridgeTake, InQueue, Ids
<1>1. /\ \A r \in Requests : InQueue(r)' <=> InQueue(r) /\ r # c
      /\ \A r \in Requests : Prompted(r)' <=> Prompted(r) \/ r = c
  <2>1. ASSUME NEW r \in Requests PROVE InQueue(r)' <=> InQueue(r) /\ r # c
    <3>1. ASSUME InQueue(r)' PROVE InQueue(r) /\ r # c
      <4>1. PICK i \in 1..Len(queue') : queue'[i] = r BY <3>1 DEF InQueue
      <4>2. i + 1 \in 1..Len(queue) /\ queue[i + 1] = r /\ i + 1 # 1 BY <4>1, <1>0 DEF Typed
      <4> QED BY <4>2, <1>0 DEF InQueue, OnePlace, Typed
    <3>2. ASSUME InQueue(r), r # c PROVE InQueue(r)'
      <4>1. PICK i \in 1..Len(queue) : queue[i] = r BY <3>2 DEF InQueue
      <4>2. i # 1 BY <4>1, <3>2, <1>0
      <4>3. i - 1 \in 1..Len(queue') /\ queue'[i - 1] = r BY <4>1, <4>2, <1>0 DEF Typed
      <4> QED BY <4>3 DEF InQueue
    <3> QED BY <3>1, <3>2
  <2>2. ASSUME NEW r \in Requests PROVE Prompted(r)' <=> Prompted(r) \/ r = c
    BY <1>0 DEF Prompted
  <2> QED BY <2>1, <2>2
<1>2. Typed'
  <2>1. queue' \in Seq(Requests) /\ prompts' \in Seq(Requests) BY DEF Typed, BridgeTake
  <2>2. /\ pending' = pending \cup {id} /\ turn' = {id}
        /\ dialogs' = dialogs \/ dialogs' = dialogs \cup {id}
        /\ UNCHANGED <<handler, bridge, oneshot, timers, answered, clicked>>
    BY DEF BridgeTake
  <2> HIDE DEF id, c
  <2> QED BY <2>1, <2>2, <1>0 DEF Typed
<1>3. OnePlace'
  <2>1. (\A i, j \in 1..Len(queue) : queue[i] = queue[j] => i = j)'
    BY <1>0 DEF Typed, OnePlace
  <2>2. (\A i, j \in Ids : prompts[i] = prompts[j] => i = j)'
    BY <1>0 DEF OnePlace, Prompted
  <2>3. (\A r \in Requests : ~InQueue(r) \/ ~Prompted(r))'
    BY <1>1 DEF OnePlace
  <2>4. (\A r \in Requests : handler[r] \in {"idle", "sending"} => ~InQueue(r) /\ ~Prompted(r))'
    BY <1>0, <1>1 DEF OnePlace, BridgeTake
  <2> QED BY <2>1, <2>2, <2>3, <2>4 DEF OnePlace
<1>4. StillOpen'
  <2>1. (\A r \in Requests : InQueue(r) \/ handler[r] \in {"idle", "sending"} => oneshot[r] = "open")'
    BY <1>1 DEF StillOpen, BridgeTake
  <2>2. (\A p \in pending : oneshot[prompts[p]] = "open" /\ clicked[prompts[p]] = "none")'
    <3>1. oneshot[c] = "open" /\ clicked[c] = "none" BY <1>0 DEF StillOpen, OnePlace
    <3>2. \A p \in pending : prompts'[p] = prompts[p] BY <1>0 DEF Typed
    <3>3. pending' = pending \cup {id} /\ UNCHANGED <<oneshot, clicked>> BY DEF BridgeTake
    <3> HIDE DEF id, c
    <3> QED BY <3>1, <3>2, <3>3, <1>0 DEF StillOpen
  <2>3. (\A r \in Requests : clicked[r] # "none" => Prompted(r))'
    BY <1>1 DEF StillOpen, BridgeTake
  <2> QED BY <2>1, <2>2, <2>3 DEF StillOpen
<1>5. Meant' BY DEF Meant, BridgeTake
<1>6. NobodyForgotten'
  <2> SUFFICES ASSUME NEW r \in Requests, handler[r] = "waiting", oneshot[r] = "open"
               PROVE  InQueue(r)' \/ \E p \in pending' : prompts'[p] = r
    BY DEF NobodyForgotten, InQueue, BridgeTake
  <2>1. CASE r = c BY <2>1, <1>0 DEF BridgeTake
  <2>2. CASE r # c
    <3>1. InQueue(r) \/ \E p \in pending : prompts[p] = r BY DEF NobodyForgotten, InQueue
    <3> QED BY <3>1, <2>2, <1>0, <1>1 DEF BridgeTake, Typed
  <2> QED BY <2>1, <2>2
<1>7. PendingHasTimer' BY DEF PendingHasTimer, BridgeTake
<1> QED BY <1>2, <1>3, <1>4, <1>5, <1>6, <1>7

LEMMA GoneKeeps == ASSUME BrokerInv, BridgeGone PROVE BrokerInv'
<1> USE DEF BrokerInv, BridgeGone, uiVars
<1>0. \A r \in Requests : ~InQueue(r)' /\ (Prompted(r)' <=> Prompted(r)) BY DEF InQueue, Prompted, Ids
<1>1. /\ \A r \in Requests : oneshot'[r] = IF InQueue(r) THEN "closed" ELSE oneshot[r]
      /\ oneshot' \in [Requests -> {"open", "Approve", "Reject", "closed"}]
  BY DEF InQueue, Typed
<1>2. Typed'
  <2>0. << >> \in Seq(Requests) OBVIOUS
  <2>1. queue' = << >> /\ bridge' \in BOOLEAN /\ Ids' = Ids BY DEF Ids
  <2>2. UNCHANGED <<handler, prompts, pending, timers, dialogs, answered, clicked, turn>> OBVIOUS
  <2> HIDE DEF BridgeGone
  <2> QED BY <1>1, <2>0, <2>1, <2>2 DEF Typed
<1>3. OnePlace' BY <1>0 DEF OnePlace, Ids
<1>4. StillOpen'
  <2>1. (\A r \in Requests : InQueue(r) \/ handler[r] \in {"idle", "sending"} => oneshot[r] = "open")'
    BY <1>0, <1>1 DEF StillOpen, OnePlace
  <2>2. (\A p \in pending : oneshot[prompts[p]] = "open" /\ clicked[prompts[p]] = "none")'
    <3>1. ASSUME NEW p \in pending PROVE prompts[p] \in Requests /\ ~InQueue(prompts[p])
      BY DEF OnePlace, Prompted, Typed, Ids
    <3> QED BY <3>1, <1>1 DEF StillOpen
  <2>3. (\A r \in Requests : clicked[r] # "none" => Prompted(r))' BY <1>0 DEF StillOpen
  <2> QED BY <2>1, <2>2, <2>3 DEF StillOpen
<1>5. Meant' BY <1>1 DEF Meant
<1>6. NobodyForgotten' BY <1>1 DEF NobodyForgotten, InQueue
<1>7. PendingHasTimer' BY DEF PendingHasTimer
<1> QED BY <1>2, <1>3, <1>4, <1>5, <1>6, <1>7

\* Whoever removes the responder decides, on a reply that nobody has given yet.
LEMMA SettleKeeps ==
  ASSUME BrokerInv, NEW id \in Ids, NEW decision \in {"Approve", "Reject"}, id \in pending, Settle(id, decision),
         clicked' \in [Requests -> {"none", "Approve", "Reject"}],
         decision = "Approve" => clicked'[prompts[id]] = "Approve",
         \A r \in Requests : r # prompts[id] => clicked'[r] = clicked[r],
         UNCHANGED <<handler, queue, bridge, prompts, turn>>,
         timers' \in SUBSET Ids, dialogs' \in SUBSET Ids, answered' \in SUBSET dialogs', timers \subseteq timers' \cup {id}
  PROVE  BrokerInv'
<1> DEFINE c == prompts[id]
<1> USE DEF BrokerInv
<1>0. /\ c \in Requests /\ oneshot[c] = "open" /\ clicked[c] = "none" /\ Prompted(c)
      /\ pending' = pending \ {id} /\ oneshot'[c] = decision
      /\ \A r \in Requests : r # c => oneshot'[r] = oneshot[r]
      /\ oneshot' \in [Requests -> {"open", "Approve", "Reject", "closed"}]
  BY DEF Settle, Typed, StillOpen, Prompted, Ids
<1>1. \A r \in Requests : (InQueue(r)' <=> InQueue(r)) /\ (Prompted(r)' <=> Prompted(r))
  BY DEF InQueue, Prompted, Ids
<1>2. Typed' BY <1>0 DEF Typed, Ids
<1>3. OnePlace' BY <1>1 DEF OnePlace, Ids
<1>4. \A p \in pending' : p \in pending /\ prompts[p] \in Requests /\ prompts[p] # c
  BY <1>0 DEF OnePlace, Typed, Ids
<1>5. StillOpen'
  <2>1. (\A r \in Requests : InQueue(r) \/ handler[r] \in {"idle", "sending"} => oneshot[r] = "open")'
    BY <1>0, <1>1 DEF StillOpen, OnePlace
  <2>2. (\A p \in pending : oneshot[prompts[p]] = "open" /\ clicked[prompts[p]] = "none")'
    BY <1>0, <1>4 DEF StillOpen
  <2>3. (\A r \in Requests : clicked[r] # "none" => Prompted(r))' BY <1>0, <1>1 DEF StillOpen
  <2> QED BY <2>1, <2>2, <2>3 DEF StillOpen
<1>6. Meant'
  <2> SUFFICES ASSUME NEW r \in Requests, "Approve" \in {oneshot'[r], handler[r]} PROVE clicked'[r] = "Approve"
    BY DEF Meant
  <2>1. CASE r = c
    <3>1. handler[r] # "Approve" BY <2>1, <1>0 DEF Meant
    <3> QED BY <3>1, <2>1, <1>0
  <2>2. CASE r # c BY <2>2, <1>0 DEF Meant
  <2> QED BY <2>1, <2>2
<1>7. NobodyForgotten'
  <2> SUFFICES ASSUME NEW r \in Requests, handler[r] = "waiting", oneshot'[r] = "open"
               PROVE  InQueue(r)' \/ \E p \in pending' : prompts[p] = r
    BY DEF NobodyForgotten, InQueue
  <2>1. r # c /\ oneshot[r] = "open" BY <1>0
  <2>2. InQueue(r) \/ \E p \in pending : prompts[p] = r BY <2>1 DEF NobodyForgotten, InQueue
  <2> QED BY <2>1, <2>2, <1>0, <1>1
<1>8. PendingHasTimer' BY <1>0 DEF PendingHasTimer
<1> QED BY <1>2, <1>3, <1>5, <1>6, <1>7, <1>8

\* A timer or a click that comes second changes no reply.
LEMMA LateKeeps ==
  ASSUME BrokerInv, UNCHANGED <<handler, queue, bridge, oneshot, prompts, pending, turn>>,
         clicked' \in [Requests -> {"none", "Approve", "Reject"}],
         \A r \in Requests : clicked[r] # "none" => clicked'[r] = clicked[r],
         \A p \in pending : clicked'[prompts[p]] = "none",
         \A r \in Requests : clicked'[r] # "none" => Prompted(r),
         timers' \in SUBSET Ids, dialogs' \in SUBSET Ids, answered' \in SUBSET dialogs',
         \A p \in pending : p \in timers => p \in timers'
  PROVE  BrokerInv'
<1> USE DEF BrokerInv
<1>1. Typed' BY DEF Typed, Ids
<1>2. OnePlace' BY DEF OnePlace, InQueue, Prompted, Ids
<1>3. StillOpen' BY DEF StillOpen, InQueue, Prompted, Ids
<1>4. Meant' BY DEF Meant
<1>5. NobodyForgotten' BY DEF NobodyForgotten
<1>6. PendingHasTimer' BY DEF PendingHasTimer
<1> QED BY <1>1, <1>2, <1>3, <1>4, <1>5, <1>6

LEMMA TimerKeeps == ASSUME BrokerInv, NEW id \in Ids, TimerFires(id) PROVE BrokerInv'
<1>1. CASE id \in pending /\ Settle(id, "Reject")
  BY <1>1, SettleKeeps DEF BrokerInv, Typed, TimerFires, uiVars, Ids
<1>2. CASE id \notin pending /\ UNCHANGED <<pending, oneshot>>
  BY <1>2, LateKeeps DEF BrokerInv, Typed, TimerFires, uiVars, Ids, StillOpen
<1> QED BY <1>1, <1>2 DEF TimerFires

LEMMA RespondKeeps ==
  ASSUME BrokerInv, NEW decision \in {"Approve", "Reject"}, RespondApproval(decision) PROVE BrokerInv'
<1>1. PICK id \in Ids :
        /\ Current(id)
        /\ clicked' = [clicked EXCEPT ![prompts[id]] = IF @ = "none" THEN decision ELSE @]
        /\ answered' = answered \cup {id}
        /\ \/ id \in pending /\ Settle(id, decision)
           \/ id \notin pending /\ UNCHANGED <<pending, oneshot>>
  BY DEF RespondApproval
<1>2. UNCHANGED <<handler, queue, bridge, prompts, timers, dialogs, turn>> BY DEF RespondApproval
<1>3. /\ prompts[id] \in Requests /\ id \in dialogs /\ Prompted(prompts[id])
      /\ clicked' \in [Requests -> {"none", "Approve", "Reject"}]
      /\ clicked'[prompts[id]] = IF clicked[prompts[id]] = "none" THEN decision ELSE clicked[prompts[id]]
      /\ \A r \in Requests : r # prompts[id] => clicked'[r] = clicked[r]
      /\ timers' \in SUBSET Ids /\ dialogs' \in SUBSET Ids /\ answered' \in SUBSET dialogs'
  BY <1>1, <1>2 DEF BrokerInv, Typed, Current, Prompted, Ids
<1>4. CASE id \in pending /\ Settle(id, decision)
  <2>1. clicked[prompts[id]] = "none" BY <1>4 DEF BrokerInv, StillOpen
  <2> QED BY <2>1, <1>2, <1>3, <1>4, SettleKeeps
<1>5. CASE id \notin pending /\ UNCHANGED <<pending, oneshot>>
  <2>1. \A p \in pending : clicked'[prompts[p]] = "none"
    BY <1>3, <1>5 DEF BrokerInv, StillOpen, OnePlace, Typed, Ids
  <2>2. \A r \in Requests : clicked'[r] # "none" => Prompted(r)
    BY <1>3 DEF BrokerInv, StillOpen
  <2> QED BY <2>1, <2>2, <1>2, <1>3, <1>5, LateKeeps
<1> QED BY <1>1, <1>4, <1>5

LEMMA DismissKeeps == ASSUME BrokerInv, NEW id \in Ids, Dismiss(id) PROVE BrokerInv'
BY LateKeeps DEF BrokerInv, Typed, Dismiss, Ids, StillOpen

LEMMA SpawnKeeps == ASSUME BrokerInv, NEW id \in Ids, SpawnTimer(id) PROVE BrokerInv'
<1> USE DEF BrokerInv, SpawnTimer, uiVars
<1>1. Typed' BY DEF Typed, Ids
<1>2. OnePlace' BY DEF OnePlace, InQueue, Prompted, Ids
<1>3. StillOpen' BY DEF StillOpen, InQueue, Prompted, Ids
<1>4. Meant' BY DEF Meant
<1>5. NobodyForgotten' BY DEF NobodyForgotten
<1>6. PendingHasTimer' BY DEF PendingHasTimer
<1> QED BY <1>1, <1>2, <1>3, <1>4, <1>5, <1>6

LEMMA StutterKeeps == ASSUME BrokerInv, UNCHANGED vars PROVE BrokerInv'
<1> USE DEF BrokerInv, vars
<1>1. Typed' BY DEF Typed, Ids
<1>2. OnePlace' BY DEF OnePlace, InQueue, Prompted, Ids
<1>3. StillOpen' BY DEF StillOpen, InQueue, Prompted, Ids
<1>4. Meant' BY DEF Meant
<1>5. NobodyForgotten' BY DEF NobodyForgotten
<1>6. PendingHasTimer' BY DEF PendingHasTimer
<1> QED BY <1>1, <1>2, <1>3, <1>4, <1>5, <1>6

LEMMA NextKeeps == BrokerInv /\ [Next]_vars => BrokerInv'
BY AskKeeps, SendKeeps, ResumeKeeps, DisconnectKeeps, TakeKeeps, GoneKeeps, TimerKeeps, RespondKeeps, DismissKeeps,
   SpawnKeeps, StutterKeeps DEF Next

\* The invariant holds in every state: each call in one place, its reply open until someone gives it (ApprovalBroker).
THEOREM BrokerInvariant == Spec => []BrokerInv
BY InitInv, NextKeeps, PTL DEF Spec

--------------------------------------------------------------------------------
\* The tables of the broker fit together: types, a holder for every reply that is waited for, a timer for every
\* responder (spawn_approval_bridge).
THEOREM AlwaysConsistent == Spec => []Consistent
<1>1. BrokerInv => Consistent
  <2>1. BrokerInv => Cardinality(turn) <= 1
    <3>1. Cardinality({}) = 0 BY FS_EmptySet
    <3>2. \A id \in Ids : Cardinality({id}) = 1 BY FS_Singleton
    <3>3. BrokerInv => turn = {} \/ \E id \in Ids : turn = {id} BY DEF BrokerInv, Typed
    <3>4. ASSUME turn = {} PROVE Cardinality(turn) <= 1 BY <3>1, <3>4
    <3>5. ASSUME NEW id \in Ids, turn = {id} PROVE Cardinality(turn) <= 1 BY <3>2, <3>5
    <3> QED BY <3>3, <3>4, <3>5
  <2> QED BY <2>1 DEF BrokerInv, Typed, Consistent, TypeOK
<1> QED BY <1>1, BrokerInvariant, PTL

\* A handler goes on with Approve on the user's own first press in the dialog of that very call only
\* (request_approval, respond_approval).
THEOREM OnlyTheUserApproves == Spec => []ApprovedByUser
<1>1. BrokerInv => ApprovedByUser BY DEF BrokerInv, Meant, ApprovedByUser
<1> QED BY <1>1, BrokerInvariant, PTL

\* A reply, once sent, is never replaced: click and timer have one winner (respond_approval, spawn_approval_bridge).
THEOREM NoSecondReply == Spec => RepliesOnce
<1> DEFINE Kept == \A r \in Requests : oneshot[r] # "open" => oneshot'[r] = oneshot[r]
<1>1. ASSUME BrokerInv, [Next]_vars PROVE Kept
  <2>1. ASSUME NEW id \in pending, NEW decision, Settle(id, decision) PROVE Kept
    BY <1>1, <2>1 DEF Settle, BrokerInv, Typed, StillOpen
  <2>2. CASE BridgeGone
    BY <1>1, <2>2 DEF BridgeGone, BrokerInv, Typed, StillOpen, InQueue
  <2>3. CASE UNCHANGED oneshot BY <2>3
  <2>4. ASSUME NEW id \in Ids, TimerFires(id) PROVE Kept BY <2>1, <2>3, <2>4 DEF TimerFires
  <2>5. ASSUME NEW decision \in {"Approve", "Reject"}, RespondApproval(decision) PROVE Kept
    BY <2>1, <2>3, <2>5 DEF RespondApproval
  <2> QED
    BY <1>1, <2>2, <2>3, <2>4, <2>5
    DEF Next, vars, Ask, Send, Resume, Disconnect, BridgeTake, SpawnTimer, Dismiss
<1>2. [Kept]_vars => [Kept]_vars OBVIOUS
<1> QED BY <1>1, BrokerInvariant, PTL DEF Spec, RepliesOnce

--------------------------------------------------------------------------------
(* The one-shot decision of OneShotDecision, without its fairness.         *)

\* The refinement mapping of Decision, by name.
Decided(h) ==
  CASE h = "idle" -> "none"
    [] h \in {"sending", "waiting"} -> "asked"
    [] h = "dropped" -> "abandoned"
    [] OTHER -> h
Decisions == [r \in Requests |-> Decided(handler[r])]
Consents  == {r \in Requests : clicked[r] = "Approve"}

\* A handler's move is a move of its decision and of no other.
LEMMA HandlerStep ==
  ASSUME BrokerInv, NEW r \in Requests, NEW h, handler' = [handler EXCEPT ![r] = h], UNCHANGED clicked
  PROVE  /\ Decisions' = [Decisions EXCEPT ![r] = Decided(h)] /\ Decisions[r] = Decided(handler[r])
         /\ UNCHANGED Consents
<1>1. Decisions' = [Decisions EXCEPT ![r] = Decided(h)] BY DEF Decisions, BrokerInv, Typed
<1>2. Decisions[r] = Decided(handler[r]) BY DEF Decisions
<1>3. UNCHANGED Consents BY DEF Consents
<1> QED BY <1>1, <1>2, <1>3

DecisionMoves(r) ==
  \/ Decisions[r] = "none" /\ Decisions' = [Decisions EXCEPT ![r] = "asked"] /\ UNCHANGED Consents
  \/ Decisions[r] # "none" /\ Consents' = Consents \cup {r} /\ UNCHANGED Decisions
  \/ /\ Decisions[r] = "asked"
     /\ \/ Decisions' = [Decisions EXCEPT ![r] = "Reject"]
        \/ r \in Consents /\ Decisions' = [Decisions EXCEPT ![r] = "Approve"]
     /\ UNCHANGED Consents
  \/ Decisions[r] = "asked" /\ Decisions' = [Decisions EXCEPT ![r] = "abandoned"] /\ UNCHANGED Consents
DecisionStutters == UNCHANGED <<Decisions, Consents>>

\* Every step of the broker asks, decides, abandons, records a consent, or changes nothing a handler sees.
LEMMA DecisionStep ==
  ASSUME BrokerInv, [Next]_vars
  PROVE  DecisionStutters \/ \E r \in Requests : DecisionMoves(r)
<1>0. CASE UNCHANGED <<handler, clicked>>
  BY <1>0 DEF DecisionStutters, Decisions, Consents
<1>1. ASSUME NEW r \in Requests, Ask(r) PROVE DecisionMoves(r)
  <2>1. handler[r] = "idle" /\ handler' = [handler EXCEPT ![r] = "sending"] /\ UNCHANGED clicked
    BY <1>1 DEF Ask, uiVars
  <2> QED BY <2>1, HandlerStep DEF DecisionMoves, Decided
<1>2. ASSUME NEW r \in Requests, Send(r) PROVE DecisionStutters \/ DecisionMoves(r)
  <2>1. handler[r] = "sending" /\ UNCHANGED clicked BY <1>2 DEF Send, uiVars
  <2>2. CASE handler' = [handler EXCEPT ![r] = "waiting"]
    <3>1. Decisions' = [Decisions EXCEPT ![r] = Decisions[r]] /\ UNCHANGED Consents
      BY <2>1, <2>2, HandlerStep DEF Decided
    <3> QED BY <3>1 DEF DecisionStutters, Decisions
  <2>3. CASE handler' = [handler EXCEPT ![r] = "Reject"]
    BY <2>1, <2>3, HandlerStep DEF DecisionMoves, Decided
  <2> QED BY <1>2, <2>2, <2>3 DEF Send
<1>3. ASSUME NEW r \in Requests, Resume(r) PROVE DecisionMoves(r)
  <2>1. PICK h \in {"Approve", "Reject"} :
          /\ handler' = [handler EXCEPT ![r] = h] /\ handler[r] = "waiting" /\ UNCHANGED clicked
          /\ h = "Approve" => oneshot[r] = "Approve"
    BY <1>3 DEF Resume, uiVars, BrokerInv, Typed
  <2>2. h = "Approve" => r \in Consents
    BY <2>1 DEF BrokerInv, Meant, Consents
  <2> QED BY <2>1, <2>2, HandlerStep DEF DecisionMoves, Decided
<1>4. ASSUME NEW r \in Requests, Disconnect(r) PROVE DecisionMoves(r)
  <2>1. handler[r] \in {"sending", "waiting"} /\ handler' = [handler EXCEPT ![r] = "dropped"] /\ UNCHANGED clicked
    BY <1>4 DEF Disconnect, uiVars
  <2> QED BY <2>1, HandlerStep DEF DecisionMoves, Decided
<1>5. ASSUME NEW press \in {"Approve", "Reject"}, RespondApproval(press)
      PROVE  DecisionStutters \/ \E r \in Requests : DecisionMoves(r)
  <2>1. PICK id \in Ids : clicked' = [clicked EXCEPT ![prompts[id]] = IF @ = "none" THEN press ELSE @]
    BY <1>5 DEF RespondApproval
  <2>2. UNCHANGED Decisions BY <1>5 DEF RespondApproval, Decisions
  <2> DEFINE r == prompts[id]
  <2>3. r \in Requests /\ Prompted(r) BY DEF BrokerInv, Typed, Prompted, Ids
  <2>4. Decisions[r] # "none"
    BY <2>3 DEF BrokerInv, OnePlace, Decisions, Decided, Typed
  <2>5. Consents' = Consents \/ Consents' = Consents \cup {r}
    BY <2>1, <2>3 DEF BrokerInv, Typed, Consents
  <2> HIDE DEF r
  <2> QED BY <2>2, <2>3, <2>4, <2>5 DEF DecisionStutters, DecisionMoves
<1> QED
  BY <1>0, <1>1, <1>2, <1>3, <1>4, <1>5
  DEF Next, vars, uiVars, BridgeTake, BridgeGone, TimerFires, SpawnTimer, Dismiss

\* The broker gives every handler what OneShotDecision promises, but for its fairness: one decision, which stays, and
\* Approve only with the user's consent to that very prompt (request_approval). That the decision comes is checked
\* with DecidesOnce.
THEOREM DecidesAtMostOnce == Spec => Decision!Init /\ [][Decision!Next]_(Decision!vars)
<1>1. Init => Decision!Init
  BY DEF Init, Decision!Init
<1>2. ASSUME BrokerInv, [Next]_vars PROVE [Decision!Next]_(Decision!vars)
  <2>1. CASE DecisionStutters
    BY <2>1 DEF DecisionStutters, Decision!vars, Decisions, Consents, Decided
  <2>2. ASSUME NEW r \in Requests, DecisionMoves(r) PROVE Decision!Next
    BY <2>2 DEF DecisionMoves, Decisions, Consents, Decided, Decision!Next, Decision!Ask, Decision!Consent,
                Decision!Decide, Decision!Abandon
  <2> QED BY <1>2, <2>1, <2>2, DecisionStep
<1> QED BY <1>1, <1>2, BrokerInvariant, PTL DEF Spec
================================================================================
