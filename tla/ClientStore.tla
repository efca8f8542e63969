------------------------------ MODULE ClientStore ------------------------------
(***************************************************************************)
(* Pairing (wallet-rpc/src/auth.rs, handle_pairing in dispatch.rs): the    *)
(* list of paired clients in memory, its copy in clients.json, and the     *)
(* calls of companion_requestPairing on their way through find, count,     *)
(* prompt and mint.  A call names itself the id of a client it creates and *)
(* the token it mints, which are random in the code.  A call's identity is *)
(* its name together with its kind.                                        *)
(***************************************************************************)
EXTENDS Integers, FiniteSets, Sequences, SequencesExt

CONSTANTS Calls,                \* calls of companion_requestPairing
          Identities,           \* the (name, kind) they come with
          Nobody,               \* no existing client
          MaxAccounts,          \* bound: accounts per client
          MaxBoots              \* bound: starts of the process

ASSUME ConstantsAssumption == Nobody \notin Calls /\ MaxAccounts \in Nat /\ MaxBoots \in Nat \ {0}

VARIABLES clients,              \* the clients in memory, in the order they were paired
          disk,                 \* clients.json
          call,                 \* each call's stage and what its handler has read
          owned,                \* the registry: how many accounts each client id owns
          unlocked,             \* the session
          boots,                \* starts of the process so far
          approved,             \* history: [token, id] of every pairing the user approved
          paired,               \* history: ids that were given to a caller
          given,                \* history: ids whose grant the user gave and has not taken back
          unsaved,              \* history: the last write failed, or the file could not be read
          lost                  \* history: the process ended with such a change unsaved

vars == <<clients, disk, call, owned, unlocked, boots, approved, paired, given, unsaved, lost>>
storeVars == <<clients, disk, paired, given, unsaved>>
otherVars == <<owned, unlocked, boots, lost>>

Idle == [stage |-> "idle", identity |-> Nobody, target |-> Nobody, shown |-> 0]
InFlight == {"count", "prompt", "approved", "minted"}

Ids(list) == {cl.id : cl \in ToSet(list)}
Valid(token) == \E cl \in ToSet(clients) : cl.token = token

\* The first client with this name and kind, Nobody when there is none.
First(i, identity) == clients[i].identity = identity /\ \A j \in 1..(i - 1) : clients[j].identity # identity
FindId(identity) ==
    IF \E i \in DOMAIN clients : First(i, identity)
    THEN clients[CHOOSE i \in DOMAIN clients : First(i, identity)].id ELSE Nobody

Init == /\ clients = << >> /\ disk = << >>
        /\ call = [c \in Calls |-> Idle]
        /\ owned = [c \in Calls |-> 0]
        /\ unlocked = FALSE
        /\ boots = 1
        /\ approved = {} /\ paired = {} /\ given = {}
        /\ unsaved = FALSE /\ lost = FALSE

--------------------------------------------------------------------------------
(* The store: every change rewrites the file, and a failing write is not reported. *)

Persist(list) ==
    /\ clients' = list
    /\ \/ disk' = list /\ unsaved' = FALSE
       \/ UNCHANGED disk /\ unsaved' = TRUE

Pair(c) ==
    /\ Persist(Append(clients, [id |-> c, identity |-> call[c].identity, granted |-> FALSE, token |-> c]))
    /\ paired' = paired \cup {c}

ReattachDropsGrant(c) ==                                        \* mutant: the client starts without its grant
    /\ Persist([i \in DOMAIN clients |->
                  IF clients[i].id = FindId(call[c].identity)
                  THEN [clients[i] EXCEPT !.token = c, !.granted = FALSE] ELSE clients[i]])
    /\ UNCHANGED paired
ReattachUnsaved(c) ==                                           \* mutant: the new token is not written
    /\ clients' = [i \in DOMAIN clients |->
                     IF clients[i].id = FindId(call[c].identity) THEN [clients[i] EXCEPT !.token = c] ELSE clients[i]]
    /\ UNCHANGED <<disk, unsaved, paired>>
ReattachNamesakes(c) ==                                         \* mutant: every client of that name gets the token
    /\ Persist([i \in DOMAIN clients |->
                  IF clients[i].identity = call[c].identity THEN [clients[i] EXCEPT !.token = c] ELSE clients[i]])
    /\ UNCHANGED paired
Reattach(c) ==
    /\ Persist([i \in DOMAIN clients |->
                  IF clients[i].id = FindId(call[c].identity) THEN [clients[i] EXCEPT !.token = c] ELSE clients[i]])
    /\ UNCHANGED paired

SetGrant(id, granted) ==
    /\ id \in Ids(clients)
    /\ Persist([i \in DOMAIN clients |->
                  IF clients[i].id = id THEN [clients[i] EXCEPT !.granted = granted] ELSE clients[i]])
    /\ UNCHANGED <<call, approved, paired>> /\ UNCHANGED otherVars

--------------------------------------------------------------------------------
(* handle_pairing.                                                         *)

MoveOn(c, stage) == call' = [call EXCEPT ![c].stage = stage]

Arrive(c) ==
    /\ call[c].stage = "idle"
    /\ \E identity \in Identities, reattach \in BOOLEAN :
          LET target == IF reattach THEN FindId(identity) ELSE Nobody
          IN  call' = [call EXCEPT ![c] = [Idle EXCEPT !.stage = IF target = Nobody THEN "prompt" ELSE "count",
                                                       !.identity = identity, !.target = target]]
    /\ UNCHANGED approved /\ UNCHANGED storeVars /\ UNCHANGED otherVars

\* A locked session has no registry, and the prompt says 0.
Count(c) ==
    /\ call[c].stage = "count"
    /\ call' = [call EXCEPT ![c].stage = "prompt",
                            ![c].shown = IF unlocked THEN owned[call[c].target] ELSE 0]
    /\ UNCHANGED approved /\ UNCHANGED storeVars /\ UNCHANGED otherVars

Approve(c) ==
    /\ call[c].stage = "prompt"
    /\ MoveOn(c, "approved")
    /\ approved' = approved \cup {[token |-> c, id |-> IF call[c].target = Nobody THEN c ELSE call[c].target]}
    /\ UNCHANGED storeVars /\ UNCHANGED otherVars

\* The user rejects, the prompt times out, or the caller has gone and its handler with it.
End(c) ==
    /\ call[c].stage \in InFlight
    /\ MoveOn(c, "over")
    /\ UNCHANGED approved /\ UNCHANGED storeVars /\ UNCHANGED otherVars

\* reattach looks the name up again; "client existed" is its expectation.
Mint(c) ==
    /\ call[c].stage = "approved"
    /\ MoveOn(c, "minted")
    /\ IF call[c].target = Nobody THEN Pair(c) ELSE Reattach(c)
    /\ UNCHANGED <<approved, given>> /\ UNCHANGED otherVars

\* The caller has its token: from now on it can act.
Deliver(c) ==
    /\ call[c].stage = "minted"
    /\ MoveOn(c, "holds")
    /\ UNCHANGED approved /\ UNCHANGED storeVars /\ UNCHANGED otherVars

--------------------------------------------------------------------------------
(* What the callers, the user and the system do.                           *)

CreateAccount(c) ==
    /\ call[c].stage = "holds" /\ unlocked
    /\ \E cl \in ToSet(clients) :
          /\ cl.token = c /\ owned[cl.id] < MaxAccounts
          /\ owned' = [owned EXCEPT ![cl.id] = @ + 1]
    /\ UNCHANGED <<call, approved, unlocked, boots, lost>> /\ UNCHANGED storeVars

\* companion_requestGrant after its prompt, or the Agents panel.
GrantPermission(id)  == SetGrant(id, TRUE)  /\ given' = given \cup {id}
RevokePermission(id) == SetGrant(id, FALSE) /\ given' = given \ {id}

LockOrUnlock ==
    /\ unlocked' = ~unlocked
    /\ UNCHANGED <<call, approved, owned, boots, lost>> /\ UNCHANGED storeVars

\* open takes a file that cannot be read for an empty one.
Restart ==
    /\ boots < MaxBoots
    /\ boots' = boots + 1
    /\ clients' \in {disk, << >>}
    /\ unsaved' = (clients' # disk)
    /\ lost' = (lost \/ unsaved \/ unsaved')
    /\ unlocked' = FALSE
    /\ call' = [c \in Calls |-> IF call[c].stage \in InFlight THEN [call[c] EXCEPT !.stage = "over"] ELSE call[c]]
    /\ UNCHANGED <<disk, owned, approved, paired, given>>

--------------------------------------------------------------------------------
Next == \/ \E c \in Calls : \/ Arrive(c) \/ Count(c) \/ Approve(c) \/ End(c) \/ Mint(c) \/ Deliver(c)
                            \/ CreateAccount(c) \/ GrantPermission(c) \/ RevokePermission(c)
        \/ LockOrUnlock \/ Restart

Spec == Init /\ [][Next]_vars

--------------------------------------------------------------------------------
(* Properties.                                                             *)

TypeOK ==
    /\ \A list \in {clients, disk} :
          /\ \A i \in DOMAIN list : list[i] \in [id : Calls, identity : Identities, granted : BOOLEAN, token : Calls]
          /\ \A i, j \in DOMAIN list : list[i].id = list[j].id => i = j
    /\ \A c \in Calls : /\ call[c].stage \in {"idle", "holds", "over"} \cup InFlight
                        /\ call[c].shown \in 0..MaxAccounts
    /\ owned \in [Calls -> 0..MaxAccounts]
    /\ approved \subseteq [token : Calls, id : Calls] /\ paired \subseteq Calls /\ given \subseteq paired

\* A token opens exactly the client that the user's prompt named when its pairing was approved, also when clients of
\* the same name were paired meanwhile, and whatever was written and read again (handle_pairing, reattach, verify).
AccessByConsent ==
    \A cl \in ToSet(clients) \cup ToSet(disk) : [token |-> cl.token, id |-> cl.id] \in approved

\* A token that has been replaced stays dead, over restarts too, unless the file misses its replacement (reattach:
\* "The old token is invalidated").
ReplacedStaysDead ==
    [][\A c \in Calls : call[c].stage \in {"minted", "holds", "over"} /\ ~Valid(c) /\ ~unsaved => ~Valid(c)']_clients

\* What the store acknowledged is what it knows: the clients that were paired, the accounts' owners among them, with
\* the grants the user gave and has not taken back. Only a write that failed can change that, and only by a restart
\* (persist, open; docs/code/wallet-rpc.md: "Pairings + grants persist").
PromisesSurvive ==
    lost \/ /\ Ids(clients) = paired
            /\ {cl.id : cl \in {x \in ToSet(clients) : x.granted}} = given
            /\ {id \in Calls : owned[id] > 0} \subseteq paired

\* Types, with one entry per client, and what was acknowledged is in them (auth.rs).
Consistent == TypeOK /\ PromisesSurvive
================================================================================
