---------------------------- MODULE ClientStoreProofs ----------------------------
(***************************************************************************)
(* Theorems about ClientStore, for any number of calls and names and any   *)
(* number of starts.                                                       *)
(***************************************************************************)
EXTENDS ClientStore, SequenceTheorems, TLAPS

Client == [id : Calls, identity : Identities, granted : BOOLEAN, token : Calls]

\* The call has minted its token, or ended without one.
Late == {"minted", "holds", "over"}

CallsTyped == call \in [Calls -> [stage : {"idle", "holds", "over"} \cup InFlight, identity : Identities \cup {Nobody},
                                  target : Calls \cup {Nobody}, shown : 0..MaxAccounts]]

\* A list of clients as the file or the memory holds it: one entry per id, each token with the user's consent.
ListOk(list, ids, consent) ==
    /\ list \in Seq(Client)
    /\ \A i, j \in DOMAIN list : list[i].id = list[j].id => i = j
    /\ \A i \in DOMAIN list : list[i].id \in ids /\ [token |-> list[i].token, id |-> list[i].id] \in consent

\* A call on its way knows its name, and its target is the first client of that name, which stays so.
TargetsStand ==
    \A c \in Calls : call[c].stage \in {"count", "prompt", "approved"} =>
        /\ call[c].identity \in Identities
        /\ call[c].stage = "count" => call[c].target # Nobody
        /\ call[c].target # Nobody =>
              \E i \in DOMAIN clients : First(i, call[c].identity) /\ clients[i].id = call[c].target

\* What the user approved is on record, for as long as the token is not minted.
ApprovedStands ==
    \A c \in Calls : call[c].stage = "approved" =>
        [token |-> c, id |-> IF call[c].target = Nobody THEN c ELSE call[c].target] \in approved

\* Ids are given once; accounts and grants belong to given ids; a file that is not behind is the memory's copy.
Bookkept ==
    /\ owned \in [Calls -> 0..MaxAccounts] /\ unsaved \in BOOLEAN
    /\ approved \subseteq [token : Calls, id : Calls]
    /\ paired \subseteq Calls /\ \A c \in paired : call[c].stage \in Late
    /\ given \subseteq paired /\ {id \in Calls : owned[id] > 0} \subseteq paired
    /\ ~unsaved => disk = clients

StoreInv ==
    /\ CallsTyped /\ Bookkept /\ TargetsStand /\ ApprovedStands
    /\ ListOk(clients, paired, approved) /\ ListOk(disk, paired, approved) /\ PromisesSurvive

--------------------------------------------------------------------------------
(* Lists of clients.                                                       *)

LEMMA SeqFacts ==
    ASSUME NEW list \in Seq(Client)
    PROVE  /\ DOMAIN list = 1..Len(list) /\ Len(list) \in Nat
           /\ \A i \in DOMAIN list : list[i] \in Client
           /\ ToSet(list) = {list[i] : i \in DOMAIN list}
           /\ Ids(list) = {list[i].id : i \in DOMAIN list}
BY DEF ToSet, Ids

\* There is one first client of a name.
LEMMA FirstIsFound ==
    ASSUME StoreInv, NEW identity, NEW i \in DOMAIN clients, First(i, identity)
    PROVE  FindId(identity) = clients[i].id
<1>1. DOMAIN clients = 1..Len(clients) /\ Len(clients) \in Nat BY SeqFacts DEF StoreInv, ListOk
<1>2. ASSUME NEW j \in DOMAIN clients, First(j, identity) PROVE j = i
  <2>1. ~(i < j) /\ ~(j < i) BY <1>1, <1>2 DEF First
  <2> QED BY <1>1, <2>1
<1>3. (CHOOSE j \in DOMAIN clients : First(j, identity)) = i BY <1>2
<1> QED BY <1>3 DEF FindId

LEMMA FoundIsFirst ==
    ASSUME NEW identity, FindId(identity) # Nobody
    PROVE  \E i \in DOMAIN clients : First(i, identity) /\ clients[i].id = FindId(identity)
BY DEF FindId

\* Whoever is first stays first while the clients keep ids and names and new ones are added behind them.
LEMMA FirstStays ==
    ASSUME StoreInv, NEW identity, NEW i \in DOMAIN clients, First(i, identity),
           DOMAIN clients \subseteq DOMAIN clients',
           \A j \in DOMAIN clients : clients'[j].id = clients[j].id /\ clients'[j].identity = clients[j].identity
    PROVE  i \in DOMAIN clients' /\ First(i, identity)' /\ clients'[i].id = clients[i].id
<1>1. DOMAIN clients = 1..Len(clients) /\ Len(clients) \in Nat BY SeqFacts DEF StoreInv, ListOk
<1>2. \A j \in 1..(i - 1) : j \in DOMAIN clients BY <1>1
<1> QED BY <1>1, <1>2 DEF First

LEMMA MoreIsOk ==
    ASSUME NEW list, NEW ids, NEW consent, ListOk(list, ids, consent),
           NEW moreIds, NEW moreConsent, ids \subseteq moreIds, consent \subseteq moreConsent
    PROVE  ListOk(list, moreIds, moreConsent)
BY DEF ListOk

\* A list with other tokens and grants.
LEMMA ChangedIsOk ==
    ASSUME NEW list, NEW ids, NEW consent, ListOk(list, ids, consent), NEW other,
           DOMAIN other = DOMAIN list,
           \A i \in DOMAIN list : /\ other[i] \in Client /\ other[i].id = list[i].id
                                 /\ [token |-> other[i].token, id |-> other[i].id] \in consent,
           other = [i \in DOMAIN list |-> other[i]]
    PROVE  ListOk(other, ids, consent)
<1>1. DOMAIN list = 1..Len(list) /\ Len(list) \in Nat BY SeqFacts DEF ListOk
<1>2. other \in [1..Len(list) -> Client] BY <1>1
<1>3. other \in Seq(Client) BY <1>1, <1>2
<1>4. \A i, j \in DOMAIN other : other[i].id = other[j].id => i = j
  <2>1. \A i, j \in DOMAIN list : list[i].id = list[j].id => i = j BY DEF ListOk
  <2> QED BY <2>1
<1>5. \A i \in DOMAIN other : other[i].id \in ids /\ [token |-> other[i].token, id |-> other[i].id] \in consent
  <2>1. \A i \in DOMAIN list : list[i].id \in ids BY DEF ListOk
  <2> QED BY <2>1
<1> QED BY <1>3, <1>4, <1>5 DEF ListOk

LEMMA AppendedIsOk ==
    ASSUME NEW list, NEW ids, NEW consent, ListOk(list, ids, consent), NEW cl \in Client, cl.id \notin ids,
           [token |-> cl.token, id |-> cl.id] \in consent
    PROVE  /\ ListOk(Append(list, cl), ids \cup {cl.id}, consent)
           /\ DOMAIN list \subseteq DOMAIN Append(list, cl)
           /\ \A i \in DOMAIN list : Append(list, cl)[i] = list[i]
           /\ ToSet(Append(list, cl)) = ToSet(list) \cup {cl}
<1> DEFINE longer == Append(list, cl)
<1>1. DOMAIN list = 1..Len(list) /\ Len(list) \in Nat BY SeqFacts DEF ListOk
<1>2. /\ longer \in Seq(Client) /\ DOMAIN longer = 1..(Len(list) + 1)
      /\ longer[Len(list) + 1] = cl /\ \A i \in 1..Len(list) : longer[i] = list[i]
  BY <1>1 DEF ListOk
<1> HIDE DEF longer
<1>3. \A i \in DOMAIN longer : i = Len(list) + 1 \/ i \in DOMAIN list BY <1>1, <1>2
<1>4. \A i \in DOMAIN list : longer[i] = list[i] /\ list[i].id # cl.id BY <1>1, <1>2 DEF ListOk
<1>5. \A i, j \in DOMAIN longer : longer[i].id = longer[j].id => i = j BY <1>2, <1>3, <1>4 DEF ListOk
<1>6. \A i \in DOMAIN longer : /\ longer[i].id \in ids \cup {cl.id}
                               /\ [token |-> longer[i].token, id |-> longer[i].id] \in consent
  BY <1>2, <1>3, <1>4 DEF ListOk
<1>7. ToSet(longer) = ToSet(list) \cup {cl} BY <1>1, <1>2, <1>3 DEF ToSet
<1> QED BY <1>1, <1>2, <1>4, <1>5, <1>6, <1>7 DEF ListOk, longer

--------------------------------------------------------------------------------
(* The handler.                                                            *)

LEMMA CallFacts ==
    ASSUME StoreInv, NEW c \in Calls
    PROVE  /\ call[c].stage \in {"idle", "holds", "over"} \cup InFlight /\ call[c].identity \in Identities \cup {Nobody}
           /\ call[c].target \in Calls \cup {Nobody} /\ call[c].shown \in 0..MaxAccounts
BY DEF StoreInv, CallsTyped

\* One call moves on, and the store stays.
LEMMA CallKeeps ==
    ASSUME StoreInv, NEW c \in Calls, CallsTyped', \A d \in Calls \ {c} : call'[d] = call[d],
           call[c].stage \in Late => call'[c].stage \in Late,
           call'[c].stage \in {"count", "prompt", "approved"} =>
               /\ call'[c].identity \in Identities
               /\ call'[c].stage = "count" => call'[c].target # Nobody
               /\ call'[c].target # Nobody =>
                     \E i \in DOMAIN clients : First(i, call'[c].identity) /\ clients[i].id = call'[c].target,
           call'[c].stage = "approved" =>
               [token |-> c, id |-> IF call'[c].target = Nobody THEN c ELSE call'[c].target] \in approved',
           approved \subseteq approved', approved' \subseteq [token : Calls, id : Calls],
           UNCHANGED storeVars, UNCHANGED otherVars
    PROVE  StoreInv'
<1>1. /\ clients' = clients /\ disk' = disk /\ paired' = paired /\ given' = given /\ unsaved' = unsaved
      /\ owned' = owned /\ lost' = lost
  BY DEF storeVars, otherVars
<1>2. \A i, x : First(i, x)' <=> First(i, x) BY <1>1 DEF First
<1>3. Bookkept' BY <1>1 DEF StoreInv, Bookkept
<1>4. TargetsStand' BY <1>1, <1>2 DEF StoreInv, TargetsStand, First
<1>5. ApprovedStands' BY DEF StoreInv, ApprovedStands
<1>6. ListOk(clients, paired, approved)' /\ ListOk(disk, paired, approved)'
  BY <1>1, MoreIsOk DEF StoreInv
<1>7. PromisesSurvive' BY <1>1 DEF StoreInv, PromisesSurvive, Ids
<1> QED BY <1>3, <1>4, <1>5, <1>6, <1>7 DEF StoreInv

LEMMA ArriveKeeps == ASSUME StoreInv, NEW c \in Calls, Arrive(c) PROVE StoreInv'
<1>0. PICK identity \in Identities : \E reattach \in BOOLEAN :
        LET target == IF reattach THEN FindId(identity) ELSE Nobody
        IN  call' = [call EXCEPT ![c] = [Idle EXCEPT !.stage = IF target = Nobody THEN "prompt" ELSE "count",
                                                     !.identity = identity, !.target = target]]
  BY DEF Arrive
<1>1. PICK target \in {Nobody, FindId(identity)} :
        call' = [call EXCEPT ![c] = [Idle EXCEPT !.stage = IF target = Nobody THEN "prompt" ELSE "count",
                                                 !.identity = identity, !.target = target]]
  BY <1>0
<1>2. target # Nobody => \E i \in DOMAIN clients : First(i, identity) /\ clients[i].id = target
  BY <1>1, FoundIsFirst
<1>3. \A i \in DOMAIN clients : clients[i].id \in Calls BY SeqFacts DEF StoreInv, ListOk, Client
<1>4. target \in Calls \cup {Nobody} BY <1>2, <1>3
<1> DEFINE stage == IF target = Nobody THEN "prompt" ELSE "count"
           f == [Idle EXCEPT !.stage = stage, !.identity = identity, !.target = target]
<1>5. /\ f \in [stage : {"idle", "holds", "over"} \cup InFlight, identity : Identities \cup {Nobody},
               target : Calls \cup {Nobody}, shown : 0..MaxAccounts]
      /\ f.stage \in {"count", "prompt"} /\ (f.stage = "count" => target # Nobody)
      /\ f.identity = identity /\ f.target = target
  <2>1. stage \in {"count", "prompt"} /\ (stage = "count" => target # Nobody) OBVIOUS
  <2> HIDE DEF stage
  <2>2. Idle \in [stage : {"idle", "holds", "over"} \cup InFlight, identity : Identities \cup {Nobody},
                  target : Calls \cup {Nobody}, shown : 0..MaxAccounts]
    BY ConstantsAssumption DEF Idle
  <2> QED BY <1>4, <2>1, <2>2 DEF InFlight
<1>6. call' = [call EXCEPT ![c] = f] /\ call[c].stage = "idle" BY <1>1 DEF Arrive
<1> HIDE DEF f
<1>7. CallsTyped' /\ call'[c] = f /\ \A d \in Calls \ {c} : call'[d] = call[d]
  BY <1>5, <1>6 DEF StoreInv, CallsTyped
<1>8. approved' = approved /\ approved \subseteq [token : Calls, id : Calls] /\ UNCHANGED storeVars /\ UNCHANGED otherVars
  BY DEF Arrive, StoreInv, Bookkept
<1>9. call[c].stage \notin Late /\ call'[c].stage \in {"count", "prompt"} BY <1>5, <1>6, <1>7 DEF Late
<1>10. call'[c].identity \in Identities /\ call'[c].identity = identity /\ call'[c].target = target BY <1>5, <1>7
<1>11. call'[c].stage = "count" => call'[c].target # Nobody BY <1>5, <1>7
<1>12. call'[c].target # Nobody =>
          \E i \in DOMAIN clients : First(i, call'[c].identity) /\ clients[i].id = call'[c].target
  BY <1>2, <1>10
<1>13. call'[c].stage # "approved" BY <1>9
<1> QED BY <1>7, <1>8, <1>9, <1>10, <1>11, <1>12, <1>13, CallKeeps

\* The call moves on from one stage on its way to another, or to its end.
LEMMA StageMoves ==
    ASSUME StoreInv, NEW c \in Calls, NEW stage \in {"prompt", "approved", "minted", "holds", "over"}, MoveOn(c, stage)
    PROVE  /\ CallsTyped' /\ call'[c].stage = stage /\ call'[c].identity = call[c].identity
           /\ call'[c].target = call[c].target /\ \A d \in Calls \ {c} : call'[d] = call[d]
BY DEF StoreInv, CallsTyped, MoveOn, InFlight

LEMMA CountKeeps == ASSUME StoreInv, NEW c \in Calls, Count(c) PROVE StoreInv'
<1> DEFINE shown == IF unlocked THEN owned[call[c].target] ELSE 0
           f == [call[c] EXCEPT !.stage = "prompt", !.shown = shown]
<1>1. /\ call[c].stage = "count" /\ call' = [call EXCEPT ![c].stage = "prompt", ![c].shown = shown]
      /\ approved' = approved /\ UNCHANGED storeVars /\ UNCHANGED otherVars
  BY DEF Count
<1>2. call[c].target \in Calls BY <1>1, CallFacts DEF StoreInv, TargetsStand
<1>3. shown \in 0..MaxAccounts BY <1>2, ConstantsAssumption DEF StoreInv, Bookkept
<1> HIDE DEF shown
<1>4. call' = [call EXCEPT ![c] = f] BY <1>1 DEF StoreInv, CallsTyped
<1>5. /\ f \in [stage : {"idle", "holds", "over"} \cup InFlight, identity : Identities \cup {Nobody},
               target : Calls \cup {Nobody}, shown : 0..MaxAccounts]
      /\ f.stage = "prompt" /\ f.identity = call[c].identity /\ f.target = call[c].target
  BY <1>3 DEF StoreInv, CallsTyped, InFlight
<1> HIDE DEF f
<1>6. CallsTyped' /\ call'[c] = f /\ \A d \in Calls \ {c} : call'[d] = call[d]
  BY <1>4, <1>5 DEF StoreInv, CallsTyped
<1>7. approved \subseteq [token : Calls, id : Calls] BY DEF StoreInv, Bookkept
<1>8. /\ call[c].identity \in Identities
      /\ call[c].target # Nobody =>
            \E i \in DOMAIN clients : First(i, call[c].identity) /\ clients[i].id = call[c].target
  BY <1>1 DEF StoreInv, TargetsStand
<1>9. /\ call'[c].stage = "prompt" /\ call'[c].identity = call[c].identity /\ call'[c].target = call[c].target
      /\ CallsTyped' /\ call[c].stage \notin Late /\ \A d \in Calls \ {c} : call'[d] = call[d]
  BY <1>1, <1>5, <1>6 DEF Late
<1>10. approved' = approved /\ UNCHANGED storeVars /\ UNCHANGED otherVars BY <1>1
<1> QED BY <1>7, <1>8, <1>9, <1>10, CallKeeps

LEMMA ApproveKeeps == ASSUME StoreInv, NEW c \in Calls, Approve(c) PROVE StoreInv'
<1> DEFINE consent == [token |-> c, id |-> IF call[c].target = Nobody THEN c ELSE call[c].target]
<1>1. /\ call[c].stage = "prompt" /\ MoveOn(c, "approved") /\ approved' = approved \cup {consent}
      /\ UNCHANGED storeVars /\ UNCHANGED otherVars
  BY DEF Approve
<1>2. /\ CallsTyped' /\ call'[c].stage = "approved" /\ call'[c].identity = call[c].identity
      /\ call'[c].target = call[c].target /\ \A d \in Calls \ {c} : call'[d] = call[d]
  BY <1>1, StageMoves
<1>3. consent \in [token : Calls, id : Calls] BY CallFacts
<1>4. approved' \subseteq [token : Calls, id : Calls] BY <1>1, <1>3 DEF StoreInv, Bookkept
<1>5. /\ call[c].identity \in Identities
      /\ call[c].target # Nobody =>
            \E i \in DOMAIN clients : First(i, call[c].identity) /\ clients[i].id = call[c].target
  BY <1>1 DEF StoreInv, TargetsStand
<1>6. [token |-> c, id |-> IF call'[c].target = Nobody THEN c ELSE call'[c].target] \in approved' BY <1>1, <1>2
<1> QED BY <1>1, <1>2, <1>4, <1>5, <1>6, CallKeeps DEF Late

LEMMA EndKeeps == ASSUME StoreInv, NEW c \in Calls, End(c) \/ Deliver(c) PROVE StoreInv'
<1>1. PICK stage \in {"over", "holds"} : MoveOn(c, stage) BY DEF End, Deliver
<1>2. approved' = approved /\ UNCHANGED storeVars /\ UNCHANGED otherVars BY DEF End, Deliver
<1>3. CallsTyped' /\ call'[c].stage = stage /\ \A d \in Calls \ {c} : call'[d] = call[d]
  BY <1>1, StageMoves
<1>4. approved \subseteq [token : Calls, id : Calls] BY DEF StoreInv, Bookkept
<1> QED BY <1>2, <1>3, <1>4, CallKeeps DEF Late

\* The store writes a list with the same clients in the same places, and maybe more behind them.
LEMMA PersistKeeps ==
    ASSUME StoreInv, NEW other, Persist(other), ListOk(other, paired', approved), DOMAIN clients \subseteq DOMAIN other,
           \A i \in DOMAIN clients : other[i].id = clients[i].id /\ other[i].identity = clients[i].identity,
           paired \subseteq paired', paired' \subseteq Calls, \A c \in paired' : call'[c].stage \in Late,
           CallsTyped', approved' = approved, owned' = owned, lost' = lost,
           \A c \in Calls : call'[c] # call[c] => call'[c].stage \in Late,
           given' \subseteq paired',
           ~lost => /\ Ids(other) = paired'
                    /\ {cl.id : cl \in {x \in ToSet(other) : x.granted}} = given'
    PROVE  StoreInv'
<1>1. clients' = other /\ ((disk' = other /\ unsaved' = FALSE) \/ (disk' = disk /\ unsaved' = TRUE))
  BY DEF Persist
<1>2. Bookkept' BY <1>1 DEF StoreInv, Bookkept
<1>3. TargetsStand'
  <2>1. ASSUME NEW c \in Calls, call'[c].stage \in {"count", "prompt", "approved"} PROVE call'[c] = call[c]
    BY <2>1 DEF Late
  <2>2. ASSUME NEW c \in Calls, call'[c].stage \in {"count", "prompt", "approved"}, call[c].target # Nobody
        PROVE  \E i \in DOMAIN clients' : First(i, call[c].identity)' /\ clients'[i].id = call[c].target
    <3>1. call'[c] = call[c] BY <2>1, <2>2
    <3>2. PICK x : x = call[c].identity OBVIOUS
    <3>3. PICK i \in DOMAIN clients : First(i, x) /\ clients[i].id = call[c].target
      BY <2>2, <3>1, <3>2 DEF StoreInv, TargetsStand
    <3>4. i \in DOMAIN clients' /\ First(i, x)' /\ clients'[i].id = clients[i].id BY <1>1, <3>3, FirstStays
    <3> QED BY <3>1, <3>2, <3>3, <3>4 DEF First
  <2>3. ASSUME NEW c \in Calls, call'[c].stage \in {"count", "prompt", "approved"}
        PROVE  call[c].identity \in Identities /\ (call[c].stage = "count" => call[c].target # Nobody)
    BY <2>1, <2>3 DEF StoreInv, TargetsStand
  <2> QED BY <2>1, <2>2, <2>3 DEF TargetsStand
<1>4. ApprovedStands' BY DEF StoreInv, ApprovedStands, Late
<1>5. ListOk(clients, paired, approved)' /\ ListOk(disk, paired, approved)'
  <2>1. ListOk(disk, paired', approved) BY MoreIsOk DEF StoreInv
  <2> QED BY <1>1, <2>1
<1>6. PromisesSurvive' BY <1>1 DEF StoreInv, PromisesSurvive, Bookkept
<1> QED BY <1>2, <1>3, <1>4, <1>5, <1>6 DEF StoreInv

\* The clients' tokens or grants change, and nothing else of them.
LEMMA RewriteKeeps ==
    ASSUME StoreInv, NEW other, Persist(other), ListOk(other, paired, approved), DOMAIN other = DOMAIN clients,
           \A i \in DOMAIN clients : other[i].id = clients[i].id /\ other[i].identity = clients[i].identity,
           paired' = paired, \A c \in Calls : call[c].stage \in Late => call'[c].stage \in Late,
           CallsTyped', approved' = approved, owned' = owned, lost' = lost,
           \A c \in Calls : call'[c] # call[c] => call'[c].stage \in Late,
           given' \subseteq paired,
           ~lost => {cl.id : cl \in {x \in ToSet(other) : x.granted}} = given'
    PROVE  StoreInv'
<1>1. other \in Seq(Client) /\ clients \in Seq(Client) BY DEF StoreInv, ListOk
<1>2. Ids(other) = {other[i].id : i \in DOMAIN other} BY <1>1, SeqFacts
<1>3. Ids(clients) = {clients[i].id : i \in DOMAIN clients} BY <1>1, SeqFacts
<1>4. ~lost => Ids(other) = paired' BY <1>2, <1>3 DEF StoreInv, PromisesSurvive
<1>5. paired \subseteq Calls /\ \A c \in paired : call'[c].stage \in Late BY DEF StoreInv, Bookkept
<1> QED BY <1>4, <1>5, PersistKeeps

LEMMA MintKeeps == ASSUME StoreInv, NEW c \in Calls, Mint(c) PROVE StoreInv'
<1>1. /\ call[c].stage = "approved" /\ MoveOn(c, "minted") /\ approved' = approved /\ given' = given
      /\ owned' = owned /\ lost' = lost
  BY DEF Mint, otherVars
<1>2. /\ CallsTyped' /\ call'[c].stage = "minted" /\ \A d \in Calls \ {c} : call'[d] = call[d]
  BY <1>1, StageMoves
<1>3. /\ \A d \in Calls : call[d].stage \in Late => call'[d].stage \in Late
      /\ \A d \in Calls : call'[d] # call[d] => call'[d].stage \in Late
      /\ call'[c].stage \in Late /\ call[c].stage \notin Late
  BY <1>1, <1>2 DEF Late
<1>4. /\ [token |-> c, id |-> IF call[c].target = Nobody THEN c ELSE call[c].target] \in approved
      /\ call[c].identity \in Identities
      /\ paired \subseteq Calls /\ c \notin paired /\ given \subseteq paired
      /\ \A d \in paired : call[d].stage \in Late
      /\ ListOk(clients, paired, approved)
  BY <1>1, <1>3 DEF StoreInv, ApprovedStands, TargetsStand, Bookkept
<1>5. /\ clients \in Seq(Client) /\ ToSet(clients) = {clients[i] : i \in DOMAIN clients}
      /\ \A i \in DOMAIN clients : clients[i] \in Client
  BY <1>4, SeqFacts DEF ListOk
<1>6. CASE call[c].target = Nobody
  <2> DEFINE cl == [id |-> c, identity |-> call[c].identity, granted |-> FALSE, token |-> c]
  <2>1. Persist(Append(clients, cl)) /\ paired' = paired \cup {c} BY <1>6 DEF Mint, Pair
  <2>2. cl \in Client /\ cl.id = c /\ cl.token = c /\ cl.granted = FALSE BY <1>4 DEF Client
  <2> HIDE DEF cl
  <2>3. [token |-> cl.token, id |-> cl.id] \in approved BY <1>4, <1>6, <2>2
  <2>4. PICK other : other = Append(clients, cl) OBVIOUS
  <2>5. /\ ListOk(other, paired', approved) /\ DOMAIN clients \subseteq DOMAIN other
        /\ \A i \in DOMAIN clients : other[i] = clients[i]
        /\ ToSet(other) = ToSet(clients) \cup {cl}
    BY <1>4, <2>1, <2>2, <2>3, <2>4, AppendedIsOk
  <2>6. ~lost => /\ Ids(other) = paired'
                 /\ {x.id : x \in {y \in ToSet(other) : y.granted}} = given'
    <3>1. Ids(other) = Ids(clients) \cup {c} BY <2>2, <2>5 DEF Ids
    <3>2. {y \in ToSet(other) : y.granted} = {y \in ToSet(clients) : y.granted} BY <2>2, <2>5
    <3> QED BY <1>1, <2>1, <3>1, <3>2 DEF StoreInv, PromisesSurvive
  <2>7. paired' \subseteq Calls /\ \A d \in paired' : call'[d].stage \in Late BY <1>3, <1>4, <2>1
  <2> QED BY <1>1, <1>2, <1>3, <1>4, <2>1, <2>4, <2>5, <2>6, <2>7, PersistKeeps
<1>7. CASE call[c].target # Nobody
  <2> DEFINE new(i) == IF clients[i].id = FindId(call[c].identity) THEN [clients[i] EXCEPT !.token = c] ELSE clients[i]
  <2>1. PICK other : other = [i \in DOMAIN clients |-> new(i)] OBVIOUS
  <2>2. Persist(other) /\ paired' = paired BY <1>7, <2>1 DEF Mint, Reattach
  <2>3. FindId(call[c].identity) = call[c].target
    <3>1. PICK i \in DOMAIN clients : First(i, call[c].identity) /\ clients[i].id = call[c].target
      BY <1>1, <1>7 DEF StoreInv, TargetsStand
    <3>2. PICK x : x = call[c].identity OBVIOUS
    <3> QED BY <3>1, <3>2, FirstIsFound
  <2>4. \A i \in DOMAIN clients :
          /\ new(i) \in Client /\ new(i).id = clients[i].id /\ new(i).identity = clients[i].identity
          /\ new(i).granted = clients[i].granted
          /\ new(i).token = (IF clients[i].id = call[c].target THEN c ELSE clients[i].token)
    BY <1>5, <2>3 DEF Client
  <2>5. \A i \in DOMAIN clients : other[i] = new(i) BY <2>1
  <2> HIDE DEF new
  <2>6. \A i \in DOMAIN clients : [token |-> other[i].token, id |-> other[i].id] \in approved
    BY <1>4, <1>7, <2>4, <2>5 DEF ListOk
  <2>7. DOMAIN other = DOMAIN clients /\ other = [i \in DOMAIN clients |-> other[i]] BY <2>1
  <2>8. ListOk(other, paired, approved) BY <1>4, <2>4, <2>5, <2>6, <2>7, ChangedIsOk
  <2>9. ToSet(other) = {other[i] : i \in DOMAIN other} BY <2>8, SeqFacts DEF ListOk
  <2>10. {x.id : x \in {y \in ToSet(other) : y.granted}} = {x.id : x \in {y \in ToSet(clients) : y.granted}}
    <3>1. ASSUME NEW x \in ToSet(other), x.granted
          PROVE  \E y \in ToSet(clients) : y.granted /\ y.id = x.id
      BY <1>5, <2>4, <2>5, <2>7, <2>9, <3>1
    <3>2. ASSUME NEW x \in ToSet(clients), x.granted
          PROVE  \E y \in ToSet(other) : y.granted /\ y.id = x.id
      BY <1>5, <2>4, <2>5, <2>7, <2>9, <3>2
    <3> QED BY <3>1, <3>2
  <2>11. ~lost => {x.id : x \in {y \in ToSet(other) : y.granted}} = given'
    BY <1>1, <2>10 DEF StoreInv, PromisesSurvive
  <2>12. \A i \in DOMAIN clients : other[i].id = clients[i].id /\ other[i].identity = clients[i].identity
    BY <2>4, <2>5
  <2> HIDE DEF new
  <2> QED BY <1>1, <1>2, <1>3, <1>4, <2>2, <2>7, <2>8, <2>11, <2>12, RewriteKeeps
<1> QED BY <1>6, <1>7

--------------------------------------------------------------------------------
(* The callers, the user and the system.                                   *)

LEMMA GrantKeeps ==
    ASSUME StoreInv, NEW id \in Calls, NEW granted \in BOOLEAN, SetGrant(id, granted),
           given' = IF granted THEN given \cup {id} ELSE given \ {id}
    PROVE  StoreInv'
<1> DEFINE new(i) == IF clients[i].id = id THEN [clients[i] EXCEPT !.granted = granted] ELSE clients[i]
<1>1. PICK other : other = [i \in DOMAIN clients |-> new(i)] OBVIOUS
<1>2. /\ id \in Ids(clients) /\ Persist(other) /\ call' = call /\ approved' = approved /\ paired' = paired
      /\ owned' = owned /\ lost' = lost
  BY <1>1 DEF SetGrant, otherVars
<1>3. /\ ListOk(clients, paired, approved) /\ CallsTyped' /\ given \subseteq paired
  BY <1>2 DEF StoreInv, CallsTyped, Bookkept
<1>4. /\ clients \in Seq(Client) /\ ToSet(clients) = {clients[i] : i \in DOMAIN clients}
      /\ Ids(clients) = {clients[i].id : i \in DOMAIN clients}
      /\ \A i \in DOMAIN clients : clients[i] \in Client
  BY <1>3, SeqFacts DEF ListOk
<1>5. \A i \in DOMAIN clients :
        /\ new(i) \in Client /\ new(i).id = clients[i].id /\ new(i).identity = clients[i].identity
        /\ new(i).token = clients[i].token
        /\ new(i).granted = (IF clients[i].id = id THEN granted ELSE clients[i].granted)
  BY <1>4 DEF Client
<1>6. \A i \in DOMAIN clients : other[i] = new(i) BY <1>1
<1> HIDE DEF new
<1>7. DOMAIN other = DOMAIN clients /\ other = [i \in DOMAIN clients |-> other[i]] BY <1>1
<1>8. ListOk(other, paired, approved)
  <2>1. \A i \in DOMAIN clients : [token |-> other[i].token, id |-> other[i].id] \in approved
    BY <1>3, <1>5, <1>6 DEF ListOk
  <2> QED BY <1>3, <1>5, <1>6, <1>7, <2>1, ChangedIsOk
<1>9. ToSet(other) = {other[i] : i \in DOMAIN other} BY <1>8, SeqFacts DEF ListOk
<1>10. id \in paired BY <1>2, <1>3, <1>4 DEF ListOk
<1>11. given' \subseteq paired BY <1>3, <1>10
<1> DEFINE Granted(list) == {x.id : x \in {y \in ToSet(list) : y.granted}}
<1>12. Granted(other) = IF granted THEN Granted(clients) \cup {id} ELSE Granted(clients) \ {id}
  <2>1. \A x : x \in Granted(other) <=> \E i \in DOMAIN clients : other[i].granted /\ other[i].id = x
    BY <1>7, <1>9
  <2>2. \A x : x \in Granted(clients) <=> \E i \in DOMAIN clients : clients[i].granted /\ clients[i].id = x
    BY <1>4
  <2>3. \E i \in DOMAIN clients : clients[i].id = id BY <1>2, <1>4
  <2> HIDE DEF Granted
  <2>4. \A x : x # id => (x \in Granted(other) <=> x \in Granted(clients))
    BY <1>5, <1>6, <2>1, <2>2
  <2>5. id \in Granted(other) <=> granted BY <1>5, <1>6, <2>1, <2>3
  <2> QED BY <2>4, <2>5
<1>13. ~lost => Granted(other) = given' BY <1>12 DEF StoreInv, PromisesSurvive
<1> QED BY <1>2, <1>3, <1>5, <1>6, <1>7, <1>8, <1>11, <1>13, RewriteKeeps

\* Nothing of the store or of the calls moves.
LEMMA RestKeeps ==
    ASSUME StoreInv, UNCHANGED storeVars, UNCHANGED <<call, approved, lost>>, owned' \in [Calls -> 0..MaxAccounts],
           {id \in Calls : owned'[id] > 0} \subseteq paired
    PROVE  StoreInv'
<1>1. /\ clients' = clients /\ disk' = disk /\ paired' = paired /\ given' = given /\ unsaved' = unsaved
      /\ call' = call /\ approved' = approved /\ lost' = lost
  BY DEF storeVars
<1>2. CallsTyped' /\ TargetsStand' /\ ApprovedStands'
  BY <1>1 DEF StoreInv, CallsTyped, TargetsStand, ApprovedStands, First
<1>3. Bookkept' BY <1>1 DEF StoreInv, Bookkept
<1>4. ListOk(clients, paired, approved)' /\ ListOk(disk, paired, approved)' BY <1>1 DEF StoreInv
<1>5. PromisesSurvive' BY <1>1 DEF StoreInv, PromisesSurvive, Ids
<1> QED BY <1>2, <1>3, <1>4, <1>5 DEF StoreInv

LEMMA CreateAccountKeeps == ASSUME StoreInv, NEW c \in Calls, CreateAccount(c) PROVE StoreInv'
<1>1. PICK cl \in ToSet(clients) : owned[cl.id] < MaxAccounts /\ owned' = [owned EXCEPT ![cl.id] = @ + 1]
  BY DEF CreateAccount
<1>2. clients \in Seq(Client) /\ ListOk(clients, paired, approved) BY DEF StoreInv, ListOk
<1>3. cl.id \in paired /\ cl.id \in Calls
  <2>1. PICK i \in DOMAIN clients : cl = clients[i]
    <3>1. ToSet(clients) = {clients[i] : i \in DOMAIN clients} BY <1>2, SeqFacts
    <3> QED BY <3>1
  <2>2. clients[i].id \in paired BY <1>2 DEF ListOk
  <2> QED BY <2>1, <2>2 DEF StoreInv, Bookkept
<1>4. owned' \in [Calls -> 0..MaxAccounts] /\ {id \in Calls : owned'[id] > 0} \subseteq paired
  BY <1>1, <1>3, ConstantsAssumption DEF StoreInv, Bookkept
<1> QED BY <1>4, RestKeeps DEF CreateAccount

LEMMA LockKeeps == ASSUME StoreInv, LockOrUnlock \/ UNCHANGED vars PROVE StoreInv'
<1>1. owned' = owned /\ UNCHANGED storeVars /\ UNCHANGED <<call, approved, lost>>
  BY DEF LockOrUnlock, vars, storeVars
<1> QED BY <1>1, RestKeeps DEF StoreInv, Bookkept

LEMMA RestartKeeps == ASSUME StoreInv, Restart PROVE StoreInv'
<1>1. /\ clients' \in {disk, << >>} /\ unsaved' = (clients' # disk) /\ lost' = (lost \/ unsaved \/ unsaved')
      /\ call' = [c \in Calls |-> IF call[c].stage \in InFlight THEN [call[c] EXCEPT !.stage = "over"] ELSE call[c]]
      /\ disk' = disk /\ owned' = owned /\ approved' = approved /\ paired' = paired /\ given' = given
  BY DEF Restart
<1>2. CallsTyped' BY <1>1 DEF StoreInv, CallsTyped
<1>3. \A c \in Calls : /\ call'[c].stage \notin InFlight
                       /\ call[c].stage \in Late => call'[c].stage \in Late
  BY <1>1 DEF StoreInv, CallsTyped, Late, InFlight
<1>4. TargetsStand' /\ ApprovedStands' BY <1>3 DEF TargetsStand, ApprovedStands, InFlight
<1>5. Bookkept' BY <1>1, <1>3 DEF StoreInv, Bookkept
<1>6. ListOk(<< >>, paired, approved) BY DEF ListOk
<1>7. ListOk(clients, paired, approved)' /\ ListOk(disk, paired, approved)' BY <1>1, <1>6 DEF StoreInv
<1>8. PromisesSurvive'
  <2>1. ASSUME ~lost' PROVE clients' = clients BY <1>1, <2>1 DEF StoreInv, Bookkept
  <2> QED BY <1>1, <2>1 DEF StoreInv, PromisesSurvive, Ids
<1> QED BY <1>2, <1>4, <1>5, <1>7, <1>8 DEF StoreInv

\* No token comes back: a mint adds its call's own, which no call that is done can have, and a grant adds none.
LEMMA MintedTokens ==
    ASSUME StoreInv, NEW d \in Calls, Mint(d), NEW c \in Calls, call[c].stage \in Late,
           \A x \in ToSet(clients) : x.token # c
    PROVE  \A x \in ToSet(clients)' : x.token # c
<1>1. c # d BY DEF Mint, Late
<1>2. clients \in Seq(Client) BY DEF StoreInv, ListOk
<1>3. ToSet(clients) = {clients[i] : i \in DOMAIN clients} /\ ToSet(clients)' = {clients'[i] : i \in DOMAIN clients'}
  BY DEF ToSet
<1>4. CASE call[d].target = Nobody
  <2> DEFINE cl == [id |-> d, identity |-> call[d].identity, granted |-> FALSE, token |-> d]
  <2>1. clients' = Append(clients, cl) /\ cl.token = d BY <1>4 DEF Mint, Pair, Persist
  <2> HIDE DEF cl
  <2>2. \A i \in DOMAIN clients' : clients'[i] = cl \/ (i \in DOMAIN clients /\ clients'[i] = clients[i])
    BY <1>2, <2>1
  <2> QED BY <1>1, <1>3, <2>1, <2>2
<1>5. CASE call[d].target # Nobody
  <2>1. clients' = [i \in DOMAIN clients |-> IF clients[i].id = FindId(call[d].identity)
                                              THEN [clients[i] EXCEPT !.token = d] ELSE clients[i]]
    BY <1>5 DEF Mint, Reattach, Persist
  <2>2. \A i \in DOMAIN clients : clients[i] \in Client BY <1>2
  <2>3. \A i \in DOMAIN clients : clients'[i].token \in {d, clients[i].token} BY <2>1, <2>2 DEF Client
  <2>4. DOMAIN clients' = DOMAIN clients BY <2>1
  <2>5. \A i \in DOMAIN clients : clients[i].token # c BY <1>3
  <2>6. \A i \in DOMAIN clients' : clients'[i].token # c BY <1>1, <2>3, <2>4, <2>5
  <2> QED BY <1>3, <2>6
<1> QED BY <1>4, <1>5

LEMMA GrantedTokens ==
    ASSUME StoreInv, NEW id, NEW granted, SetGrant(id, granted), NEW c, \A x \in ToSet(clients) : x.token # c
    PROVE  \A x \in ToSet(clients)' : x.token # c
<1>1. clients \in Seq(Client) BY DEF StoreInv, ListOk
<1>2. ToSet(clients) = {clients[i] : i \in DOMAIN clients} /\ ToSet(clients)' = {clients'[i] : i \in DOMAIN clients'}
  BY DEF ToSet
<1>3. clients' = [i \in DOMAIN clients |->
                    IF clients[i].id = id THEN [clients[i] EXCEPT !.granted = granted] ELSE clients[i]]
  BY DEF SetGrant, Persist
<1>4. \A i \in DOMAIN clients : clients[i] \in Client BY <1>1
<1>5. \A i \in DOMAIN clients : clients'[i].token = clients[i].token BY <1>3, <1>4 DEF Client
<1>6. DOMAIN clients' = DOMAIN clients BY <1>3
<1>7. \A i \in DOMAIN clients : clients[i].token # c BY <1>2
<1>8. \A i \in DOMAIN clients' : clients'[i].token # c BY <1>5, <1>6, <1>7
<1> QED BY <1>2, <1>8

--------------------------------------------------------------------------------
(* The theorems.                                                           *)

LEMMA InitInv == Init => StoreInv
<1> SUFFICES ASSUME Init PROVE StoreInv OBVIOUS
<1>1. CallsTyped BY ConstantsAssumption DEF Init, CallsTyped, Idle
<1>2. TargetsStand /\ ApprovedStands BY DEF Init, TargetsStand, ApprovedStands, Idle
<1>3. Bookkept
  <2>1. owned = [c \in Calls |-> 0] /\ owned \in [Calls -> 0..MaxAccounts] BY ConstantsAssumption DEF Init
  <2>2. {id \in Calls : owned[id] > 0} = {} BY <2>1
  <2>3. approved = {} /\ paired = {} /\ given = {} /\ unsaved = FALSE /\ disk = clients BY DEF Init
  <2> QED BY <2>1, <2>2, <2>3 DEF Bookkept
<1>4. ListOk(clients, paired, approved) /\ ListOk(disk, paired, approved) BY DEF Init, ListOk
<1>5. PromisesSurvive
  <2>1. ToSet(clients) = {} BY DEF Init, ToSet
  <2> QED BY <2>1, ConstantsAssumption DEF Init, PromisesSurvive, Ids
<1> QED BY <1>1, <1>2, <1>3, <1>4, <1>5 DEF StoreInv

LEMMA NextKeeps == StoreInv /\ [Next]_vars => StoreInv'
<1>1. ASSUME StoreInv, NEW id \in Calls, GrantPermission(id) PROVE StoreInv'
  BY <1>1, GrantKeeps DEF GrantPermission
<1>2. ASSUME StoreInv, NEW id \in Calls, RevokePermission(id) PROVE StoreInv'
  BY <1>2, GrantKeeps DEF RevokePermission
<1> QED
  BY <1>1, <1>2, ArriveKeeps, CountKeeps, ApproveKeeps, EndKeeps, MintKeeps, CreateAccountKeeps, LockKeeps, RestartKeeps
  DEF Next

\* One entry per id in memory and on disk, targets that stand, and a file that is the memory's copy unless a write
\* failed (auth.rs).
THEOREM StoreInvariant == Spec => []StoreInv
BY InitInv, NextKeeps, PTL DEF Spec

\* A token opens the client that the user's prompt named, whatever namesakes were paired meanwhile and whatever was
\* written and read again (handle_pairing, reattach, verify).
THEOREM TokensHaveConsent == Spec => []AccessByConsent
<1>1. ASSUME StoreInv, NEW cl \in ToSet(clients) \cup ToSet(disk)
      PROVE  [token |-> cl.token, id |-> cl.id] \in approved
  <2>1. ListOk(clients, paired, approved) /\ ListOk(disk, paired, approved) BY <1>1 DEF StoreInv
  <2> QED BY <1>1, <2>1, SeqFacts DEF ListOk
<1>2. StoreInv => AccessByConsent BY <1>1 DEF AccessByConsent
<1> QED BY <1>2, StoreInvariant, PTL

\* Types, one entry per client, and what the store acknowledged is in it unless a failed write was lost by a restart
\* (persist, open).
THEOREM StoreConsistent == Spec => []Consistent
<1>1. ASSUME StoreInv PROVE Consistent
  <2>1. \A list \in {clients, disk} :
          /\ \A i \in DOMAIN list : list[i] \in Client
          /\ \A i, j \in DOMAIN list : list[i].id = list[j].id => i = j
    BY <1>1, SeqFacts DEF StoreInv, ListOk
  <2> QED BY <1>1, <2>1 DEF Consistent, TypeOK, StoreInv, CallsTyped, Bookkept, Client
<1> QED BY <1>1, StoreInvariant, PTL

\* A token that was replaced, or never came to anything, opens nothing again, over restarts too, unless the file
\* misses its replacement (reattach).
THEOREM ReplacedTokensDie == Spec => ReplacedStaysDead
<1> DEFINE Dead(c) == call[c].stage \in {"minted", "holds", "over"} /\ ~Valid(c)
<1>1. ASSUME StoreInv, [Next]_vars, NEW c \in Calls, Dead(c), ~unsaved PROVE ~Valid(c)'
  <2>1. \A x \in ToSet(clients) : x.token # c BY <1>1 DEF Valid
  <2>2. ASSUME clients' = clients PROVE ~Valid(c)' BY <2>1, <2>2 DEF Valid
  <2>3. ASSUME NEW d \in Calls, Mint(d) PROVE ~Valid(c)'
    <3>1. call[c].stage \in Late BY <1>1 DEF Late
    <3>2. \A x \in ToSet(clients)' : x.token # c BY <1>1, <2>1, <2>3, <3>1, MintedTokens
    <3> QED BY <3>2 DEF Valid
  <2>4. ASSUME NEW id \in Calls, NEW granted \in BOOLEAN, SetGrant(id, granted) PROVE ~Valid(c)'
    BY <1>1, <2>1, <2>4, GrantedTokens DEF Valid
  <2>5. ASSUME Restart PROVE ~Valid(c)'
    <3>1. disk = clients BY <1>1 DEF StoreInv, Bookkept
    <3>2. clients' = clients \/ clients' = << >> BY <2>5, <3>1 DEF Restart
    <3>3. ASSUME clients' = << >> PROVE ToSet(clients)' = {} BY <3>3 DEF ToSet
    <3> QED BY <2>2, <3>2, <3>3 DEF Valid
  <2> QED
    BY <1>1, <2>2, <2>3, <2>4, <2>5
    DEF Next, vars, Arrive, Count, Approve, End, Deliver, CreateAccount, GrantPermission, RevokePermission, LockOrUnlock,
        storeVars
<1>2. StoreInv /\ [Next]_vars => [\A c \in Calls : Dead(c) /\ ~unsaved => ~Valid(c)']_clients BY <1>1
<1> QED BY <1>2, StoreInvariant, PTL DEF Spec, ReplacedStaysDead
================================================================================
