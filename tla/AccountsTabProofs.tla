---------------------------- MODULE AccountsTabProofs ----------------------------
(***************************************************************************)
(* Theorems about AccountsTab, for any accounts, networks and presses.     *)
(***************************************************************************)
EXTENDS AccountsTab, FiniteSetTheorems, TLAPS

Page == [up : BOOLEAN, deployed : [Accounts -> {"unknown", "yes", "no"}], pending : SUBSET Accounts,
         deploying : Accounts \cup {Nobody}]
Asked == [acct : Accounts, clears : BOOLEAN, answer : {"none", "yes", "no"}, net : Networks \cup {Nobody}]
AtRest == {"idle", "over"}

Typed ==
    /\ active \in Networks /\ net \in Networks /\ status \subseteq Networks
    /\ there \subseteq Places /\ sent \in [Places -> Nat] /\ wallet \subseteq Places
    /\ page \in Page /\ asks \subseteq Asked
    /\ call \in [Clicks -> [at : AtRest \cup {"queued", "send", "ok", "failed"}, acct : Accounts \cup {Nobody},
                            net : Networks \cup {Nobody}, mine : BOOLEAN]]
    /\ \A c \in Clicks : /\ Running(c) => call[c].acct \in Accounts
                         /\ call[c].at = "send" => call[c].net \in Networks
    /\ crossed \subseteq Accounts

\* A closed page has asked nothing and gets no deploy's answer, and the session mutex has one holder.
Guarded ==
    /\ ~page.up => asks = {} /\ \A c \in Clicks : call[c].mine = FALSE
    /\ \A c, d \in Clicks : call[c].at = "send" /\ call[d].at = "send" => c = d

\* As long as the network stays: what a deploy has been estimated for is the session's network, what it reports as
\* taken was broadcast there, and every answer that says "deployed" on its way to the page is true.
OnThisNetwork ==
    ~moved =>
        /\ \A c \in Clicks : call[c].at = "send" => call[c].net = active
        /\ \A c \in Clicks : call[c].at = "ok" => [net |-> active, acct |-> call[c].acct] \in wallet
        /\ \A q \in asks : q.answer = "yes" => [net |-> active, acct |-> q.acct] \in there

Shown ==
    ~moved =>
        /\ \A a \in page.pending : [net |-> active, acct |-> a] \in wallet
        /\ \A a \in Accounts : page.deployed[a] = "yes" => [net |-> active, acct |-> a] \in there

TabInv == Typed /\ Guarded /\ OnThisNetwork /\ Shown

--------------------------------------------------------------------------------
LEMMA MarkedAreAccounts == ASSUME Typed PROVE Marked \subseteq Accounts
BY DEF Typed, Marked, Page

LEMMA FetchFacts == FetchStatuses \subseteq Asked /\ \A q \in FetchStatuses : q.answer = "none"
<1>1. \A a \in Accounts : Ask(a, TRUE) \in Asked /\ Ask(a, TRUE).answer = "none" BY DEF Ask, Asked
<1> QED BY <1>1 DEF FetchStatuses

LEMMA InitInv == Init => TabInv
<1> SUFFICES ASSUME Init PROVE TabInv OBVIOUS
<1>1. active \in Networks /\ (CHOOSE a \in Accounts : TRUE) \in Accounts BY ConstantsAssumption DEF Init
<1>2. Typed
  <2>1. there \subseteq Places /\ sent \in [Places -> Nat] BY <1>1 DEF Init, Places
  <2>2. page \in Page BY DEF Init, Fresh, Page
  <2>3. asks \subseteq Asked BY FetchFacts DEF Init
  <2>4. Idle \in [at : AtRest, acct : {Nobody}, net : {Nobody}, mine : BOOLEAN] BY DEF Idle, AtRest
  <2>5. call = [c \in Clicks |-> Idle] /\ Idle.at = "idle" BY DEF Init, Idle
  <2> QED BY <1>1, <2>1, <2>2, <2>3, <2>4, <2>5 DEF Init, Typed, AtRest, Running
<1>3. Guarded BY DEF Init, Guarded, Fresh, Idle
<1>4. OnThisNetwork BY DEF Init, OnThisNetwork, Idle, FetchStatuses, Ask
<1>5. Shown BY DEF Init, Shown, Fresh
<1> QED BY <1>2, <1>3, <1>4, <1>5 DEF TabInv

\* What the page hears: nothing of it moves the network, a call or the chains.
LEMMA PageKeeps ==
    ASSUME TabInv, UNCHANGED <<active, world, call, wallet, moved>>,
           net' \in Networks, status' \subseteq Networks, page' \in Page, asks' \subseteq Asked, crossed' \subseteq Accounts,
           page.up => page'.up, ~page'.up => asks' = {},
           \A q \in asks' : q.answer = "yes" => q \in asks \/ [net |-> active, acct |-> q.acct] \in there,
           page'.pending \subseteq page.pending,
           \A a \in Accounts : page'.deployed[a] = "yes" =>
               page.deployed[a] = "yes" \/ moved \/ [net |-> active, acct |-> a] \in there
    PROVE  TabInv'
<1> USE DEF TabInv, world
<1>1. Typed' BY DEF Typed, Running
<1>2. Guarded' BY DEF Guarded
<1>3. OnThisNetwork' BY DEF OnThisNetwork
<1>4. Shown' BY DEF Shown
<1> QED BY <1>1, <1>2, <1>3, <1>4

\* What the page does on its own, what it hears of the network, and what it is told of an account.
LEMMA StatusKeeps == ASSUME TabInv, PollStatus \/ StatusArrives \/ Refresh PROVE TabInv'
<1>1. CASE PollStatus
  BY <1>1, PageKeeps DEF PollStatus, TabInv, Typed, Guarded, history, world
<1>2. CASE Refresh
  <2>1. FetchStatuses \subseteq Asked /\ \A q \in FetchStatuses : q.answer = "none" BY FetchFacts
  <2> QED BY <1>2, <2>1, PageKeeps DEF Refresh, TabInv, Typed, Guarded, history, world
<1>3. CASE StatusArrives
  <2>1. FetchStatuses \subseteq Asked /\ \A q \in FetchStatuses : q.answer = "none" BY FetchFacts
  <2>2. PICK n \in status : /\ status' = status \ {n} /\ net' = n
                             /\ IF n # net /\ page.up
                                THEN /\ page' = [page EXCEPT !.deployed = Fresh.deployed]
                                     /\ asks' = asks \cup FetchStatuses
                                ELSE UNCHANGED <<page, asks>>
    BY <1>3 DEF StatusArrives
  <2>3. CASE n # net /\ page.up
    <3>1. page' \in Page /\ page'.up /\ page'.pending = page.pending /\ \A a \in Accounts : page'.deployed[a] = "unknown"
      BY <2>2, <2>3 DEF TabInv, Typed, Page, Fresh
    <3> QED BY <1>3, <2>1, <2>2, <2>3, <3>1, PageKeeps DEF StatusArrives, TabInv, Typed, Guarded, history, world
  <2>4. CASE ~(n # net /\ page.up)
    BY <1>3, <2>2, <2>4, PageKeeps DEF StatusArrives, TabInv, Typed, Guarded, history, world
  <2> QED BY <2>3, <2>4
<1> QED BY <1>1, <1>2, <1>3

LEMMA DeployStatusKeeps == ASSUME TabInv, DeployStatus PROVE TabInv'
<1>1. PICK q \in asks : /\ q.answer = "none"
                        /\ \/ asks' = Told(q, Truth(q.acct)) /\ UNCHANGED troubles
                           \/ Trouble /\ asks' \in {asks \ {q}, Told(q, "no")}
  BY DEF DeployStatus
<1>2. q \in Asked BY DEF TabInv, Typed
<1>3. \A b \in {"yes", "no"} : /\ Told(q, b) \subseteq Asked
                               /\ \A r \in Told(q, b) : r \in asks \/ (r.acct = q.acct /\ r.answer = b)
  BY <1>2 DEF Told, Asked, TabInv, Typed
<1>4. /\ Truth(q.acct) \in {"yes", "no"}
      /\ Truth(q.acct) = "yes" => [net |-> active, acct |-> q.acct] \in there
  BY DEF Truth
<1>5. \E b \in {"yes", "no"} : /\ b = "yes" => [net |-> active, acct |-> q.acct] \in there
                               /\ asks' \in {Told(q, b), asks \ {q}}
  BY <1>1, <1>4
<1>6. asks' \subseteq Asked /\ \A r \in asks' : r.answer = "yes" => r \in asks \/ [net |-> active, acct |-> r.acct] \in there
  BY <1>3, <1>5 DEF TabInv, Typed
<1>7. page.up BY <1>1 DEF TabInv, Guarded
<1> QED BY <1>6, <1>7, PageKeeps DEF DeployStatus, TabInv, Typed, world

LEMMA AnswerKeeps == ASSUME TabInv, AnswerArrives PROVE TabInv'
<1>1. PICK q \in asks :
         /\ q.answer # "none"
         /\ asks' = asks \ {q}
         /\ page' = [page EXCEPT !.deployed[q.acct] = q.answer,
                                 !.pending = IF q.answer = "yes" /\ q.clears THEN @ \ {q.acct} ELSE @]
         /\ Cross({a \in Marked : q.answer = "yes" /\ q.clears /\ a = q.acct /\ q.net # active})
  BY DEF AnswerArrives
<1>2. q \in Asked BY DEF TabInv, Typed
<1>3. crossed' \subseteq Accounts BY <1>1, MarkedAreAccounts DEF Cross, TabInv, Typed
<1>4. /\ page' \in Page /\ page'.up = page.up /\ page'.pending \subseteq page.pending
      /\ page'.deployed = [page.deployed EXCEPT ![q.acct] = q.answer]
  BY <1>1, <1>2 DEF TabInv, Typed, Page, Asked
<1>5. page.up BY <1>1 DEF TabInv, Guarded
<1>6. \A a \in Accounts : page'.deployed[a] = "yes" =>
         page.deployed[a] = "yes" \/ moved \/ [net |-> active, acct |-> a] \in there
  BY <1>2, <1>4 DEF TabInv, Typed, Page, Asked, OnThisNetwork
<1> QED BY <1>1, <1>3, <1>4, <1>5, <1>6, PageKeeps DEF AnswerArrives, TabInv, Typed, world

\* Another tab and back: what the page forgets it cannot say wrong.
LEMMA OpenKeeps == ASSUME TabInv, Leave \/ Open PROVE TabInv'
<1>1. CASE Open
  <2>1. FetchStatuses \subseteq Asked /\ \A q \in FetchStatuses : q.answer = "none" BY FetchFacts
  <2>2. page' \in Page /\ page'.up /\ page'.pending = {} /\ \A a \in Accounts : page'.deployed[a] = "unknown"
    BY <1>1 DEF Open, Fresh, Page
  <2> QED BY <1>1, <2>1, <2>2, PageKeeps DEF Open, TabInv, Typed, history, world
<1>2. CASE Leave
  <2> USE <1>2 DEF Leave
  <2>1. page' \in Page /\ page'.pending = {} /\ \A a \in Accounts : page'.deployed[a] = "unknown"
    BY DEF Closed, Fresh, Page
  <2>2. crossed' \subseteq Accounts BY MarkedAreAccounts DEF Cross, TabInv, Typed
  <2>3. /\ \A c \in Clicks : /\ call'[c].at = call[c].at /\ call'[c].acct = call[c].acct
                              /\ call'[c].net = call[c].net /\ call'[c].mine = FALSE
        /\ call' \in [Clicks -> [at : AtRest \cup {"queued", "send", "ok", "failed"}, acct : Accounts \cup {Nobody},
                                 net : Networks \cup {Nobody}, mine : BOOLEAN]]
    <3> DEFINE Call == [at : AtRest \cup {"queued", "send", "ok", "failed"}, acct : Accounts \cup {Nobody},
                        net : Networks \cup {Nobody}, mine : BOOLEAN]
    <3>1. call \in [Clicks -> Call] BY DEF TabInv, Typed
    <3>2. call' = [c \in Clicks |-> [call[c] EXCEPT !.mine = FALSE]] OBVIOUS
    <3>3. ASSUME NEW c \in Clicks
          PROVE  /\ call'[c] \in Call
                 /\ call'[c].at = call[c].at /\ call'[c].acct = call[c].acct
                 /\ call'[c].net = call[c].net /\ call'[c].mine = FALSE
      <4>1. call[c] \in Call /\ call'[c] = [call[c] EXCEPT !.mine = FALSE] BY <3>1, <3>2
      <4> HIDE <1>2 DEF Leave
      <4> QED BY <4>1
    <3> HIDE DEF Call
    <3>4. call' \in [Clicks -> Call] BY <3>2, <3>3
    <3> QED BY <3>3, <3>4 DEF Call
  <2>4. Typed' BY <2>1, <2>2, <2>3 DEF TabInv, Typed, Running, world
  <2>5. Guarded' BY <2>3 DEF TabInv, Guarded
  <2>6. OnThisNetwork'
    <3>1. OnThisNetwork /\ asks' = {} /\ UNCHANGED <<active, there, wallet, moved>> BY DEF TabInv, world
    <3>2. \A c \in Clicks : call'[c].at = call[c].at /\ call'[c].acct = call[c].acct /\ call'[c].net = call[c].net
      BY <2>3
    <3> HIDE <1>2 DEF Leave
    <3> QED BY <3>1, <3>2 DEF OnThisNetwork
  <2>7. Shown' BY <2>1 DEF TabInv, Shown, world
  <2> QED BY <2>4, <2>5, <2>6, <2>7 DEF TabInv
<1> QED BY <1>1, <1>2

--------------------------------------------------------------------------------
\* A step of a deploy touches its own call, adds to what was broadcast, and may take the page's marker.
LEMMA CallKeeps ==
    ASSUME TabInv, NEW c \in Clicks, UNCHANGED <<active, there, net, status, moved>>,
           NEW k \in [at : AtRest \cup {"queued", "send", "ok", "failed"}, acct : Accounts \cup {Nobody},
                      net : Networks \cup {Nobody}, mine : BOOLEAN],
           call' = [call EXCEPT ![c] = k],
           k.at \notin AtRest => k.acct \in Accounts,
           k.at = "send" => ~Held /\ k.net = active,
           k.at = "ok" /\ ~moved => [net |-> active, acct |-> k.acct] \in wallet',
           wallet \subseteq wallet', wallet' \subseteq Places, sent' \in [Places -> Nat], crossed' \subseteq Accounts,
           page' \in Page, asks' \subseteq Asked, page'.up = page.up, page'.deployed = page.deployed,
           k.mine = FALSE \/ page.up, asks' = {} \/ page.up,
           \A q \in asks' : q \in asks \/ q.answer = "none",
           ~moved => \A a \in page'.pending : a \in page.pending \/ [net |-> active, acct |-> a] \in wallet
    PROVE  TabInv'
<1> USE DEF TabInv
<1>1. call' \in [Clicks -> [at : AtRest \cup {"queued", "send", "ok", "failed"}, acct : Accounts \cup {Nobody},
                            net : Networks \cup {Nobody}, mine : BOOLEAN]]
      /\ call'[c] = k /\ \A d \in Clicks \ {c} : call'[d] = call[d]
  BY DEF Typed
<1>2. Typed' BY <1>1 DEF Typed, Running, AtRest
<1>3. Guarded' BY <1>1 DEF Guarded, Held
<1>4. OnThisNetwork' BY <1>1 DEF OnThisNetwork
<1>5. Shown' BY DEF Shown
<1> QED BY <1>2, <1>3, <1>4, <1>5

LEMMA DeployKeeps == ASSUME TabInv, NEW c \in Clicks, NEW a \in Accounts, Deploy(c, a) PROVE TabInv'
<1> DEFINE k == [Idle EXCEPT !.at = "queued", !.acct = a, !.mine = TRUE]
<1>1. /\ k.at = "queued" /\ k.acct = a
      /\ k \in [at : {"queued"}, acct : Accounts, net : {Nobody}, mine : BOOLEAN]
  BY DEF Idle
<1>2. call' = [call EXCEPT ![c] = k] BY DEF Deploy
<1>3. /\ page' \in Page /\ page'.up = page.up /\ page'.deployed = page.deployed /\ page'.pending = page.pending
  BY DEF Deploy, TabInv, Typed, Page
<1>4. crossed' \subseteq Accounts BY DEF Deploy, Cross, TabInv, Typed, Page
<1> HIDE DEF k
<1>5. page.up /\ UNCHANGED <<active, there, sent, net, status, moved, asks, wallet>> BY DEF Deploy, world
<1> QED BY <1>1, <1>2, <1>3, <1>4, <1>5, CallKeeps DEF AtRest, TabInv, Typed, Guarded

LEMMA EndFacts ==
    ASSUME TabInv, NEW c \in Clicks, call[c].at \notin AtRest, NEW at \in {"ok", "failed"}, EndAs(c, at)
    PROVE  \E k \in [at : {at}, acct : {call[c].acct}, net : Networks \cup {Nobody}, mine : {call[c].mine}] :
               call' = [call EXCEPT ![c] = k] /\ (k.mine = FALSE \/ page.up)
<1> DEFINE k == [call[c] EXCEPT !.at = at]
<1>1. k \in [at : {at}, acct : {call[c].acct}, net : Networks \cup {Nobody}, mine : {call[c].mine}]
  BY DEF TabInv, Typed
<1>2. call' = [call EXCEPT ![c] = k] BY DEF EndAs, TabInv, Typed
<1>3. k.mine = FALSE \/ page.up BY <1>1 DEF TabInv, Guarded
<1> QED BY <1>1, <1>2, <1>3

LEMMA TakeKeeps == ASSUME TabInv, NEW c \in Clicks, TakeSession(c) PROVE TabInv'
<1>1. PICK told \in {"yes", "no"} :
         IF told = "yes" THEN EndAs(c, "failed")
         ELSE call' = [call EXCEPT ![c].at = "send", ![c].net = active]
  BY DEF TakeSession
<1>2. call[c].at = "queued" /\ ~Held BY DEF TakeSession
<1>3. call[c].acct \in Accounts BY <1>2 DEF TabInv, Typed, Running
<1>4. UNCHANGED <<active, there, sent, net, status, moved, page, asks, wallet, crossed>> BY DEF TakeSession, world
<1>5. CASE EndAs(c, "failed")
  <2>1. PICK k \in [at : {"failed"}, acct : {call[c].acct}, net : Networks \cup {Nobody}, mine : {call[c].mine}] :
           call' = [call EXCEPT ![c] = k] /\ (k.mine = FALSE \/ page.up)
    BY <1>2, <1>5, EndFacts DEF AtRest
  <2> QED BY <1>3, <1>4, <2>1, CallKeeps DEF AtRest, TabInv, Typed, Guarded
<1>6. CASE call' = [call EXCEPT ![c].at = "send", ![c].net = active]
  <2> DEFINE k == [call[c] EXCEPT !.at = "send", !.net = active]
  <2>1. k \in [at : {"send"}, acct : {call[c].acct}, net : {active}, mine : {call[c].mine}] BY DEF TabInv, Typed
  <2>2. call' = [call EXCEPT ![c] = k] BY <1>6 DEF TabInv, Typed
  <2>3. call[c].mine = FALSE \/ page.up BY DEF TabInv, Guarded
  <2> HIDE DEF k
  <2> QED BY <1>2, <1>3, <1>4, <2>1, <2>2, <2>3, CallKeeps DEF AtRest, TabInv, Typed, Guarded
<1> QED BY <1>1, <1>5, <1>6

LEMMA BroadcastKeeps == ASSUME TabInv, NEW c \in Clicks, Broadcast(c) PROVE TabInv'
<1>1. call[c].at = "send" BY DEF Broadcast
<1>2. call[c].acct \in Accounts BY <1>1 DEF TabInv, Typed, Running
<1>3. UNCHANGED <<active, there, net, status, moved, page, asks>> BY DEF Broadcast
<1>4. CASE EndAs(c, "failed") /\ UNCHANGED <<sent, wallet, crossed>>
  <2>1. PICK k \in [at : {"failed"}, acct : {call[c].acct}, net : Networks \cup {Nobody}, mine : {call[c].mine}] :
           call' = [call EXCEPT ![c] = k] /\ (k.mine = FALSE \/ page.up)
    BY <1>1, <1>4, EndFacts DEF AtRest
  <2> QED BY <1>2, <1>3, <1>4, <2>1, CallKeeps DEF AtRest, TabInv, Typed, Guarded
<1>5. CASE /\ sent' = [sent EXCEPT ![Place(c)] = @ + 1] /\ wallet' = wallet \cup {Place(c)}
           /\ \/ EndAs(c, "ok") /\ UNCHANGED crossed
              \/ EndAs(c, "failed") /\ Cross({call[c].acct})
  <2>0. call[c] \in [at : {"send"}, acct : Accounts, net : Networks, mine : BOOLEAN] BY <1>1, <1>2 DEF TabInv, Typed
  <2>2. ~moved => Place(c) = [net |-> active, acct |-> call[c].acct] BY <1>1 DEF Place, TabInv, OnThisNetwork
  <2>3. Place(c) \in Places BY <2>0 DEF Place, Places
  <2>1. sent' \in [Places -> Nat] BY <1>5, <2>3 DEF TabInv, Typed
  <2>4. wallet' \subseteq Places BY <1>5, <2>3 DEF TabInv, Typed
  <2>5. crossed' \subseteq Accounts BY <1>2, <1>5 DEF Cross, TabInv, Typed
  <2>6. ~moved => [net |-> active, acct |-> call[c].acct] \in wallet' BY <1>5, <2>2
  <2>7. \A at \in {"ok", "failed"} : EndAs(c, at) => TabInv'
    <3> TAKE at \in {"ok", "failed"}
    <3> HAVE EndAs(c, at)
    <3>1. PICK k \in [at : {at}, acct : {call[c].acct}, net : Networks \cup {Nobody}, mine : {call[c].mine}] :
             call' = [call EXCEPT ![c] = k] /\ (k.mine = FALSE \/ page.up)
      BY <1>1, EndFacts DEF AtRest
    <3> QED BY <1>2, <1>3, <1>5, <2>1, <2>4, <2>5, <2>6, <3>1, CallKeeps DEF AtRest, TabInv, Typed, Guarded
  <2> QED BY <1>5, <2>7
<1> QED BY <1>4, <1>5 DEF Broadcast

\* Only a deploy the node has taken is marked.
LEMMA ReturnKeeps == ASSUME TabInv, NEW c \in Clicks, Deployed(c) \/ DeployFailed(c) PROVE TabInv'
<1>1. PICK marked \in SUBSET (IF call[c].at = "ok" THEN {call[c].acct} ELSE {}), clears \in BOOLEAN :
         Return(c, marked, {Ask(call[c].acct, clears)})
  BY DEF Deployed, DeployFailed
<1>2. call[c].at \in {"ok", "failed"} BY DEF Deployed, DeployFailed
<1>3. call[c].acct \in Accounts BY <1>2 DEF TabInv, Typed, Running
<1> DEFINE q == Ask(call[c].acct, clears)
           k == [Idle EXCEPT !.at = "over"]
<1>4. q \in Asked /\ q.answer = "none" BY <1>3 DEF Ask, Asked
<1>5. k.at = "over" /\ k \in [at : {"over"}, acct : {Nobody}, net : {Nobody}, mine : {FALSE}] BY DEF Idle
<1>6. marked \subseteq Accounts /\ (~moved => \A a \in marked : [net |-> active, acct |-> a] \in wallet)
  BY <1>3 DEF TabInv, OnThisNetwork
<1>7. /\ call' = [call EXCEPT ![c] = k] /\ UNCHANGED <<active, there, sent, net, status, moved, wallet>>
  BY <1>1 DEF Return, Over, world
<1>8. /\ page' \in Page /\ page'.up = page.up /\ page'.deployed = page.deployed
      /\ page'.pending \subseteq page.pending \cup marked
  <2>1. CASE page' = page BY <2>1 DEF TabInv, Typed
  <2>2. CASE page' = [Unmark(c) EXCEPT !.pending = @ \cup marked]
    BY <1>6, <2>2 DEF Unmark, TabInv, Typed, Page
  <2> QED BY <1>1, <2>1, <2>2 DEF Return
<1>9. asks' = asks \/ asks' = asks \cup {q} BY <1>1 DEF Return
<1>10. asks' = {} \/ page.up BY <1>1 DEF Return, TabInv, Guarded
<1>11. crossed' \subseteq Accounts
  <2>1. page.deploying \in Accounts \cup {Nobody} BY DEF TabInv, Typed, Page
  <2> QED BY <1>1, <2>1 DEF Return, Cross, TabInv, Typed
<1> HIDE DEF q, k
<1> QED BY <1>4, <1>5, <1>6, <1>7, <1>8, <1>9, <1>10, <1>11, CallKeeps DEF AtRest, TabInv, Typed

--------------------------------------------------------------------------------
\* The wallet's network moves, and the chains go on.
LEMMA WorldKeeps == ASSUME TabInv, SetNetwork \/ Land PROVE TabInv'
<1>1. CASE SetNetwork
  <2> USE <1>1 DEF SetNetwork, world
  <2>1. crossed' \subseteq Accounts BY MarkedAreAccounts DEF Cross, TabInv, Typed
  <2>2. active' \in Networks /\ status' \subseteq Networks BY DEF TabInv, Typed
  <2>3. Typed' BY <2>1, <2>2 DEF TabInv, Typed, Running
  <2>4. Guarded' BY DEF TabInv, Guarded
  <2> QED BY <2>3, <2>4 DEF TabInv, OnThisNetwork, Shown
<1>2. CASE Land
  <2>1. PICK p \in Places : /\ sent' = [sent EXCEPT ![p] = 0]
                            /\ there' = there \cup {p} \/ UNCHANGED there
    BY <1>2 DEF Land
  <2>2. UNCHANGED <<active, status, net, page, asks, call, wallet, crossed, moved>> BY <1>2 DEF Land
  <2>3. Typed' BY <2>1, <2>2 DEF TabInv, Typed, Running
  <2>4. Guarded' BY <2>2 DEF TabInv, Guarded
  <2>5. OnThisNetwork' BY <2>1, <2>2 DEF TabInv, OnThisNetwork
  <2>6. Shown' BY <2>1, <2>2 DEF TabInv, Shown
  <2> QED BY <2>3, <2>4, <2>5, <2>6 DEF TabInv
<1> QED BY <1>1, <1>2

LEMMA StutterKeeps == ASSUME TabInv, UNCHANGED vars PROVE TabInv'
BY DEF TabInv, vars, world, history, Typed, Running, Guarded, OnThisNetwork, Shown

LEMMA NextKeeps == TabInv /\ [Next]_vars => TabInv'
BY StatusKeeps, DeployStatusKeeps, AnswerKeeps, OpenKeeps, DeployKeeps, TakeKeeps, BroadcastKeeps, ReturnKeeps, WorldKeeps,
   StutterKeeps DEF Next, Command

\* The invariant holds in every state of the tab: a true marker rests on a call that is for this network (Accounts.tsx).
THEOREM TabInvariant == Spec => []TabInv
BY InitInv, NextKeeps, PTL DEF Spec

\* The page says "Deploying" only of what was broadcast to its network, and "deployed" only of what is, as long as the
\* network stays, for any number of accounts, presses and faults (Accounts.tsx, is_deployed).
THEOREM MarkersAlwaysTrue == Spec => []MarkersAreTrue
<1>1. TabInv => MarkersAreTrue
  <2> SUFFICES ASSUME TabInv PROVE MarkersAreTrue OBVIOUS
  <2> DEFINE S == {c \in Clicks : call[c].at = "send"}
  <2>1. IsFiniteSet(S) /\ Cardinality(S) <= 1
    <3>2. \A c \in S : S = {c} BY DEF TabInv, Guarded
    <3>3. CASE S # {}
      <4>1. PICK c \in S : S = {c} BY <3>2, <3>3
      <4>2. IsFiniteSet(S) /\ Cardinality(S) = 1 BY <4>1, FS_Singleton
      <4> QED BY <4>2
    <3> HIDE DEF S
    <3>4. CASE S = {}
      <4>1. IsFiniteSet(S) /\ Cardinality(S) = 0 BY <3>4, FS_EmptySet
      <4> QED BY <4>1
    <3> QED BY <3>3, <3>4
  <2>2. \A c \in Clicks : call[c].at \in {"idle", "queued", "send", "ok", "failed", "over"}
    BY DEF TabInv, Typed, AtRest
  <2>3. TypeOK BY <2>1, <2>2 DEF TabInv, Typed, Guarded, TypeOK, Page, Asked
  <2> QED BY <2>3 DEF MarkersAreTrue, TabInv, Shown
<1> QED BY <1>1, TabInvariant, PTL

--------------------------------------------------------------------------------
(* One deploy in flight.                                                   *)

For(c, a) == Running(c) /\ call[c].acct = a
SentTo(n, a) == sent[[net |-> n, acct |-> a]]

\* An answer "deployed" is true of the network it was given for, what is still to be included is not there yet, and an
\* estimate is for the network that is kept with the mutex.
Answers == \A q \in asks : q.answer = "yes" => [net |-> q.net, acct |-> q.acct] \in there
OpenDeploys == \A p \in Places : sent[p] # 0 => p \notin there
SendHere == \A c \in Clicks : call[c].at = "send" => call[c].net = active

\* What the marker of an account covers that nothing has crossed: its only call, and then its only broadcast.
Tracked(a) ==
    /\ \A c \in Clicks : For(c, a) =>
          /\ call[c].mine = TRUE /\ page.deploying = a /\ \A d \in Clicks : For(d, a) => d = c
          /\ call[c].at # "ok" => \A n \in Networks : SentTo(n, a) = 0
    /\ \A n \in Networks : SentTo(n, a) # 0 =>
          /\ n = active /\ SentTo(n, a) = 1
          /\ a \in page.pending \/ \E c \in Clicks : call[c].at = "ok" /\ call[c].acct = a

Covered == /\ ~page.up => page.pending = {}
           /\ \A a \in Accounts \ crossed : Tracked(a)
SoloInv == TabInv /\ Answers /\ OpenDeploys /\ SendHere /\ Covered

LEMMA SoloInit == Init => SoloInv
<1> SUFFICES ASSUME Init PROVE SoloInv OBVIOUS
<1>1. TabInv BY InitInv
<1>2. Answers BY FetchFacts DEF Init, Answers
<1>3. \A c \in Clicks : call[c].at = "idle" BY DEF Init, Idle
<1>4. \A n \in Networks, a \in Accounts : SentTo(n, a) = 0 BY DEF Init, SentTo, Places
<1>5. OpenDeploys BY DEF Init, OpenDeploys
<1>6. Covered BY <1>3, <1>4 DEF Init, Fresh, Covered, Tracked, For, Running
<1> QED BY <1>1, <1>2, <1>3, <1>5, <1>6 DEF SoloInv, SendHere

\* The markers stay, and so does what they cover.
LEMMA SoloFrame ==
    ASSUME SoloInv, UNCHANGED <<active, there, sent, call>>, crossed \subseteq crossed',
           page'.up = page.up, page'.pending = page.pending, page'.deploying = page.deploying,
           \A q \in asks' : q.answer = "yes" => q \in asks \/ [net |-> q.net, acct |-> q.acct] \in there
    PROVE  Answers' /\ OpenDeploys' /\ SendHere' /\ Covered'
<1>1. Answers' /\ OpenDeploys' /\ SendHere' BY DEF SoloInv, Answers, OpenDeploys, SendHere
<1>2. Covered' BY DEF SoloInv, Covered, Tracked, For, Running, SentTo
<1> QED BY <1>1, <1>2

LEMMA SoloStatus == ASSUME SoloInv, PollStatus \/ StatusArrives \/ Refresh PROVE SoloInv'
<1>1. TabInv' BY StatusKeeps DEF SoloInv
<1>2. /\ UNCHANGED <<active, there, sent, call, crossed>>
      /\ page'.up = page.up /\ page'.pending = page.pending /\ page'.deploying = page.deploying
  BY DEF PollStatus, StatusArrives, Refresh, SoloInv, TabInv, Typed, Page, history, world
<1>3. \A q \in asks' : q.answer = "yes" => q \in asks
  BY FetchFacts DEF PollStatus, StatusArrives, Refresh
<1> QED BY <1>1, <1>2, <1>3, SoloFrame DEF SoloInv

LEMMA SoloDeployStatus == ASSUME SoloInv, DeployStatus PROVE SoloInv'
<1>1. PICK q \in asks : /\ q.answer = "none"
                        /\ \/ asks' = Told(q, Truth(q.acct)) /\ UNCHANGED troubles
                           \/ Trouble /\ asks' \in {asks \ {q}, Told(q, "no")}
  BY DEF DeployStatus
<1>2. q \in Asked BY DEF SoloInv, TabInv, Typed
<1>3. \A b \in {"yes", "no"} : \A r \in Told(q, b) : r \in asks \/ (r.acct = q.acct /\ r.answer = b /\ r.net = active)
  BY <1>2 DEF Told, Asked
<1>4. Truth(q.acct) \in {"yes", "no"} /\ (Truth(q.acct) = "yes" => [net |-> active, acct |-> q.acct] \in there)
  BY DEF Truth
<1>5. \A r \in asks' : r.answer = "yes" => r \in asks \/ [net |-> r.net, acct |-> r.acct] \in there
  BY <1>1, <1>3, <1>4
<1> QED BY <1>5, DeployStatusKeeps, SoloFrame DEF DeployStatus, SoloInv, world

\* An answer that clears a marker nothing has crossed is of this network, so that its deploy is included.
LEMMA SoloAnswer == ASSUME SoloInv, AnswerArrives PROVE SoloInv'
<1>0. TabInv' BY AnswerKeeps DEF SoloInv
<1>1. PICK q \in asks :
         /\ asks' = asks \ {q}
         /\ page' = [page EXCEPT !.deployed[q.acct] = q.answer,
                                 !.pending = IF q.answer = "yes" /\ q.clears THEN @ \ {q.acct} ELSE @]
         /\ Cross({a \in Marked : (q.answer = "yes" /\ q.clears) /\ a = q.acct /\ q.net # active})
  BY DEF AnswerArrives
<1>2. UNCHANGED <<active, there, sent, call>> BY DEF AnswerArrives, world
<1> DEFINE clears == q.answer = "yes" /\ q.clears
<1>3. /\ page'.up = page.up /\ page'.deploying = page.deploying
      /\ page'.pending = IF clears THEN page.pending \ {q.acct} ELSE page.pending
  BY <1>1 DEF SoloInv, TabInv, Typed, Page
<1>4. Answers' /\ OpenDeploys' /\ SendHere' BY <1>1, <1>2 DEF SoloInv, Answers, OpenDeploys, SendHere
<1>5. clears => [net |-> q.net, acct |-> q.acct] \in there BY DEF SoloInv, Answers
<1>6. crossed' = crossed \cup {a \in Marked : clears /\ a = q.acct /\ q.net # active} BY <1>1 DEF Cross
<1> HIDE DEF clears
<1>7. ASSUME NEW a \in Accounts \ crossed' PROVE Tracked(a)'
  <2>1. a \notin crossed /\ Tracked(a) BY <1>6 DEF SoloInv, Covered
  <2>2. \A c \in Clicks : For(c, a)' <=> For(c, a) BY <1>2 DEF For, Running
  <2>3. \A n \in Networks : SentTo(n, a)' = SentTo(n, a) BY <1>2 DEF SentTo
  <2>4. CASE ~clears \/ a # q.acct
    <3>1. a \in page'.pending <=> a \in page.pending BY <1>3, <2>4
    <3> QED BY <1>2, <1>3, <2>1, <2>2, <2>3, <3>1 DEF Tracked
  <2>5. CASE clears /\ a = q.acct
    <3>1. a \notin Marked \/ q.net = active BY <1>6, <2>5
    <3>2. \A n \in Networks : SentTo(n, a) # 0 =>
             n = active /\ (a \in page.pending \/ \E c \in Clicks : call[c].at = "ok" /\ call[c].acct = a)
      BY <2>1 DEF Tracked
    <3>3. a \in page.pending => a \in Marked BY DEF Marked
    <3>4. CASE q.net = active
      <4>1. [net |-> active, acct |-> a] \in there BY <1>5, <2>5, <3>4
      <4>2. [net |-> active, acct |-> a] \in Places BY DEF Places, SoloInv, TabInv, Typed
      <4>3. SentTo(active, a) = 0 BY <4>1, <4>2 DEF SentTo, SoloInv, OpenDeploys
      <4>4. \A n \in Networks : SentTo(n, a) = 0 BY <3>2, <4>3
      <4> QED BY <1>2, <1>3, <2>1, <2>2, <2>3, <4>4 DEF Tracked
    <3>5. CASE a \notin Marked
      <4>1. \A n \in Networks : SentTo(n, a)  # 0 => \E c \in Clicks : call[c].at = "ok" /\ call[c].acct = a
        BY <3>2, <3>3, <3>5
      <4> QED BY <1>2, <1>3, <2>1, <2>2, <2>3, <4>1 DEF Tracked
    <3> QED BY <3>1, <3>4, <3>5
  <2> QED BY <2>4, <2>5
<1>8. Covered' BY <1>3, <1>7 DEF SoloInv, Covered
<1> QED BY <1>0, <1>4, <1>8 DEF SoloInv

LEMMA CallsAreMarked == ASSUME NEW a, NEW c \in Clicks, For(c, a) PROVE a \in Marked
BY DEF For, Marked

LEMMA SoloLeave == ASSUME SoloInv, Leave PROVE SoloInv'
<1> USE DEF Leave
<1>0. TabInv' BY OpenKeeps DEF SoloInv
<1>1. UNCHANGED <<active, there, sent>> /\ asks' = {} /\ crossed' = crossed \cup Marked BY DEF Cross, world
<1>2. \A c \in Clicks : call'[c].at = call[c].at /\ call'[c].acct = call[c].acct /\ call'[c].net = call[c].net
  BY DEF SoloInv, TabInv, Typed
<1>3. page'.pending = {} BY DEF Closed, Fresh
<1>4. ASSUME NEW a \in Accounts \ crossed' PROVE Tracked(a)'
  <2>1. a \notin Marked /\ Tracked(a) BY <1>1 DEF SoloInv, Covered
  <2>2. \A c \in Clicks : ~For(c, a) /\ ~For(c, a)' BY <1>2, <2>1, CallsAreMarked DEF For, Running
  <2>3. a \notin page.pending BY <2>1 DEF Marked
  <2>4. \A c \in Clicks : call[c].at = "ok" => call[c].acct # a BY <2>2 DEF For, Running
  <2>5. \A n \in Networks : SentTo(n, a)' = 0 BY <1>1, <2>1, <2>3, <2>4 DEF Tracked, SentTo
  <2> QED BY <2>2, <2>5 DEF Tracked
<1>5. Answers' /\ OpenDeploys' /\ SendHere' BY <1>1, <1>2 DEF SoloInv, Answers, OpenDeploys, SendHere
<1>6. Covered' BY <1>3, <1>4 DEF Covered
<1> QED BY <1>0, <1>5, <1>6 DEF SoloInv

\* A closed tab has no call of its own, so that what is not crossed has none at all.
LEMMA SoloOpen == ASSUME SoloInv, Open PROVE SoloInv'
<1> USE DEF Open
<1>0. TabInv' BY OpenKeeps DEF SoloInv
<1>1. UNCHANGED <<active, there, sent, call, crossed>> /\ asks' = FetchStatuses BY DEF history, world
<1>2. page'.up = TRUE BY DEF Fresh
<1>3. page.pending = {} /\ \A c \in Clicks : call[c].mine = FALSE BY DEF SoloInv, TabInv, Guarded, Covered
<1>4. ASSUME NEW a \in Accounts \ crossed' PROVE Tracked(a)'
  <2>1. Tracked(a) BY <1>1 DEF SoloInv, Covered
  <2>2. \A c \in Clicks : ~For(c, a) BY <1>3, <2>1 DEF Tracked
  <2>3. \A c \in Clicks : ~For(c, a)' BY <1>1, <2>2 DEF For, Running
  <2>4. \A c \in Clicks : call[c].at = "ok" => call[c].acct # a BY <2>2 DEF For, Running
  <2>5. \A n \in Networks : SentTo(n, a)' = 0 BY <1>1, <1>3, <2>1, <2>4 DEF Tracked, SentTo
  <2> QED BY <2>3, <2>5 DEF Tracked
<1>5. Answers' /\ OpenDeploys' /\ SendHere' BY <1>1, FetchFacts DEF SoloInv, Answers, OpenDeploys, SendHere
<1>6. Covered' BY <1>2, <1>4 DEF Covered
<1> QED BY <1>0, <1>5, <1>6 DEF SoloInv

LEMMA SoloNetwork == ASSUME SoloInv, SetNetwork PROVE SoloInv'
<1> USE DEF SetNetwork
<1>0. TabInv' BY WorldKeeps DEF SoloInv
<1>1. UNCHANGED <<there, sent, page, asks, call>> /\ crossed' = crossed \cup Marked BY DEF Cross, world
<1>4. ASSUME NEW a \in Accounts \ crossed' PROVE Tracked(a)'
  <2>1. a \notin Marked /\ Tracked(a) BY <1>1 DEF SoloInv, Covered
  <2>2. \A c \in Clicks : ~For(c, a) /\ ~For(c, a)' BY <1>1, <2>1, CallsAreMarked DEF For, Running
  <2>3. a \notin page.pending BY <2>1 DEF Marked
  <2>4. \A c \in Clicks : call[c].at = "ok" => call[c].acct # a BY <2>2 DEF For, Running
  <2>5. \A n \in Networks : SentTo(n, a)' = 0 BY <1>1, <2>1, <2>3, <2>4 DEF Tracked, SentTo
  <2> QED BY <2>2, <2>5 DEF Tracked
<1>5. Answers' /\ OpenDeploys' /\ SendHere' BY <1>1 DEF Held, SoloInv, Answers, OpenDeploys, SendHere
<1>6. Covered' BY <1>1, <1>4 DEF SoloInv, Covered
<1> QED BY <1>0, <1>5, <1>6 DEF SoloInv

LEMMA SoloLand == ASSUME SoloInv, Land PROVE SoloInv'
<1>0. TabInv' BY WorldKeeps DEF SoloInv
<1>1. PICK p \in Places : sent' = [sent EXCEPT ![p] = 0] /\ (there' = there \cup {p} \/ UNCHANGED there) BY DEF Land
<1>2. UNCHANGED <<active, page, asks, call, crossed>> BY DEF Land
<1>3. \A o \in Places : sent'[o] = sent[o] \/ (sent'[o] = 0 /\ o = p) BY <1>1 DEF SoloInv, TabInv, Typed
<1>4. ASSUME NEW a \in Accounts \ crossed' PROVE Tracked(a)'
  <2>1. Tracked(a) BY <1>2 DEF SoloInv, Covered
  <2>2. \A n \in Networks : SentTo(n, a)' = SentTo(n, a) \/ SentTo(n, a)' = 0 BY <1>3 DEF SentTo, Places
  <2>3. \A c \in Clicks : For(c, a)' <=> For(c, a) BY <1>2 DEF For, Running
  <2> QED BY <1>2, <2>1, <2>2, <2>3 DEF Tracked
<1>5. Answers' /\ SendHere' BY <1>1, <1>2 DEF SoloInv, Answers, SendHere
<1>6. OpenDeploys'
  <2>1. ASSUME NEW o \in Places, sent'[o] # 0 PROVE o \notin there'
    <3>1. o # p BY <1>1, <2>1 DEF SoloInv, TabInv, Typed
    <3>2. sent[o] # 0 BY <1>3, <2>1
    <3> QED BY <1>1, <3>1, <3>2 DEF SoloInv, OpenDeploys
  <2> QED BY <2>1 DEF OpenDeploys
<1>7. Covered' BY <1>2, <1>4 DEF SoloInv, Covered
<1> QED BY <1>0, <1>5, <1>6, <1>7 DEF SoloInv

--------------------------------------------------------------------------------
\* Deploy is offered only for what the marker does not cover: of an account that nothing has crossed no other call is
\* under way and nothing is broadcast.
LEMMA SoloDeploy == ASSUME SoloInv, NEW c \in Clicks, NEW a \in Accounts, Deploy(c, a) PROVE SoloInv'
<1>0. TabInv' BY DeployKeeps DEF SoloInv
<1>1. call[c].at = "idle" /\ page.up /\ a \notin page.pending /\ page.deploying # a BY DEF Deploy, IsPending
<1>2. UNCHANGED <<active, there, sent, asks>> /\ crossed' = crossed \cup ({page.deploying} \ {Nobody})
  BY DEF Deploy, Cross, world
<1>3. page'.up = page.up /\ page'.pending = page.pending /\ page'.deploying = a
  BY DEF Deploy, SoloInv, TabInv, Typed, Page
<1>4. /\ call'[c].at = "queued" /\ call'[c].acct = a /\ call'[c].mine = TRUE
      /\ \A d \in Clicks \ {c} : call'[d] = call[d]
  BY DEF Deploy, Idle, SoloInv, TabInv, Typed
<1>5. Answers' /\ OpenDeploys' /\ SendHere' BY <1>2, <1>4 DEF SoloInv, Answers, OpenDeploys, SendHere
<1>6. \A d \in Clicks, b \in Accounts : For(d, b)' <=> IF d = c THEN b = a ELSE For(d, b)
  BY <1>4 DEF For, Running
<1>7. ASSUME NEW b \in Accounts \ crossed' PROVE Tracked(b)'
  <2>1. Tracked(b) BY <1>2 DEF SoloInv, Covered
  <2>2. page.deploying # b BY <1>1, <1>2, ConstantsAssumption
  <2>3. \A d \in Clicks : ~For(d, b) BY <2>1, <2>2 DEF Tracked
  <2>4. \A d \in Clicks : call[d].at = "ok" => call[d].acct # b BY <2>3 DEF For, Running
  <2>5. \A n \in Networks : SentTo(n, b)' # 0 => n = active /\ SentTo(n, b)' = 1 /\ b \in page'.pending
    BY <1>2, <1>3, <2>1, <2>4 DEF Tracked, SentTo
  <2>6. b = a => \A n \in Networks : SentTo(n, b)' = 0 BY <1>1, <1>3, <2>5
  <2> QED BY <1>2, <1>3, <1>4, <1>6, <2>3, <2>5, <2>6 DEF Tracked
<1>8. Covered' BY <1>3, <1>7 DEF SoloInv, Covered
<1> QED BY <1>0, <1>5, <1>8 DEF SoloInv

LEMMA SoloTake == ASSUME SoloInv, NEW c \in Clicks, TakeSession(c) PROVE SoloInv'
<1>0. TabInv' BY TakeKeeps DEF SoloInv
<1>1. UNCHANGED <<active, there, sent, page, asks, crossed>> BY DEF TakeSession, world
<1>2. call[c].at = "queued" BY DEF TakeSession
<1>3. /\ call'[c].at = "failed" \/ (call'[c].at = "send" /\ call'[c].net = active)
      /\ call'[c].acct = call[c].acct /\ call'[c].mine = call[c].mine
      /\ \A d \in Clicks \ {c} : call'[d] = call[d]
  BY DEF TakeSession, EndAs, SoloInv, TabInv, Typed
<1>4. \A d \in Clicks, b \in Accounts : For(d, b)' <=> For(d, b) BY <1>2, <1>3 DEF For, Running
<1>5. Answers' /\ OpenDeploys' /\ SendHere' BY <1>1, <1>3 DEF SoloInv, Answers, OpenDeploys, SendHere
<1>6. ASSUME NEW b \in Accounts \ crossed' PROVE Tracked(b)'
  <2>1. Tracked(b) BY <1>1 DEF SoloInv, Covered
  <2>2. \A d \in Clicks : call[d].at = "ok" => call'[d] = call[d] BY <1>2, <1>3
  <2>3. \A d \in Clicks : call'[d].mine = call[d].mine /\ (call'[d].at # "ok" => call[d].at # "ok") BY <1>2, <1>3
  <2>4. \A n \in Networks : SentTo(n, b)' = SentTo(n, b) BY <1>1 DEF SentTo
  <2> QED BY <1>1, <1>4, <2>1, <2>2, <2>3, <2>4 DEF Tracked
<1>7. Covered' BY <1>1, <1>6 DEF SoloInv, Covered
<1> QED BY <1>0, <1>5, <1>7 DEF SoloInv

LEMMA SoloBroadcast == ASSUME SoloInv, NEW c \in Clicks, Broadcast(c) PROVE SoloInv'
<1>0. TabInv' BY BroadcastKeeps DEF SoloInv
<1>1. call[c].at = "send" /\ call[c].net = active BY DEF Broadcast, SoloInv, SendHere
<1> DEFINE a == call[c].acct
<1>2. a \in Accounts /\ active \in Networks BY <1>1 DEF SoloInv, TabInv, Typed, Running
<1>3. Place(c) = [net |-> active, acct |-> a] /\ Place(c) \in Places BY <1>1, <1>2 DEF Place, Places
<1>4. UNCHANGED <<active, there, page, asks>> /\ crossed \subseteq crossed' BY DEF Broadcast, Cross
<1>5. \/ EndAs(c, "failed") /\ UNCHANGED sent
      \/ /\ sent' = [sent EXCEPT ![Place(c)] = @ + 1] /\ Place(c) \notin there
         /\ EndAs(c, "ok") \/ (EndAs(c, "failed") /\ a \in crossed')
  BY DEF Broadcast, Cross
<1>6. /\ call'[c].at \in {"ok", "failed"} /\ call'[c].acct = a /\ call'[c].mine = call[c].mine
      /\ \A d \in Clicks \ {c} : call'[d] = call[d]
      /\ UNCHANGED sent \/ call'[c].at = "ok" \/ a \in crossed'
  BY <1>5 DEF EndAs, SoloInv, TabInv, Typed
<1>7. \A o \in Places : sent'[o] = sent[o] \/ (o = Place(c) /\ sent'[o] = sent[o] + 1 /\ o \notin there)
  BY <1>3, <1>5 DEF SoloInv, TabInv, Typed
<1>8. \A d \in Clicks, b \in Accounts : For(d, b)' <=> For(d, b) BY <1>1, <1>6 DEF For, Running
<1>9. Answers' /\ OpenDeploys' /\ SendHere' BY <1>4, <1>6, <1>7 DEF SoloInv, Answers, OpenDeploys, SendHere
<1>10. ASSUME NEW b \in Accounts \ crossed' PROVE Tracked(b)'
  <2>1. Tracked(b) BY <1>4 DEF SoloInv, Covered
  <2>2. \A d \in Clicks : call[d].at = "ok" => call'[d] = call[d] BY <1>1, <1>6
  <2>3. \A d \in Clicks : call'[d].mine = call[d].mine BY <1>6
  <2>4. CASE UNCHANGED sent
    <3>1. \A n \in Networks : SentTo(n, b)' = SentTo(n, b) BY <2>4 DEF SentTo
    <3>2. \A d \in Clicks : call'[d].at # "ok" => call[d].at # "ok" BY <2>2
    <3> QED BY <1>4, <1>8, <2>1, <2>2, <2>3, <3>1, <3>2 DEF Tracked
  <2>5. CASE b # a
    <3>1. \A n \in Networks : [net |-> n, acct |-> b] \in Places /\ [net |-> n, acct |-> b] # Place(c)
      BY <1>3, <2>5 DEF Places
    <3>2. \A n \in Networks : SentTo(n, b)' = SentTo(n, b) BY <1>7, <3>1 DEF SentTo
    <3>3. \A d \in Clicks : call'[d].at # "ok" => call[d].at # "ok" BY <2>2
    <3> QED BY <1>4, <1>8, <2>1, <2>2, <2>3, <3>2, <3>3 DEF Tracked
  <2>6. CASE b = a /\ call'[c].at = "ok"
    <3>1. For(c, b) BY <1>1, <2>6 DEF For, Running
    <3>2. \A n \in Networks : SentTo(n, b) = 0 BY <1>1, <2>1, <3>1 DEF Tracked
    <3>3. \A n \in Networks : [net |-> n, acct |-> b] \in Places /\ ([net |-> n, acct |-> b] = Place(c) => n = active)
      BY <1>3 DEF Places
    <3>4. \A n \in Networks : SentTo(n, b)' = 0 \/ (SentTo(n, b)' = 1 /\ n = active)
      BY <1>7, <3>2, <3>3 DEF SentTo
    <3> QED BY <1>4, <1>6, <1>8, <2>1, <2>3, <2>6, <3>1, <3>4 DEF Tracked
  <2> QED BY <1>6, <2>4, <2>5, <2>6
<1>11. Covered' BY <1>4, <1>10 DEF SoloInv, Covered
<1> QED BY <1>0, <1>9, <1>11 DEF SoloInv

\* The page's own call of an account nothing has crossed is its only one, and leaves a marker if it was taken.
LEMMA SoloReturn == ASSUME SoloInv, NEW c \in Clicks, Deployed(c) \/ DeployFailed(c) PROVE SoloInv'
<1>0. TabInv' BY ReturnKeeps DEF SoloInv
<1> DEFINE a == call[c].acct
<1>1. call[c].at \in {"ok", "failed"} BY DEF Deployed, DeployFailed
<1>2. a \in Accounts /\ For(c, a) BY <1>1 DEF For, SoloInv, TabInv, Typed, Running
<1>3. PICK marked \in {{}, {a}}, clears \in BOOLEAN :
         Return(c, marked, {Ask(a, clears)}) /\ (call[c].at = "ok" => marked = {a})
  BY DEF Deployed, DeployFailed
<1>4. /\ UNCHANGED <<active, there, sent>>
      /\ \A q \in asks' : q \in asks \/ q.answer = "none"
      /\ crossed \subseteq crossed'
  BY <1>3 DEF Return, Ask, Cross, world
<1>5. call'[c].at = "over" /\ \A d \in Clicks \ {c} : call'[d] = call[d]
  BY <1>3 DEF Return, Over, Idle, SoloInv, TabInv, Typed
<1>6. Answers' /\ OpenDeploys' /\ SendHere' BY <1>4, <1>5 DEF SoloInv, Answers, OpenDeploys, SendHere
<1>7. \A d \in Clicks, b \in Accounts : For(d, b)' <=> d # c /\ For(d, b) BY <1>5 DEF For, Running
<1>8. CASE call[c].mine = FALSE
  <2>1. UNCHANGED <<page, asks, crossed>> BY <1>3, <1>8 DEF Return
  <2>2. ASSUME NEW b \in Accounts \ crossed' PROVE Tracked(b)'
    <3>1. Tracked(b) BY <2>1 DEF SoloInv, Covered
    <3>2. b # a BY <1>2, <1>8, <3>1 DEF Tracked
    <3>3. \A d \in Clicks : call[d].acct = b => d # c /\ call'[d] = call[d] BY <1>5, <3>2
    <3>4. \A d \in Clicks : For(d, b)' => For(d, b) /\ call'[d] = call[d] BY <1>5, <1>7
    <3>5. \A n \in Networks : SentTo(n, b)' = SentTo(n, b) BY <1>4 DEF SentTo
    <3> QED BY <1>4, <2>1, <3>1, <3>3, <3>4, <3>5 DEF Tracked
  <2>3. Covered' BY <2>1, <2>2 DEF SoloInv, Covered
  <2> QED BY <1>0, <1>6, <2>3 DEF SoloInv
<1>9. CASE call[c].mine = TRUE
  <2>1. page' = [Unmark(c) EXCEPT !.pending = @ \cup marked] BY <1>3, <1>9 DEF Return
  <2>2. page'.up = page.up /\ page'.pending = page.pending \cup marked
    BY <2>1 DEF Unmark, SoloInv, TabInv, Typed, Page
  <2>3. page.up BY <1>9 DEF SoloInv, TabInv, Guarded
  <2>4. crossed' = crossed \cup ({page.deploying} \ {Nobody, a}) BY <1>3, <1>9 DEF Return, Cross
  <2>5. ASSUME NEW b \in Accounts \ crossed' PROVE Tracked(b)'
    <3>1. Tracked(b) BY <1>4 DEF SoloInv, Covered
    <3>2. \A d \in Clicks : For(d, b) => d = c
      <4>1. ASSUME NEW d \in Clicks, For(d, b) PROVE d = c
        <5>1. page.deploying = b BY <3>1, <4>1 DEF Tracked
        <5>2. b = a BY <2>4, <5>1, ConstantsAssumption
        <5> QED BY <1>2, <3>1, <4>1, <5>2 DEF Tracked
      <4> QED BY <4>1
    <3>3. \A d \in Clicks : ~For(d, b)' BY <1>7, <3>2
    <3>4. \A d \in Clicks : call[d].at = "ok" /\ call[d].acct = b => d = c /\ b \in page'.pending
      BY <1>3, <2>2, <3>2 DEF For, Running
    <3>5. \A n \in Networks : SentTo(n, b)' = SentTo(n, b) BY <1>4 DEF SentTo
    <3>6. \A n \in Networks : SentTo(n, b) # 0 => n = active /\ SentTo(n, b) = 1 /\ b \in page'.pending
      BY <2>2, <3>1, <3>4 DEF Tracked
    <3> QED BY <1>4, <3>3, <3>5, <3>6 DEF Tracked
  <2>6. Covered' BY <2>2, <2>3, <2>5 DEF Covered
  <2> QED BY <1>0, <1>6, <2>6 DEF SoloInv
<1>10. call[c].mine \in BOOLEAN BY DEF SoloInv, TabInv, Typed
<1> QED BY <1>8, <1>9, <1>10

LEMMA SoloStutter == ASSUME SoloInv, UNCHANGED vars PROVE SoloInv'
<1>1. TabInv' BY StutterKeeps DEF SoloInv
<1>2. UNCHANGED <<active, there, sent, call, crossed, page, asks>> BY DEF vars, world, history
<1> QED BY <1>1, <1>2, SoloFrame DEF SoloInv

LEMMA SoloNext == SoloInv /\ [Next]_vars => SoloInv'
BY SoloStatus, SoloDeployStatus, SoloAnswer, SoloLeave, SoloOpen, SoloNetwork, SoloLand, SoloDeploy, SoloTake, SoloBroadcast,
   SoloReturn, SoloStutter DEF Next, Command

\* One deploy of an account is in flight per network, but for accounts whose marker something else has crossed, for any
\* number of accounts, networks and presses ("so we don't revert to a Deploy button and let the user submit a second,
\* nonce-conflicting tx", Accounts.tsx).
THEOREM NoSecondDeploy == Spec => []OneDeployInFlight
<1>1. SoloInv => OneDeployInFlight
  <2> SUFFICES ASSUME SoloInv, NEW p \in Places PROVE sent[p] <= 1 \/ p.acct \in crossed BY DEF OneDeployInFlight
  <2>1. p.net \in Networks /\ p.acct \in Accounts /\ p = [net |-> p.net, acct |-> p.acct] BY DEF Places
  <2>2. p.acct \in crossed \/ SentTo(p.net, p.acct) \in {0, 1} BY <2>1 DEF SoloInv, Covered, Tracked
  <2> QED BY <2>1, <2>2 DEF SentTo
<1> QED BY <1>1, SoloInit, SoloNext, PTL DEF Spec

================================================================================
