---------------------------- MODULE Strk20Planner ------------------------------
(***************************************************************************)
(* The pure part of STRK20: what the wallet reads off the privacy pool     *)
(* (crates/strk20/src/discovery.rs) and the batch it plans from it         *)
(* (planner.rs), and the pool's own rules as far as the wallet relies on   *)
(* them.  A pool state is a record of sets: who is registered, the         *)
(* channels, subchannels and notes, each in the slot its index names, and  *)
(* the nullifiers of spent notes.  Keys, salts and ciphertexts are left    *)
(* out: a slot holds what its owner decrypts from it.                      *)
(*                                                                         *)
(* An intent lists [to, token, amount] records: deposits, transfers and    *)
(* withdrawals.  A batch has one sequence per phase of the pool, so the    *)
(* phase order needs no property.                                          *)
(***************************************************************************)
EXTENDS Integers, FiniteSets, Sequences, SequencesExt

EmptyPool(registered) == [reg |-> registered, chans |-> {}, subs |-> {}, notes |-> {}, nulls |-> {}]

--------------------------------------------------------------------------------
(* Discovery: every list is read up to its first empty slot.               *)

FirstFree(slots) == CHOOSE i \in 0..Cardinality(slots) : i \notin slots /\ 0..(i - 1) \subseteq slots

SubsOf(p, from, to) == {s \in p.subs : s.from = from /\ s.to = to}

NotesOf(p, from, to, token) == {n \in p.notes : n.from = from /\ n.to = to /\ n.token = token}

Slots(S) == {x.index : x \in S}

ReadSubs(p, from, to) == {s \in SubsOf(p, from, to) : s.index < FirstFree(Slots(SubsOf(p, from, to)))}

ReadNotes(p, from, to, token) ==
    {n \in NotesOf(p, from, to, token) : n.index < FirstFree(Slots(NotesOf(p, from, to, token)))}

Unspent(p, S) == {n \in S : n \notin p.nulls}

DiscoverNotes(p, user, tokens) ==
    LET senders == {c.from : c \in {d \in p.chans : d.to = user}}
        subs    == {s \in UNION {ReadSubs(p, from, user) : from \in senders} : s.token \in tokens}
    IN  Unspent(p, UNION {ReadNotes(p, s.from, user, s.token) : s \in subs})

HasChannel(p, user, to) == \E c \in p.chans : c.from = user /\ c.to = to

DiscoverChannel(p, user, to) ==
    LET subs == IF HasChannel(p, user, to) THEN ReadSubs(p, user, to) ELSE {}
    IN  [open |-> HasChannel(p, user, to),
         subs |-> [t \in {s.token : s \in subs} |->
                     [index |-> (CHOOSE s \in subs : s.token = t).index,
                      next  |-> FirstFree(Slots(NotesOf(p, user, to, t)))]]]

OutgoingCount(p, user) == FirstFree(Slots({c \in p.chans : c.from = user}))

Field(list, f(_)) == {f(list[i]) : i \in DOMAIN list}

Recipients(user, intent) == {user} \cup Field(intent.transfers, LAMBDA x : x.to)

TokensOf(intent) == Field(intent.transfers \o intent.withdrawals, LAMBDA x : x.token)

\* A recipient that has no viewing key ends the discovery with an error.
Reachable(p, user, intent) == user \in p.reg => Recipients(user, intent) \subseteq p.reg

DiscoverState(p, user, intent) ==
    IF user \in p.reg
    THEN [registered |-> TRUE,
          channels   |-> [to \in Recipients(user, intent) |-> DiscoverChannel(p, user, to)],
          notes      |-> DiscoverNotes(p, user, TokensOf(intent)),
          outgoing   |-> OutgoingCount(p, user)]
    ELSE [registered |-> FALSE, channels |-> << >>, notes |-> {}, outgoing |-> 0]

--------------------------------------------------------------------------------
(* Planning.                                                               *)

TotalOf(S) == MapThenSumSet(LAMBDA x : x.amount, S)

TotalIn(list, token) == FoldLeft(LAMBDA sum, x : IF x.token = token THEN sum + x.amount ELSE sum, 0, list)

Named(intent) == TokensOf(intent) \cup Field(intent.deposits, LAMBDA x : x.token)

Deficit(intent, t) ==
    TotalIn(intent.transfers, t) + TotalIn(intent.withdrawals, t) - TotalIn(intent.deposits, t)

\* Largest first. Notes of one amount come in a fixed order, in the code that of the discovery.
LargestFirst(S) ==
    LET largest[k \in 0..Cardinality(S)] ==
            IF k = 0 THEN << >>
            ELSE LET before == largest[k - 1]
                     rest   == S \ ToSet(before)
                 IN  Append(before, CHOOSE x \in rest : \A y \in rest : x.amount >= y.amount)
    IN  largest[Cardinality(S)]

Spendable(st, t) == {n \in st.notes : n.token = t /\ n.amount > 0}

Enough(notes, k, intent, t) == TotalIn(SubSeq(notes, 1, k), t) >= Deficit(intent, t)

Spends(st, intent, t) ==
    LET notes == LargestFirst(Spendable(st, t))
        needed == CHOOSE k \in 0..Len(notes) :
                     Enough(notes, k, intent, t) /\ \A j \in 0..(k - 1) : ~Enough(notes, j, intent, t)
    IN  SubSeq(notes, 1, needed)

Covered(st, intent) == \A t \in Named(intent) : TotalOf(Spendable(st, t)) >= Deficit(intent, t)

Change(st, intent, t) == TotalIn(Spends(st, intent, t), t) - Deficit(intent, t)

ChangeNotes(to, st, intent) ==
    SetToSeq({[to |-> to, token |-> t, amount |-> Change(st, intent, t)] :
                 t \in {u \in Named(intent) : Change(st, intent, u) > 0}})

\* mutant: the change goes where the first transfer goes
NewNotesChangeAway(user, st, intent) ==
    intent.transfers \o ChangeNotes(IF intent.transfers = << >> THEN user ELSE intent.transfers[1].to, st, intent)
NewNotes(user, st, intent) == intent.transfers \o ChangeNotes(user, st, intent)

\* acc is the planner's work so far: its copy of the channels and the slots it has given out.
EnsureChannel(acc, to) ==
    IF acc.channels[to].open THEN acc
    ELSE [acc EXCEPT !.channels[to].open = TRUE,
                     !.opens = Append(@, [to |-> to, index |-> acc.outgoing]),
                     !.outgoing = @ + 1]

\* A new subchannel's first note takes index first, and each note moves the next one on by step.
PlaceAt(acc0, note, first, step) ==
    LET acc == EnsureChannel(acc0, note.to)
        old == acc.channels[note.to].subs
        new == note.token \notin DOMAIN old
        sub == IF new THEN [index |-> Cardinality(DOMAIN old), next |-> first] ELSE old[note.token]
    IN  [acc EXCEPT !.channels[note.to].subs =
                        [t \in {note.token} \cup DOMAIN old |->
                            IF t = note.token THEN [sub EXCEPT !.next = @ + step] ELSE old[t]],
                    !.subs = IF new THEN Append(@, [to |-> note.to, token |-> note.token, index |-> sub.index])
                                    ELSE @,
                    !.creates = Append(@, [to |-> note.to, token |-> note.token, amount |-> note.amount,
                                           index |-> sub.next])]

PlaceNoteSameSlot(acc, note) == PlaceAt(acc, note, 0, 0)        \* mutant: the next index is not moved on
PlaceNoteFromOne(acc, note)  == PlaceAt(acc, note, 1, 1)        \* mutant: indices start at one
PlaceNote(acc, note)         == PlaceAt(acc, note, 0, 1)

Registering(st, intent) == intent.register /\ ~st.registered

Refusal(error) == [error |-> error]

Errors == {Refusal(e) : e \in {"NotRegistered", "ZeroAmount", "InsufficientBalance"}}

\* What plan looks at before any note.
Unregistered(st, intent) == ~intent.register /\ ~st.registered

ZeroAmount(intent) == 0 \in Field(intent.deposits \o intent.transfers \o intent.withdrawals, LAMBDA x : x.amount)

\* The channels plan knows of; an account that registers has none, and opens the one to itself.
KnownChannels(user, st, intent) ==
    IF Registering(st, intent) THEN [to \in {user} |-> [open |-> FALSE, subs |-> << >>]] ELSE st.channels

Begun(user, st, intent) ==
    LET acc == [channels |-> KnownChannels(user, st, intent), outgoing |-> st.outgoing,
                opens |-> << >>, subs |-> << >>, creates |-> << >>]
    IN  IF Registering(st, intent) THEN EnsureChannel(acc, user) ELSE acc

Placed(user, st, intent) == FoldLeft(PlaceNote, Begun(user, st, intent), NewNotes(user, st, intent))

Uses(st, intent) == FoldLeft(LAMBDA all, t : all \o Spends(st, intent, t), << >>, SetToSeq(Named(intent)))

Unknown(user, st, intent) ==
    ~(Field(NewNotes(user, st, intent), LAMBDA x : x.to) \subseteq DOMAIN KnownChannels(user, st, intent))

\* plan's answer: a batch or an error.
PlanBatch(user, st, intent) ==
    LET placed == Placed(user, st, intent)
    IN  CASE Unregistered(st, intent) -> Refusal("NotRegistered")
          [] ZeroAmount(intent) -> Refusal("ZeroAmount")
          [] ~Covered(st, intent) -> Refusal("InsufficientBalance")
          [] Unknown(user, st, intent) -> Refusal("NotRegistered")
          [] OTHER -> [register |-> Registering(st, intent), opens |-> placed.opens, subs |-> placed.subs,
                       deposits |-> intent.deposits, uses |-> Uses(st, intent), creates |-> placed.creates,
                       withdrawals |-> intent.withdrawals]

\* More than one new channel in a batch tells an observer that they have one sender.
Linkable(batch) == Len(batch.opens) > 1

--------------------------------------------------------------------------------
(* The pool (external).  It runs a batch phase by phase and refuses what   *)
(* is already there: a slot taken, a nullifier published.                  *)

After(p, user, batch) ==
    [reg   |-> IF batch.register THEN p.reg \cup {user} ELSE p.reg,
     chans |-> p.chans \cup {[from |-> user, to |-> o.to, index |-> o.index,
                              place |-> Cardinality({c \in p.chans : c.to = o.to})] : o \in ToSet(batch.opens)},
     subs  |-> p.subs \cup {[from |-> user, to |-> s.to, token |-> s.token, index |-> s.index] :
                              s \in ToSet(batch.subs)},
     notes |-> p.notes \cup {[from |-> user, to |-> n.to, token |-> n.token, index |-> n.index,
                              amount |-> n.amount] : n \in ToSet(batch.creates)},
     nulls |-> p.nulls \cup ToSet(batch.uses)]

Distinct(list, key(_)) == Cardinality(Field(list, key)) = Len(list)

Balanced(batch) ==
    \A t \in Field(batch.deposits \o batch.uses \o batch.creates \o batch.withdrawals, LAMBDA x : x.token) :
       TotalIn(batch.deposits, t) + TotalIn(batch.uses, t) = TotalIn(batch.creates, t) + TotalIn(batch.withdrawals, t)

Accepts(p, user, batch) ==
    LET q == After(p, user, batch)
    IN  /\ user \in q.reg
        /\ batch.register => user \notin p.reg
        /\ \A o \in ToSet(batch.opens) :
              o.to \in q.reg /\ ~HasChannel(p, user, o.to) /\ o.index \notin Slots({c \in p.chans : c.from = user})
        /\ Distinct(batch.opens, LAMBDA o : o.index) /\ Distinct(batch.opens, LAMBDA o : o.to)
        /\ \A s \in ToSet(batch.subs) : HasChannel(q, user, s.to) /\ s.index \notin Slots(SubsOf(p, user, s.to))
        /\ Distinct(batch.subs, LAMBDA s : <<s.to, s.index>>)
        /\ \A n \in ToSet(batch.uses) : n \in p.notes \ p.nulls /\ n.to = user
        /\ Distinct(batch.uses, LAMBDA n : n)
        /\ \A n \in ToSet(batch.creates) :
              /\ \E s \in SubsOf(q, user, n.to) : s.token = n.token
              /\ n.index \notin Slots(NotesOf(p, user, n.to, n.token))
        /\ Distinct(batch.creates, LAMBDA n : <<n.to, n.token, n.index>>)
        /\ Balanced(batch)

\* What a user really owns, whatever the user's wallet can find.
Balance(p, user, t) == TotalOf({n \in Unspent(p, p.notes) : n.to = user /\ n.token = t})

--------------------------------------------------------------------------------
(* What pools and intents are.                                             *)

Dense(S) == Slots(S) = 0..(Cardinality(S) - 1)

\* A pool as batches leave it: every list without a gap, one channel per pair of users, one subchannel per token of a
\* channel, and no note without its subchannel, no subchannel without its channel.
WellFormed(p) ==
    /\ IsFiniteSet(p.chans) /\ IsFiniteSet(p.subs) /\ IsFiniteSet(p.notes)
    /\ \A c \in p.chans :
          /\ {c.from, c.to} \subseteq p.reg
          /\ Dense({d \in p.chans : d.from = c.from})
          /\ LET incoming == {d \in p.chans : d.to = c.to}
             IN  {d.place : d \in incoming} = 0..(Cardinality(incoming) - 1)
    /\ \A c, d \in p.chans : c.from = d.from /\ c.to = d.to => c = d
    /\ \A s \in p.subs : HasChannel(p, s.from, s.to) /\ Dense(SubsOf(p, s.from, s.to))
    /\ \A r, s \in p.subs : r.from = s.from /\ r.to = s.to /\ r.token = s.token => r = s
    /\ \A n \in p.notes :
          /\ n.amount \in Nat
          /\ \E s \in SubsOf(p, n.from, n.to) : s.token = n.token
          /\ Dense(NotesOf(p, n.from, n.to, n.token))
    /\ p.nulls \subseteq p.notes

ItemsOf(list, tokens) == list \in Seq(ToSet(list)) /\ \A x \in ToSet(list) : x.token \in tokens /\ x.amount \in Nat

IsIntent(i, tokens) ==
    /\ DOMAIN i = {"register", "deposits", "transfers", "withdrawals"}
    /\ i.register \in BOOLEAN
    /\ \A list \in {i.deposits, i.transfers, i.withdrawals} : ItemsOf(list, tokens)
================================================================================
