----------------------------- MODULE IdleLockProofs -----------------------------
(***************************************************************************)
(* Theorems about IdleLock: how long an idle wallet stays open, what wrong *)
(* passphrases cost, and how long a phrase is shown, for any windows,      *)
(* delays and numbers of guesses waiting at once.                          *)
(***************************************************************************)
EXTENDS IdleLock, FiniteSetTheorems, FunctionTheorems, TLAPS

Waiters == Commands \cup {"auto"}

\* A queue of the mutex: only unlock calls stand in it more than once.
Line(s) ==
    /\ s \in Seq(Waiters)
    /\ \A i, j \in 1..Len(s) : s[i] = s[j] /\ s[i] # "unlock" => i = j

Stands(s, p) == \E i \in 1..Len(s) : s[i] = p
Guesses(s) == Cardinality({i \in 1..Len(s) : s[i] = "unlock"})

ClocksOk ==
    /\ vault \in BOOLEAN /\ unlocked \in BOOLEAN /\ enabled \in BOOLEAN /\ toTouch \in BOOLEAN
    /\ idle \in 0..Cap /\ over \in 0..Cap
    /\ task \in {"sleep", "wait"} /\ nap \in 0..Poll
    /\ backoff \in PassphraseBackoff /\ backoff.failures <= MaxMisses /\ waited \in Nat

\* Who can be in the queue together: the task once it has decided, one reveal_seed, nobody but setup without a vault.
QueueOk ==
    /\ Line(session)
    /\ task = "wait" <=> Stands(session, "auto")
    /\ ~(Stands(session, "askReveal") /\ Stands(session, "reveal"))
    /\ Stands(session, "setup") => ~vault
    /\ ~vault => ~unlocked /\ \A p \in Commands \ {"setup"} : ~Stands(session, p)

Forms == [open : BOOLEAN, busy : BOOLEAN, phrase : BOOLEAN, timer : 0..NoTimer, age : Nat]
Timed(f) == IF f.phrase THEN f.timer + f.age = AutoHide ELSE f.timer = NoTimer

\* The timer of a phrase in the page has run for as long as the phrase has been there.
FormOk ==
    /\ form \in Forms /\ Timed(form)
    /\ form.busy => Stands(session, "askReveal") \/ Stands(session, "reveal")

\* What is left of the task's sleep and the time the wallet is overdue are one sleep together.
ExposureOk ==
    /\ ~unlocked => over = 0
    /\ Overdue /\ task = "sleep" => over + nap <= Poll

\* The guesses that have passed the check and can still miss.
UnderWay == Guesses(session) + (IF unlocked /\ Stands(session, "reveal") THEN 1 ELSE 0)
Allowed(w) == FreeAttempts + Unlocks * w

\* While a delay is in force, the misses and the guesses under way are paid for by it; without one, the misses are by
\* the delays before. An open wallet has one guess less waiting.
GuessesOk ==
    /\ Guesses(session) <= (IF unlocked THEN Unlocks - 1 ELSE Unlocks)
    /\ IF Blocked(backoff) THEN backoff.failures + UnderWay <= Allowed(waited + 1)
       ELSE backoff.failures <= Allowed(waited)

LockInv == ClocksOk /\ QueueOk /\ FormOk /\ ExposureOk /\ GuessesOk

--------------------------------------------------------------------------------
(* The queue.                                                              *)

LEMMA GuessesAreNat ==
    ASSUME NEW s \in Seq(Waiters)
    PROVE  Guesses(s) \in Nat /\ IsFiniteSet({i \in 1..Len(s) : s[i] = "unlock"})
<1>1. IsFiniteSet(1..Len(s)) BY FS_Interval
<1>2. IsFiniteSet({i \in 1..Len(s) : s[i] = "unlock"}) BY <1>1, FS_Subset
<1> QED BY <1>2, FS_CardinalityType DEF Guesses

LEMMA Joined ==
    ASSUME NEW s, Line(s), NEW p \in Waiters, p = "unlock" \/ ~Stands(s, p)
    PROVE  /\ Line(Append(s, p)) /\ Append(s, p) # << >>
           /\ \A q : Stands(Append(s, p), q) <=> Stands(s, q) \/ q = p
           /\ Guesses(Append(s, p)) = IF p = "unlock" THEN Guesses(s) + 1 ELSE Guesses(s)
<1> DEFINE t == Append(s, p)
<1>1. s \in Seq(Waiters) /\ Len(s) \in Nat BY DEF Line
<1>2. t \in Seq(Waiters) /\ Len(t) = Len(s) + 1 /\ t[Len(t)] = p /\ \A i \in 1..Len(s) : t[i] = s[i] BY <1>1
<1> HIDE DEF t
<1>3. \A i \in 1..Len(t) : i \in 1..Len(s) \/ i = Len(t) BY <1>1, <1>2
<1>4. \A i \in 1..Len(s) : i \in 1..Len(t) /\ i # Len(t) BY <1>1, <1>2
<1>5. Len(t) \in 1..Len(t) BY <1>1, <1>2
<1>6. \A q : Stands(t, q) <=> Stands(s, q) \/ q = p BY <1>2, <1>3, <1>4, <1>5 DEF Stands
<1>7. Line(t) BY <1>2, <1>3, <1>4 DEF Line, Stands
<1> DEFINE S == {i \in 1..Len(s) : s[i] = "unlock"}
           T == {i \in 1..Len(t) : t[i] = "unlock"}
<1>8. IsFiniteSet(S) BY <1>1, GuessesAreNat
<1>9. p = "unlock" => Guesses(t) = Guesses(s) + 1
  <2> SUFFICES ASSUME p = "unlock" PROVE Guesses(t) = Guesses(s) + 1 OBVIOUS
  <2>1. T = S \cup {Len(t)} /\ Len(t) \notin S BY <1>2, <1>3, <1>4, <1>5
  <2>2. Cardinality(T) = Cardinality(S) + 1 BY <1>8, <2>1, FS_AddElement
  <2> QED BY <2>2 DEF Guesses
<1>10. p # "unlock" => Guesses(t) = Guesses(s)
  <2> SUFFICES ASSUME p # "unlock" PROVE Guesses(t) = Guesses(s) OBVIOUS
  <2>1. T = S BY <1>2, <1>3, <1>4
  <2> QED BY <2>1 DEF Guesses
<1>11. t # << >> BY <1>1, <1>2
<1> QED BY <1>6, <1>7, <1>9, <1>10, <1>11 DEF t

LEMMA Served ==
    ASSUME NEW s, Line(s), s # << >>
    PROVE  /\ Line(Tail(s)) /\ Head(s) \in Waiters /\ Stands(s, Head(s))
           /\ \A q : q # Head(s) => (Stands(Tail(s), q) <=> Stands(s, q))
           /\ \A q : Stands(Tail(s), q) => Stands(s, q)
           /\ Head(s) # "unlock" => ~Stands(Tail(s), Head(s))
           /\ Guesses(s) = IF Head(s) = "unlock" THEN Guesses(Tail(s)) + 1 ELSE Guesses(Tail(s))
<1> DEFINE t == Tail(s)
<1>1. s \in Seq(Waiters) /\ Len(s) \in Nat /\ Len(s) > 0 /\ Head(s) = s[1] BY DEF Line
<1>2. t \in Seq(Waiters) /\ Len(t) = Len(s) - 1 /\ \A i \in 1..Len(t) : t[i] = s[i + 1] BY <1>1
<1> HIDE DEF t
<1>3. \A i \in 1..Len(t) : i + 1 \in 1..Len(s) /\ i + 1 # 1 BY <1>1, <1>2
<1>4. \A i \in 1..Len(s) : i = 1 \/ (i - 1 \in 1..Len(t) /\ t[i - 1] = s[i])
  <2>1. ASSUME NEW i \in 1..Len(s), i # 1 PROVE i - 1 \in 1..Len(t) /\ t[i - 1] = s[i]
    <3>1. i - 1 \in 1..Len(t) /\ (i - 1) + 1 = i BY <1>1, <1>2, <2>1
    <3> QED BY <1>2, <3>1
  <2> QED BY <2>1
<1>5. 1 \in 1..Len(s) /\ Head(s) \in Waiters BY <1>1
<1>6. /\ \A q : q # Head(s) => (Stands(t, q) <=> Stands(s, q))
      /\ \A q : Stands(t, q) => Stands(s, q)
      /\ Stands(s, Head(s))
  BY <1>1, <1>2, <1>3, <1>4, <1>5 DEF Stands
<1>7. Head(s) # "unlock" => ~Stands(t, Head(s))
  <2>1. SUFFICES ASSUME Head(s) # "unlock", NEW i \in 1..Len(t), t[i] = Head(s) PROVE FALSE BY DEF Stands
  <2>2. s[i + 1] = s[1] /\ i + 1 \in 1..Len(s) /\ i + 1 # 1 /\ s[1] # "unlock" BY <1>1, <1>2, <1>3, <2>1
  <2> QED BY <1>5, <2>2 DEF Line
<1>8. Line(t)
  <2>1. SUFFICES ASSUME NEW i \in 1..Len(t), NEW j \in 1..Len(t), t[i] = t[j], t[i] # "unlock" PROVE i = j
    BY <1>2 DEF Line
  <2>2. s[i + 1] = s[j + 1] /\ s[i + 1] # "unlock" /\ i + 1 \in 1..Len(s) /\ j + 1 \in 1..Len(s)
    BY <1>2, <1>3, <2>1
  <2>3. i + 1 = j + 1 BY <2>2 DEF Line
  <2> QED BY <2>3
<1> DEFINE S == {i \in 1..Len(s) : s[i] = "unlock"}
           T == {i \in 1..Len(t) : t[i] = "unlock"}
           U == S \ {1}
           f == [i \in U |-> i - 1]
<1>9. IsFiniteSet(S) /\ IsFiniteSet(T) /\ IsFiniteSet(U)
  <2>1. IsFiniteSet(S) /\ IsFiniteSet(T) BY <1>1, <1>2, GuessesAreNat
  <2> QED BY <2>1, FS_Subset
<1>10. Cardinality(T) = Cardinality(U)
  <2>1. f \in Bijection(U, T)
    <3>1. \A i \in U : i - 1 \in T BY <1>4
    <3>2. \A j \in T : j + 1 \in U /\ f[j + 1] = j BY <1>2, <1>3
    <3>3. \A i, j \in U : f[i] = f[j] => i = j OBVIOUS
    <3>4. f \in [U -> T] BY <3>1
    <3>5. IsInjective(f) BY <3>3 DEF IsInjective
    <3> HIDE DEF f
    <3>6. f \in Injection(U, T) BY <3>4, <3>5 DEF Injection
    <3>7. f \in Surjection(U, T) BY <3>2, <3>4 DEF Surjection
    <3> QED BY <3>6, <3>7 DEF Bijection
  <2>2. ExistsBijection(U, T) BY <2>1, Fun_ExistsBij
  <2> QED BY <1>9, <2>2, FS_Bijection
<1>11. CASE Head(s) = "unlock"
  <2>1. S = U \cup {1} /\ 1 \notin U BY <1>1, <1>5, <1>11
  <2>2. Cardinality(S) = Cardinality(U) + 1 BY <1>9, <2>1, FS_AddElement
  <2> QED BY <1>5, <1>6, <1>7, <1>8, <1>10, <1>11, <2>2 DEF Guesses, t
<1>12. CASE Head(s) # "unlock"
  <2>1. S = U BY <1>1, <1>12
  <2> QED BY <1>5, <1>6, <1>7, <1>8, <1>10, <1>12, <2>1 DEF Guesses, t
<1> QED BY <1>11, <1>12


LEMMA NobodyGuesses ==
    ASSUME NEW s \in Seq(Waiters), ~Stands(s, "unlock")
    PROVE  Guesses(s) = 0
<1>1. {i \in 1..Len(s) : s[i] = "unlock"} = {} BY DEF Stands
<1> QED BY <1>1, FS_EmptySet DEF Guesses

LEMMA NobodyWaits == Line(<< >>) /\ (\A p : ~Stands(<< >>, p)) /\ Guesses(<< >>) = 0
<1>1. << >> \in Seq(Waiters) /\ 1..Len(<< >>) = {} OBVIOUS
<1>2. \A p : ~Stands(<< >>, p) BY <1>1 DEF Stands
<1> QED BY <1>1, <1>2, NobodyGuesses DEF Line

\* What the model's own words for the queue say.
LEMMA WaitingIsStanding ==
    /\ \A p : Waits(p) <=> Stands(session, p)
    /\ Cardinality(Waiting("unlock")) = Guesses(session)
<1>1. \A p : Waits(p) <=> Stands(session, p) BY DEF Waits, Waiting, Stands
<1>2. Cardinality(Waiting("unlock")) = Guesses(session) BY DEF Waiting, Guesses
<1> QED BY <1>1, <1>2

--------------------------------------------------------------------------------
(* The delay.                                                              *)

\* A delay that starts is never empty, and never beyond the cap.
LEMMA DelayBounds ==
    ASSUME NEW n \in Nat, n > FreeAttempts
    PROVE  Delay(n) \in 1..MaxDelay
<1> DEFINE k == Doublings(n)
<1>1. k \in 0..16 BY BackoffAssumption DEF Doublings
<1>2. 2 ^ k \in Nat \ {0}
  <2> HIDE DEF k
  <2>1. k = 0 => 2 ^ k = 1 OBVIOUS
  <2>2. k = 1 => 2 ^ k = 2 OBVIOUS
  <2>3. k = 2 => 2 ^ k = 4 OBVIOUS
  <2>4. k = 3 => 2 ^ k = 8 OBVIOUS
  <2>5. k = 4 => 2 ^ k = 16 OBVIOUS
  <2>6. k = 5 => 2 ^ k = 32 OBVIOUS
  <2>7. k = 6 => 2 ^ k = 64 OBVIOUS
  <2>8. k = 7 => 2 ^ k = 128 OBVIOUS
  <2>9. k = 8 => 2 ^ k = 256 OBVIOUS
  <2>10. k = 9 => 2 ^ k = 512 OBVIOUS
  <2>11. k = 10 => 2 ^ k = 1024 OBVIOUS
  <2>12. k = 11 => 2 ^ k = 2048 OBVIOUS
  <2>13. k = 12 => 2 ^ k = 4096 OBVIOUS
  <2>14. k = 13 => 2 ^ k = 8192 OBVIOUS
  <2>15. k = 14 => 2 ^ k = 16384 OBVIOUS
  <2>16. k = 15 => 2 ^ k = 32768 OBVIOUS
  <2>17. k = 16 => 2 ^ k = 65536 OBVIOUS
  <2>18. \/ k = 0 \/ k = 1 \/ k = 2 \/ k = 3 \/ k = 4 \/ k = 5 \/ k = 6 \/ k = 7 \/ k = 8
         \/ k = 9 \/ k = 10 \/ k = 11 \/ k = 12 \/ k = 13 \/ k = 14 \/ k = 15 \/ k = 16
    BY <1>1
  <2> QED BY <2>1, <2>2, <2>3, <2>4, <2>5, <2>6, <2>7, <2>8, <2>9, <2>10, <2>11, <2>12, <2>13, <2>14, <2>15, <2>16, <2>17, <2>18
<1> DEFINE m == 2 ^ k
<1>3. m \in Nat \ {0} BY <1>2
<1> HIDE DEF m
<1>4. BaseDelay * m \in Nat \ {0} BY <1>3, BackoffAssumption
<1>5. Delay(n) = IF BaseDelay * m < MaxDelay THEN BaseDelay * m ELSE MaxDelay BY DEF Delay, m
<1> QED BY <1>4, <1>5, BackoffAssumption

LEMMA AllowedGrows ==
    ASSUME NEW w \in Nat
    PROVE  /\ Allowed(w) \in Nat /\ FreeAttempts <= Allowed(w)
           /\ Allowed(w + 1) = Allowed(w) + Unlocks
<1>1. FreeAttempts \in Nat /\ Unlocks \in Nat BY BackoffAssumption, TimesAssumption
<1>2. Unlocks * w \in Nat /\ Unlocks * (w + 1) = Unlocks * w + Unlocks BY <1>1
<1> QED BY <1>1, <1>2 DEF Allowed

\* A miss: one more failure, and a delay in force unless the free ones still cover it.
LEMMA MissFacts ==
    ASSUME ClocksOk, WrongPassphrase
    PROVE  /\ backoff' \in PassphraseBackoff /\ backoff'.failures = backoff.failures + 1
           /\ backoff'.failures <= MaxMisses /\ waited' = waited
           /\ Blocked(backoff)' \/ (~Blocked(backoff) /\ backoff'.failures <= FreeAttempts)
<1>1. /\ backoff.failures \in Nat /\ backoff.left \in 0..MaxDelay /\ backoff.failures < MaxMisses
      /\ backoff.failures + 1 \in Nat /\ waited' = waited /\ MaxMisses \in Nat
  BY TimesAssumption DEF ClocksOk, WrongPassphrase, PassphraseBackoff
<1> DEFINE n == backoff.failures + 1
           l == IF n > FreeAttempts THEN Delay(n) ELSE backoff.left
<1>2. backoff' = [failures |-> n, left |-> l] BY DEF WrongPassphrase, RecordFailure
<1>3. n > FreeAttempts => Delay(n) \in 1..MaxDelay BY <1>1, DelayBounds
<1>4. l \in 0..MaxDelay /\ (n > FreeAttempts => l > 0) /\ (n <= FreeAttempts => l = backoff.left)
  BY <1>1, <1>3, BackoffAssumption
<1> HIDE DEF l
<1>5. backoff'.failures = n /\ backoff'.left = l /\ backoff' \in PassphraseBackoff
  BY <1>1, <1>2, <1>4 DEF PassphraseBackoff
<1> QED BY <1>1, <1>4, <1>5, BackoffAssumption DEF Blocked

LEMMA RightFacts ==
    ASSUME RightPassphrase
    PROVE  /\ backoff' \in PassphraseBackoff /\ backoff'.failures = 0 /\ backoff'.failures <= MaxMisses
           /\ ~Blocked(backoff)' /\ waited' = 0
BY BackoffAssumption, TimesAssumption DEF RightPassphrase, record_success, PassphraseBackoff, Blocked

LEMMA ElapseFacts ==
    ASSUME ClocksOk, backoff' = Elapse(backoff), waited' = (IF backoff.left = 1 THEN waited + 1 ELSE waited)
    PROVE  /\ backoff' \in PassphraseBackoff /\ backoff'.failures = backoff.failures /\ waited' \in Nat
           /\ IF Blocked(backoff)' THEN Blocked(backoff) /\ waited' = waited
              ELSE waited' = IF Blocked(backoff) THEN waited + 1 ELSE waited
<1>1. backoff.failures \in Nat /\ backoff.left \in 0..MaxDelay /\ backoff \in PassphraseBackoff /\ waited \in Nat
  BY DEF ClocksOk, PassphraseBackoff
<1> DEFINE l == IF backoff.left > 0 THEN backoff.left - 1 ELSE 0
<1>2. l \in 0..MaxDelay BY <1>1, BackoffAssumption
<1>3. backoff' = [backoff EXCEPT !.left = l] BY DEF Elapse
<1>4. backoff'.failures = backoff.failures /\ backoff'.left = l /\ backoff' \in PassphraseBackoff
  BY <1>1, <1>2, <1>3 DEF PassphraseBackoff
<1> QED BY <1>1, <1>4, BackoffAssumption DEF Blocked

--------------------------------------------------------------------------------
(* What the steps share.                                                   *)

LEMMA HeadServed ==
    ASSUME LockInv, NEW p, Holds(p), session' = Tail(session)
    PROVE  /\ p \in Waiters /\ Stands(session, p) /\ Line(session)'
           /\ \A q : q # p => (Stands(session, q)' <=> Stands(session, q))
           /\ p # "unlock" => ~Stands(session, p)'
           /\ \A q : Stands(session, q)' => Stands(session, q)
           /\ Guesses(session) \in Nat /\ Guesses(session)' \in Nat
           /\ Guesses(session) = IF p = "unlock" THEN Guesses(session)' + 1 ELSE Guesses(session)'
<1>1. Line(session) /\ session # << >> /\ Head(session) = p BY DEF LockInv, QueueOk, Holds
<1> DEFINE t == Tail(session)
<1>2. /\ p \in Waiters /\ Stands(session, p) /\ Line(t)
      /\ \A q : q # p => (Stands(t, q) <=> Stands(session, q))
      /\ p # "unlock" => ~Stands(t, p)
      /\ \A q : Stands(t, q) => Stands(session, q)
      /\ Guesses(session) = IF p = "unlock" THEN Guesses(t) + 1 ELSE Guesses(t)
  BY <1>1, Served
<1>3. Guesses(session) \in Nat /\ Guesses(t) \in Nat BY <1>1, <1>2, GuessesAreNat DEF Line
<1> HIDE DEF t
<1>4. session' = t BY DEF t
<1> QED BY <1>2, <1>3, <1>4

LEMMA TailJoined ==
    ASSUME LockInv, NEW p \in Waiters, p = "unlock" \/ ~Stands(session, p), session' = Append(session, p)
    PROVE  /\ Line(session)'
           /\ \A q : Stands(session, q)' <=> Stands(session, q) \/ q = p
           /\ Guesses(session) \in Nat /\ Guesses(session)' \in Nat
           /\ Guesses(session)' = IF p = "unlock" THEN Guesses(session) + 1 ELSE Guesses(session)
<1>1. Line(session) BY DEF LockInv, QueueOk
<1> DEFINE t == Append(session, p)
<1>2. /\ Line(t)
      /\ \A q : Stands(t, q) <=> Stands(session, q) \/ q = p
      /\ Guesses(t) = IF p = "unlock" THEN Guesses(session) + 1 ELSE Guesses(session)
  BY <1>1, Joined
<1>3. Guesses(session) \in Nat /\ Guesses(t) \in Nat BY <1>1, <1>2, GuessesAreNat DEF Line
<1> HIDE DEF t
<1>4. session' = t BY DEF t
<1> QED BY <1>2, <1>3, <1>4

LEMMA AnswerFacts ==
    ASSUME FormOk, NEW phrase \in BOOLEAN, Answer(phrase)
    PROVE  form' \in Forms /\ Timed(form)' /\ ~form'.busy /\ form'.open = form.open
<1>1. form \in Forms /\ Timed(form) BY DEF FormOk
<1>2. AutoHide \in 0..NoTimer /\ NoTimer \in 0..NoTimer /\ AutoHide + 0 = AutoHide
  BY TimesAssumption DEF NoTimer
<1> DEFINE timer == IF phrase THEN AutoHide ELSE NoTimer
<1>3. CASE ~form.busy
  <2>1. form' = form BY <1>3 DEF Answer
  <2> QED BY <1>1, <1>3, <2>1
<1>4. CASE form.busy
  <2>1. form' = [form EXCEPT !.busy = FALSE, !.phrase = phrase, !.age = 0, !.timer = timer]
    BY <1>4 DEF Answer
  <2>2. timer \in 0..NoTimer BY <1>2
  <2> HIDE DEF timer
  <2>3. /\ form' \in Forms /\ ~form'.busy /\ form'.phrase = phrase /\ form'.open = form.open
        /\ form'.age = 0 /\ form'.timer = timer
    BY <1>1, <2>1, <2>2 DEF Forms
  <2> QED BY <1>2, <2>3 DEF Timed, timer
<1> QED BY <1>3, <1>4

\* What a step leaves alone stays as it was.
LEMMA ClocksKept ==
    ASSUME LockInv, UNCHANGED <<vault, unlocked, clocks, guard>>
    PROVE  ClocksOk'
BY DEF LockInv, ClocksOk, clocks, guard

LEMMA ExposureKept ==
    ASSUME LockInv, UNCHANGED <<unlocked, clocks>>
    PROVE  ExposureOk'
BY DEF LockInv, ExposureOk, Overdue, clocks

\* Guesses that leave the queue without a verdict are paid for as before.
LEMMA GuessesFall ==
    ASSUME LockInv, UNCHANGED guard, UnderWay' \in Nat, UnderWay \in Nat, UnderWay' <= UnderWay,
           Guesses(session)' <= (IF unlocked' THEN Unlocks - 1 ELSE Unlocks)
    PROVE  GuessesOk'
<1>1. backoff' = backoff /\ waited' = waited /\ waited \in Nat /\ backoff.failures \in Nat
  BY DEF LockInv, ClocksOk, PassphraseBackoff, guard
<1>2. Allowed(waited + 1) \in Nat BY <1>1, AllowedGrows
<1>3. Blocked(backoff)' <=> Blocked(backoff) BY <1>1 DEF Blocked
<1>4. CASE Blocked(backoff)
  <2>1. backoff.failures + UnderWay <= Allowed(waited + 1) BY <1>4 DEF LockInv, GuessesOk
  <2>2. backoff'.failures + UnderWay' <= Allowed(waited' + 1) BY <1>1, <1>2, <2>1
  <2> QED BY <1>3, <1>4, <2>2 DEF GuessesOk
<1>5. CASE ~Blocked(backoff)
  <2>1. backoff'.failures <= Allowed(waited') BY <1>1, <1>5 DEF LockInv, GuessesOk
  <2> QED BY <1>3, <1>5, <2>1 DEF GuessesOk
<1> QED BY <1>4, <1>5

LEMMA Counts == 0 \in 0..Cap /\ Poll \in 0..Poll /\ \A n \in 0..Cap : Later(n) \in 0..Cap /\ Later(n) <= n + 1
BY TimesAssumption DEF Cap, Later

LEMMA UnderWayIsNat ==
    ASSUME Line(session)
    PROVE  UnderWay \in Nat /\ Guesses(session) \in Nat /\ Guesses(session) <= UnderWay
<1>1. Guesses(session) \in Nat BY GuessesAreNat DEF Line
<1> QED BY <1>1 DEF UnderWay

--------------------------------------------------------------------------------
(* The task.                                                               *)

LEMMA AutoCheckKeeps == ASSUME LockInv, AutoCheck PROVE LockInv'
<1>1. /\ task = "sleep" /\ nap = 0 /\ ~Stands(session, "auto") /\ "auto" \in Waiters
      /\ UNCHANGED <<vault, unlocked, idle, enabled, toTouch, over, guard, form>>
  BY DEF LockInv, QueueOk, AutoCheck, Waiters
<1>2. Poll \in 0..Poll BY TimesAssumption
<1>3. CASE enabled /\ idle >= Window
  <2>1. task' = "wait" /\ nap' = nap /\ session' = Append(session, "auto") BY <1>3 DEF AutoCheck
  <2>2. /\ Line(session)'
        /\ \A q : Stands(session, q)' <=> Stands(session, q) \/ q = "auto"
        /\ Guesses(session)' = Guesses(session)
    BY <1>1, <2>1, TailJoined
  <2>3. ClocksOk' BY <1>1, <2>1 DEF LockInv, ClocksOk, guard
  <2>4. QueueOk' BY <1>1, <2>1, <2>2 DEF LockInv, QueueOk, Commands
  <2>5. FormOk' BY <1>1, <2>2 DEF LockInv, FormOk
  <2>6. ExposureOk' BY <1>1, <2>1 DEF LockInv, ExposureOk
  <2>7. GuessesOk' BY <1>1, <2>2 DEF LockInv, GuessesOk, UnderWay, guard
  <2> QED BY <2>3, <2>4, <2>5, <2>6, <2>7 DEF LockInv
<1>4. CASE ~(enabled /\ idle >= Window)
  <2>1. task' = "sleep" /\ nap' = Poll /\ session' = session BY <1>4 DEF AutoCheck, Sleep
  <2>2. ClocksOk' BY <1>1, <1>2, <2>1 DEF LockInv, ClocksOk, guard
  <2>3. QueueOk' BY <1>1, <2>1 DEF LockInv, QueueOk
  <2>4. FormOk' BY <1>1, <2>1 DEF LockInv, FormOk
  <2>5. ExposureOk' BY <1>1, <1>4, <2>1 DEF LockInv, ExposureOk, Overdue
  <2>6. GuessesOk' BY <1>1, <2>1 DEF LockInv, GuessesOk, UnderWay, guard
  <2> QED BY <2>2, <2>3, <2>4, <2>5, <2>6 DEF LockInv
<1> QED BY <1>3, <1>4

LEMMA AutoLockKeeps == ASSUME LockInv, AutoLock PROVE LockInv'
<1>1. /\ unlocked' = FALSE /\ over' = 0 /\ task' = "sleep" /\ nap' = Poll /\ session' = Tail(session)
      /\ Holds("auto") /\ UNCHANGED <<vault, idle, enabled, toTouch, guard, form>>
  BY DEF AutoLock, Sleep
<1>2. /\ Line(session)' /\ Stands(session, "auto") /\ ~Stands(session, "auto")'
      /\ \A q : q # "auto" => (Stands(session, q)' <=> Stands(session, q))
      /\ Guesses(session)' = Guesses(session) /\ Guesses(session) \in Nat
  BY <1>1, HeadServed
<1>3. ClocksOk' BY <1>1, Counts DEF LockInv, ClocksOk, guard
<1>4. QueueOk' BY <1>1, <1>2 DEF LockInv, QueueOk, Commands
<1>5. FormOk' BY <1>1, <1>2 DEF LockInv, FormOk
<1>6. ExposureOk' BY <1>1 DEF ExposureOk, Overdue
<1>7. GuessesOk'
  <2>1. Guesses(session)' <= Unlocks BY <1>2, TimesAssumption DEF LockInv, GuessesOk
  <2>2. UnderWay' = Guesses(session) BY <1>1, <1>2 DEF UnderWay
  <2>3. UnderWay \in Nat /\ Guesses(session) <= UnderWay BY UnderWayIsNat DEF LockInv, QueueOk
  <2> QED BY <1>1, <1>2, <2>1, <2>2, <2>3, GuessesFall
<1> QED BY <1>3, <1>4, <1>5, <1>6, <1>7 DEF LockInv

--------------------------------------------------------------------------------
(* The commands.                                                           *)

LEMMA CallKeeps ==
    ASSUME LockInv, NEW p \in {"unlock", "lock", "deploy", "setup"}, Call(p)
    PROVE  LockInv'
<1>1. /\ session' = Append(session, p) /\ UNCHANGED <<vault, unlocked, clocks, guard, form>>
      /\ Offered(p) /\ (p = "unlock" => ~Blocked(backoff)) /\ p \in Waiters
  BY DEF Call, Waiters, Commands
<1>2. /\ p = "unlock" => vault /\ ~unlocked /\ Guesses(session) < Unlocks
      /\ p = "setup" => ~vault /\ ~unlocked
      /\ p \in {"lock", "deploy"} => unlocked
      /\ p # "unlock" => ~Stands(session, p)
  BY <1>1, WaitingIsStanding DEF Offered
<1>3. /\ Line(session)'
      /\ \A q : Stands(session, q)' <=> Stands(session, q) \/ q = p
      /\ Guesses(session) \in Nat /\ Guesses(session)' \in Nat
      /\ Guesses(session)' = IF p = "unlock" THEN Guesses(session) + 1 ELSE Guesses(session)
  BY <1>1, <1>2, TailJoined
<1>4. ClocksOk' BY <1>1, ClocksKept
<1>5. QueueOk' BY <1>1, <1>2, <1>3 DEF LockInv, QueueOk, Commands, clocks
<1>6. FormOk' BY <1>1, <1>3 DEF LockInv, FormOk
<1>7. ExposureOk' BY <1>1, ExposureKept
<1>8. GuessesOk'
  <2>1. /\ backoff' = backoff /\ waited' = waited /\ unlocked' = unlocked
        /\ Blocked(backoff)' <=> Blocked(backoff)
    BY <1>1 DEF guard, Blocked
  <2>2. CASE p = "unlock"
    <3>1. Guesses(session)' <= Unlocks /\ ~unlocked' BY <1>2, <1>3, <2>1, <2>2, TimesAssumption
    <3>2. ~Blocked(backoff)' /\ backoff'.failures <= Allowed(waited')
      BY <1>1, <2>1, <2>2 DEF LockInv, GuessesOk
    <3> QED BY <3>1, <3>2 DEF GuessesOk
  <2>3. CASE p # "unlock"
    <3>1. /\ Guesses(session)' <= IF unlocked' THEN Unlocks - 1 ELSE Unlocks
          /\ UnderWay' = UnderWay
      BY <1>1, <1>3, <2>1, <2>3 DEF LockInv, GuessesOk, UnderWay
    <3>2. UnderWay \in Nat BY UnderWayIsNat DEF LockInv, QueueOk
    <3> QED BY <1>1, <3>1, <3>2, GuessesFall
  <2> QED BY <2>2, <2>3
<1> QED BY <1>4, <1>5, <1>6, <1>7, <1>8 DEF LockInv

\* A miss of a guess that passed the check: it was under way, and the delay it starts pays for it and for the others.
LEMMA MissIsPaidFor ==
    ASSUME LockInv, WrongPassphrase, UnderWay' \in Nat, UnderWay' = UnderWay - 1,
           Guesses(session)' <= (IF unlocked' THEN Unlocks - 1 ELSE Unlocks)
    PROVE  GuessesOk'
<1>1. /\ backoff'.failures = backoff.failures + 1 /\ waited' = waited
      /\ Blocked(backoff)' \/ (~Blocked(backoff) /\ backoff'.failures <= FreeAttempts)
      /\ backoff.failures \in Nat /\ waited \in Nat
  BY MissFacts DEF LockInv, ClocksOk, PassphraseBackoff
<1>2. /\ Allowed(waited) \in Nat /\ FreeAttempts <= Allowed(waited) /\ FreeAttempts \in Nat
      /\ Allowed(waited + 1) = Allowed(waited) + Unlocks /\ Unlocks \in Nat \ {0}
  BY <1>1, AllowedGrows, BackoffAssumption, TimesAssumption
<1>3. UnderWay \in Nat /\ UnderWay <= Unlocks
  <2>1. Guesses(session) \in Nat /\ UnderWay \in Nat BY UnderWayIsNat DEF LockInv, QueueOk
  <2> QED BY <1>2, <2>1 DEF LockInv, GuessesOk, UnderWay
<1>4. CASE Blocked(backoff)
  <2>1. backoff.failures + UnderWay <= Allowed(waited + 1) BY <1>4 DEF LockInv, GuessesOk
  <2>2. Blocked(backoff)' /\ backoff'.failures + UnderWay' <= Allowed(waited' + 1) BY <1>1, <1>2, <1>3, <1>4, <2>1
  <2> QED BY <2>2 DEF GuessesOk
<1>5. CASE ~Blocked(backoff)
  <2>1. backoff.failures <= Allowed(waited) BY <1>5 DEF LockInv, GuessesOk
  <2>2. CASE Blocked(backoff)'
    <3>1. backoff'.failures + UnderWay' <= Allowed(waited' + 1) BY <1>1, <1>2, <1>3, <2>1
    <3> QED BY <2>2, <3>1 DEF GuessesOk
  <2>3. CASE ~Blocked(backoff)'
    <3>1. backoff'.failures <= Allowed(waited') BY <1>1, <1>2, <2>3
    <3> QED BY <2>3, <3>1 DEF GuessesOk
  <2> QED BY <2>2, <2>3
<1> QED BY <1>4, <1>5

\* The right passphrase clears the account.
LEMMA HitClears ==
    ASSUME LockInv, RightPassphrase, Guesses(session)' <= (IF unlocked' THEN Unlocks - 1 ELSE Unlocks)
    PROVE  GuessesOk'
<1>1. Allowed(0) \in Nat BY AllowedGrows
<1>2. ~Blocked(backoff)' /\ backoff'.failures <= Allowed(waited') BY <1>1, RightFacts
<1> QED BY <1>2 DEF GuessesOk

LEMMA UnlockOpensKeeps == ASSUME LockInv, UnlockOpens PROVE LockInv'
<1>1. /\ Holds("unlock") /\ session' = Tail(session)
      /\ UNCHANGED <<vault, idle, task, nap, enabled, over, form>>
  BY DEF UnlockOpens
<1>2. /\ Line(session)' /\ Stands(session, "unlock")
      /\ \A q : q # "unlock" => (Stands(session, q)' <=> Stands(session, q))
      /\ \A q : Stands(session, q)' => Stands(session, q)
      /\ Guesses(session)' \in Nat /\ Guesses(session) \in Nat /\ Guesses(session) = Guesses(session)' + 1
  BY <1>1, HeadServed
<1>3. vault BY <1>2 DEF LockInv, QueueOk, Commands
<1>4. QueueOk' BY <1>1, <1>2, <1>3 DEF LockInv, QueueOk, Commands
<1>5. FormOk' BY <1>1, <1>2 DEF LockInv, FormOk
<1>6. Guesses(session)' <= Unlocks - 1 BY <1>2, TimesAssumption DEF LockInv, GuessesOk
<1>7. UnderWay \in Nat /\ UnderWay' \in Nat
      /\ (unlocked' = unlocked => UnderWay' = UnderWay - 1)
  BY <1>2 DEF UnderWay
<1>8. CASE unlocked' = TRUE /\ toTouch' = TRUE /\ RightPassphrase
  <2>1. ClocksOk' BY <1>1, <1>8, RightFacts DEF LockInv, ClocksOk
  <2>2. ExposureOk'
    BY <1>1, <1>8, TimesAssumption DEF LockInv, ClocksOk, ExposureOk, Overdue
  <2>3. GuessesOk' BY <1>6, <1>8, HitClears
  <2> QED BY <1>4, <1>5, <2>1, <2>2, <2>3 DEF LockInv
<1>9. CASE WrongPassphrase /\ UNCHANGED <<unlocked, toTouch>>
  <2>1. ClocksOk' BY <1>1, <1>9, MissFacts DEF LockInv, ClocksOk
  <2>2. ExposureOk' BY <1>1, <1>9 DEF LockInv, ExposureOk, Overdue
  <2>3. Guesses(session)' <= (IF unlocked' THEN Unlocks - 1 ELSE Unlocks) BY <1>2, <1>6, TimesAssumption
  <2>4. GuessesOk' BY <1>7, <1>9, <2>3, MissIsPaidFor
  <2> QED BY <1>4, <1>5, <2>1, <2>2, <2>4 DEF LockInv
<1>10. CASE UNCHANGED <<unlocked, toTouch, guard>>
  <2>1. ClocksOk' BY <1>1, <1>10 DEF LockInv, ClocksOk, guard
  <2>2. ExposureOk' BY <1>1, <1>10 DEF LockInv, ExposureOk, Overdue
  <2>3. Guesses(session)' <= (IF unlocked' THEN Unlocks - 1 ELSE Unlocks) BY <1>2, <1>6, TimesAssumption
  <2>4. UnderWay' <= UnderWay BY <1>7, <1>10
  <2>5. GuessesOk' BY <1>7, <1>10, <2>3, <2>4, GuessesFall
  <2> QED BY <1>4, <1>5, <2>1, <2>2, <2>5 DEF LockInv
<1> QED BY <1>8, <1>9, <1>10 DEF UnlockOpens

LEMMA UnlockTouchesKeeps == ASSUME LockInv, UnlockTouches PROVE LockInv'
<1>1. /\ toTouch' = FALSE /\ idle' = 0
      /\ UNCHANGED <<vault, unlocked, session, task, nap, enabled, over, guard, form>>
  BY DEF UnlockTouches, TouchActivity
<1>2. ClocksOk' BY <1>1, Counts DEF LockInv, ClocksOk, guard
<1>3. QueueOk' /\ FormOk' BY <1>1 DEF LockInv, QueueOk, FormOk
<1>4. ExposureOk' BY <1>1, TimesAssumption DEF LockInv, ExposureOk, Overdue
<1>5. GuessesOk' BY <1>1 DEF LockInv, GuessesOk, UnderWay, guard
<1> QED BY <1>2, <1>3, <1>4, <1>5 DEF LockInv

LEMMA LockDoneKeeps == ASSUME LockInv, LockDone PROVE LockInv'
<1>1. /\ Holds("lock") /\ session' = Tail(session) /\ unlocked' = FALSE /\ over' = 0
      /\ UNCHANGED <<vault, idle, task, nap, enabled, toTouch, guard, form>>
  BY DEF LockDone
<1>2. /\ Line(session)'
      /\ \A q : q # "lock" => (Stands(session, q)' <=> Stands(session, q))
      /\ \A q : Stands(session, q)' => Stands(session, q)
      /\ Guesses(session)' = Guesses(session) /\ Guesses(session) \in Nat
  BY <1>1, HeadServed
<1>3. ClocksOk' BY <1>1, Counts DEF LockInv, ClocksOk, guard
<1>4. QueueOk' BY <1>1, <1>2 DEF LockInv, QueueOk, Commands
<1>5. FormOk' BY <1>1, <1>2 DEF LockInv, FormOk
<1>6. ExposureOk' BY <1>1 DEF ExposureOk, Overdue
<1>7. GuessesOk'
  <2>1. Guesses(session)' <= Unlocks BY <1>2, TimesAssumption DEF LockInv, GuessesOk
  <2>2. UnderWay' = Guesses(session) BY <1>1, <1>2 DEF UnderWay
  <2>3. UnderWay \in Nat /\ Guesses(session) <= UnderWay BY UnderWayIsNat DEF LockInv, QueueOk
  <2> QED BY <1>1, <1>2, <2>1, <2>2, <2>3, GuessesFall
<1> QED BY <1>3, <1>4, <1>5, <1>6, <1>7 DEF LockInv

LEMMA SetupInstallsKeeps == ASSUME LockInv, SetupInstalls PROVE LockInv'
<1>1. /\ Holds("setup") /\ session' = Tail(session) /\ unlocked' = TRUE /\ vault' = TRUE
      /\ UNCHANGED <<clocks, guard, form>>
  BY DEF SetupInstalls
<1>2. /\ Line(session)' /\ Stands(session, "setup") /\ ~Stands(session, "setup")'
      /\ \A q : q # "setup" => (Stands(session, q)' <=> Stands(session, q))
      /\ Guesses(session)' = Guesses(session)
  BY <1>1, HeadServed
<1>3. ~vault /\ ~unlocked /\ ~Stands(session, "unlock") /\ ~Stands(session, "reveal")
  BY <1>2 DEF LockInv, QueueOk, Commands
<1>4. ClocksOk' BY <1>1 DEF LockInv, ClocksOk, clocks, guard
<1>5. QueueOk' BY <1>1, <1>2 DEF LockInv, QueueOk, clocks
<1>6. FormOk' BY <1>1, <1>2 DEF LockInv, FormOk
<1>7. ExposureOk' BY <1>1, <1>3, TimesAssumption DEF LockInv, ClocksOk, ExposureOk, clocks
<1>8. GuessesOk'
  <2>1. Guesses(session) = 0 BY <1>3, NobodyGuesses DEF LockInv, QueueOk, Line
  <2>2. ~Stands(session, "reveal")' BY <1>2, <1>3
  <2>3. UnderWay' = 0 /\ UnderWay = 0 BY <1>2, <1>3, <2>1, <2>2 DEF UnderWay
  <2>4. Guesses(session)' <= IF unlocked' THEN Unlocks - 1 ELSE Unlocks BY <1>1, <1>2, <2>1, TimesAssumption
  <2> QED BY <1>1, <2>3, <2>4, GuessesFall
<1> QED BY <1>4, <1>5, <1>6, <1>7, <1>8 DEF LockInv

LEMMA DeployDoneKeeps == ASSUME LockInv, DeployDone PROVE LockInv'
<1>1. /\ Holds("deploy") /\ session' = Tail(session)
      /\ UNCHANGED <<vault, unlocked, clocks, guard, form>>
  BY DEF DeployDone
<1>2. /\ Line(session)'
      /\ \A q : q # "deploy" => (Stands(session, q)' <=> Stands(session, q))
      /\ \A q : Stands(session, q)' => Stands(session, q)
      /\ Guesses(session)' = Guesses(session)
  BY <1>1, HeadServed
<1>3. ClocksOk' BY <1>1, ClocksKept
<1>4. QueueOk' BY <1>1, <1>2 DEF LockInv, QueueOk, clocks
<1>5. FormOk' BY <1>1, <1>2 DEF LockInv, FormOk
<1>6. ExposureOk' BY <1>1, ExposureKept
<1>7. GuessesOk' BY <1>1, <1>2 DEF LockInv, GuessesOk, UnderWay, guard
<1> QED BY <1>3, <1>4, <1>5, <1>6, <1>7 DEF LockInv

--------------------------------------------------------------------------------
(* The recovery phrase.                                                    *)

\* What the form does by itself: it never turns busy, and a phrase it keeps is timed.
LEMMA FormAlone ==
    ASSUME LockInv, UNCHANGED <<vault, unlocked, session, clocks, guard>>,
           form' \in Forms, Timed(form)', form'.busy => form.busy
    PROVE  LockInv'
<1>1. ClocksOk' BY ClocksKept
<1>2. QueueOk' BY DEF LockInv, QueueOk, clocks
<1>3. FormOk' BY DEF LockInv, FormOk
<1>4. ExposureOk' BY ExposureKept
<1>5. GuessesOk' BY DEF LockInv, GuessesOk, UnderWay, guard
<1> QED BY <1>1, <1>2, <1>3, <1>4, <1>5 DEF LockInv

\* A form whose phrase was taken away, closed or not.
LEMMA Emptied ==
    ASSUME form \in Forms
    PROVE  /\ Cleared \in Forms /\ Timed(Cleared) /\ Cleared.busy = form.busy
           /\ ~Cleared.phrase /\ Cleared.open = form.open
<1>1. NoTimer \in 0..NoTimer /\ 0 \in Nat BY TimesAssumption DEF NoTimer
<1> QED BY <1>1 DEF Cleared, Forms, Timed

LEMMA Closed ==
    ASSUME NEW f \in Forms, Timed(f)
    PROVE  LET g == [f EXCEPT !.open = FALSE]
           IN  g \in Forms /\ Timed(g) /\ g.busy = f.busy /\ g.phrase = f.phrase /\ ~g.open
BY DEF Forms, Timed

LEMMA CollapsedIsEmpty == Collapsed \in Forms /\ Timed(Collapsed) /\ ~Collapsed.busy /\ ~Collapsed.phrase
<1>1. NoTimer \in 0..NoTimer /\ 0 \in Nat BY TimesAssumption DEF NoTimer
<1> QED BY <1>1 DEF Collapsed, Forms, Timed

LEMMA ExpandKeeps == ASSUME LockInv, Expand PROVE LockInv' /\ form'.phrase = form.phrase /\ form'.open
<1>1. /\ form' = [form EXCEPT !.open = TRUE] /\ form \in Forms /\ Timed(form)
      /\ UNCHANGED <<vault, unlocked, session, clocks, guard>>
  BY DEF Expand, LockInv, FormOk
<1>2. form' \in Forms /\ Timed(form)' /\ form'.busy = form.busy /\ form'.phrase = form.phrase /\ form'.open
  BY <1>1 DEF Forms, Timed
<1> QED BY <1>1, <1>2, FormAlone

LEMMA RevealKeeps == ASSUME LockInv, Reveal PROVE LockInv' /\ ~form'.phrase
<1>1. /\ session' = Append(session, "askReveal") /\ form' = [form EXCEPT !.busy = TRUE]
      /\ ~form.phrase /\ Offered("askReveal") /\ ~Waits("reveal")
      /\ UNCHANGED <<vault, unlocked, clocks, guard>>
  BY DEF Reveal
<1>2. unlocked /\ ~Stands(session, "askReveal") /\ ~Stands(session, "reveal") /\ "askReveal" \in Waiters
  BY <1>1, WaitingIsStanding DEF Offered, Waiters, Commands
<1>3. /\ Line(session)'
      /\ \A q : Stands(session, q)' <=> Stands(session, q) \/ q = "askReveal"
      /\ Guesses(session)' = Guesses(session)
  BY <1>1, <1>2, TailJoined
<1>4. ClocksOk' BY <1>1, ClocksKept
<1>5. QueueOk' BY <1>1, <1>2, <1>3 DEF LockInv, QueueOk, clocks
<1>6. form' \in Forms /\ Timed(form)' /\ ~form'.phrase
  BY <1>1 DEF LockInv, FormOk, Forms, Timed
<1>7. FormOk' BY <1>3, <1>6 DEF FormOk
<1>8. ExposureOk' BY <1>1, ExposureKept
<1>9. GuessesOk' BY <1>1, <1>3 DEF LockInv, GuessesOk, UnderWay, guard
<1> QED BY <1>4, <1>5, <1>6, <1>7, <1>8, <1>9 DEF LockInv

LEMMA RevealAsksKeeps == ASSUME LockInv, RevealAsks PROVE LockInv'
<1>1. Holds("askReveal") /\ UNCHANGED <<vault, unlocked, clocks, guard>> BY DEF RevealAsks
<1>2. ClocksOk' /\ ExposureOk' BY <1>1, ClocksKept, ExposureKept
<1>3. CASE Blocked(backoff)
  <2>1. session' = Tail(session) /\ Answer(FALSE) BY <1>3 DEF RevealAsks
  <2>2. /\ Line(session)'
        /\ \A q : q # "askReveal" => (Stands(session, q)' <=> Stands(session, q))
        /\ \A q : Stands(session, q)' => Stands(session, q)
        /\ Guesses(session)' = Guesses(session)
    BY <1>1, <2>1, HeadServed
  <2>3. form' \in Forms /\ Timed(form)' /\ ~form'.busy BY <2>1, AnswerFacts DEF LockInv
  <2>4. QueueOk' BY <1>1, <2>2 DEF LockInv, QueueOk, clocks
  <2>5. FormOk' BY <2>3 DEF FormOk
  <2>6. GuessesOk' BY <1>1, <2>2 DEF LockInv, GuessesOk, UnderWay, guard
  <2> QED BY <1>2, <2>4, <2>5, <2>6 DEF LockInv
<1>4. CASE ~Blocked(backoff)
  <2> DEFINE t == Tail(session)
             u == Append(t, "reveal")
  <2>1. session' = u /\ form' = form BY <1>4 DEF RevealAsks
  <2>2. Line(session) /\ session # << >> /\ Head(session) = "askReveal" /\ "reveal" \in Waiters
    BY <1>1 DEF LockInv, QueueOk, Holds, Waiters, Commands
  <2>3. /\ Line(t) /\ Stands(session, "askReveal") /\ ~Stands(t, "askReveal")
        /\ \A q : q # "askReveal" => (Stands(t, q) <=> Stands(session, q))
        /\ Guesses(t) = Guesses(session)
    BY <2>2, Served
  <2>4. ~Stands(session, "reveal") /\ ~Stands(t, "reveal") BY <2>3 DEF LockInv, QueueOk
  <2> HIDE DEF t
  <2>5. /\ Line(u) /\ (\A q : Stands(u, q) <=> Stands(t, q) \/ q = "reveal")
        /\ Guesses(u) = Guesses(t)
    BY <2>2, <2>3, <2>4, Joined
  <2> HIDE DEF u
  <2>6. /\ Line(session)' /\ Stands(session, "reveal")' /\ ~Stands(session, "askReveal")'
        /\ \A q : q \notin {"askReveal", "reveal"} => (Stands(session, q)' <=> Stands(session, q))
        /\ Guesses(session)' = Guesses(session)
    BY <2>1, <2>3, <2>5
  <2>7. vault /\ QueueOk' BY <1>1, <2>3, <2>6 DEF LockInv, QueueOk, Commands, clocks
  <2>8. FormOk' BY <2>1, <2>6 DEF LockInv, FormOk
  <2>9. GuessesOk'
    <3>1. backoff' = backoff /\ waited' = waited /\ unlocked' = unlocked BY <1>1 DEF guard
    <3>2. Guesses(session)' <= (IF unlocked' THEN Unlocks - 1 ELSE Unlocks)
      BY <2>6, <3>1 DEF LockInv, GuessesOk
    <3>3. ~Blocked(backoff)' /\ backoff'.failures <= Allowed(waited')
      BY <1>4, <3>1 DEF LockInv, GuessesOk, Blocked
    <3> QED BY <3>2, <3>3 DEF GuessesOk
  <2> QED BY <1>2, <2>7, <2>8, <2>9 DEF LockInv
<1> QED BY <1>3, <1>4

LEMMA RevealOpensKeeps == ASSUME LockInv, RevealOpens PROVE LockInv' /\ form'.open = form.open
<1>1. /\ Holds("reveal") /\ session' = Tail(session) /\ UNCHANGED <<vault, unlocked, clocks>>
      /\ \E phrase \in BOOLEAN : Answer(phrase)
  BY DEF RevealOpens
<1>2. /\ Line(session)' /\ Stands(session, "reveal") /\ ~Stands(session, "reveal")'
      /\ \A q : q # "reveal" => (Stands(session, q)' <=> Stands(session, q))
      /\ \A q : Stands(session, q)' => Stands(session, q)
      /\ Guesses(session)' = Guesses(session) /\ Guesses(session) \in Nat
  BY <1>1, HeadServed
<1>3. form' \in Forms /\ Timed(form)' /\ ~form'.busy /\ form'.open = form.open
  BY <1>1, AnswerFacts DEF LockInv
<1>4. QueueOk' BY <1>1, <1>2 DEF LockInv, QueueOk, clocks
<1>5. FormOk' BY <1>3 DEF FormOk
<1>6. ExposureOk' BY <1>1, ExposureKept
<1>7. unlocked' = unlocked /\ (Guesses(session)' <= IF unlocked' THEN Unlocks - 1 ELSE Unlocks)
  BY <1>1, <1>2 DEF LockInv, GuessesOk
<1>8. UnderWay' = Guesses(session) /\ UnderWay = (IF unlocked THEN Guesses(session) + 1 ELSE Guesses(session))
  BY <1>2 DEF UnderWay
<1>9. CASE ~unlocked /\ UNCHANGED guard
  <2>1. ClocksOk' BY <1>1, <1>9, ClocksKept
  <2>2. UnderWay' <= UnderWay /\ UnderWay \in Nat /\ UnderWay' \in Nat BY <1>2, <1>8, <1>9
  <2>3. GuessesOk' BY <1>7, <1>9, <2>2, GuessesFall
  <2> QED BY <1>3, <1>4, <1>5, <1>6, <2>1, <2>3 DEF LockInv
<1>10. CASE unlocked /\ RightPassphrase
  <2>1. ClocksOk' BY <1>1, <1>10, RightFacts DEF LockInv, ClocksOk, clocks
  <2>2. GuessesOk' BY <1>7, <1>10, HitClears
  <2> QED BY <1>3, <1>4, <1>5, <1>6, <2>1, <2>2 DEF LockInv
<1>11. CASE unlocked /\ WrongPassphrase
  <2>1. ClocksOk' BY <1>1, <1>11, MissFacts DEF LockInv, ClocksOk, clocks
  <2>2. UnderWay' \in Nat /\ UnderWay' = UnderWay - 1 BY <1>2, <1>8, <1>11
  <2>3. GuessesOk' BY <1>7, <1>11, <2>2, MissIsPaidFor
  <2> QED BY <1>3, <1>4, <1>5, <1>6, <2>1, <2>3 DEF LockInv
<1> QED BY <1>9, <1>10, <1>11 DEF RevealOpens

\* Cancel, Hide, the timer and leaving the tab take the phrase out of the page.
LEMMA HidingKeeps == ASSUME LockInv, Hide \/ HideTimer \/ LeaveTab PROVE LockInv' /\ ~form'.phrase
<1>1. UNCHANGED <<vault, unlocked, session, clocks, guard>> BY DEF Hide, HideTimer, LeaveTab
<1>2. /\ Cleared \in Forms /\ Timed(Cleared) /\ Cleared.busy = form.busy /\ ~Cleared.phrase
  BY Emptied DEF LockInv, FormOk
<1>3. CASE Hide
  <2> DEFINE e == Cleared
  <2>1. form' = [e EXCEPT !.open = FALSE] BY <1>3 DEF Hide
  <2>2. e \in Forms /\ Timed(e) /\ e.busy = form.busy /\ ~e.phrase BY <1>2
  <2> HIDE DEF e
  <2>3. form' \in Forms /\ Timed(form)' /\ form'.busy = form.busy /\ ~form'.phrase
    BY <2>1, <2>2, Closed
  <2> QED BY <1>1, <2>3, FormAlone
<1>4. CASE HideTimer
  <2>1. form' \in Forms /\ Timed(form)' /\ form'.busy = form.busy /\ ~form'.phrase BY <1>2, <1>4 DEF HideTimer
  <2> QED BY <1>1, <2>1, FormAlone
<1>5. CASE LeaveTab
  <2>1. form' \in Forms /\ Timed(form)' /\ ~form'.busy /\ ~form'.phrase BY <1>5, CollapsedIsEmpty DEF LeaveTab
  <2> QED BY <1>1, <2>1, FormAlone
<1> QED BY <1>3, <1>4, <1>5

--------------------------------------------------------------------------------
(* Activity, the setting and time.                                         *)

LEMMA RpcRequestKeeps == ASSUME LockInv, RpcRequest PROVE LockInv'
<1>1. /\ idle' = 0
      /\ UNCHANGED <<vault, unlocked, session, task, nap, enabled, toTouch, over, guard, form>>
  BY DEF RpcRequest, TouchActivity
<1>2. ClocksOk' BY <1>1, Counts DEF LockInv, ClocksOk, guard
<1>3. QueueOk' /\ FormOk' BY <1>1 DEF LockInv, QueueOk, FormOk
<1>4. ExposureOk' BY <1>1, TimesAssumption DEF LockInv, ExposureOk, Overdue
<1>5. GuessesOk' BY <1>1 DEF LockInv, GuessesOk, UnderWay, guard
<1> QED BY <1>2, <1>3, <1>4, <1>5 DEF LockInv

LEMMA SetAutoLockKeeps == ASSUME LockInv, SetAutoLock PROVE LockInv'
<1>1. /\ enabled' = ~enabled /\ over' = 0
      /\ UNCHANGED <<vault, unlocked, session, idle, task, nap, toTouch, guard, form>>
  BY DEF SetAutoLock
<1>2. ClocksOk' BY <1>1, Counts DEF LockInv, ClocksOk, guard
<1>3. QueueOk' /\ FormOk' BY <1>1 DEF LockInv, QueueOk, FormOk
<1>4. ExposureOk' BY <1>1, TimesAssumption DEF LockInv, ClocksOk, ExposureOk
<1>5. GuessesOk' BY <1>1 DEF LockInv, GuessesOk, UnderWay, guard
<1> QED BY <1>2, <1>3, <1>4, <1>5 DEF LockInv

LEMMA TickKeeps == ASSUME LockInv, Tick PROVE LockInv' /\ form'.open = form.open
<1>1. /\ idle' = Later(idle) /\ over' = (IF Overdue THEN Later(over) ELSE 0)
      /\ nap' = (IF task = "sleep" THEN nap - 1 ELSE nap)
      /\ UNCHANGED <<vault, unlocked, session, task, enabled, toTouch>>
      /\ task = "sleep" => nap # 0
      /\ form.timer # 0
      /\ backoff' = Elapse(backoff) /\ waited' = (IF backoff.left = 1 THEN waited + 1 ELSE waited)
  BY DEF Tick, Runnable
<1>2. /\ idle \in 0..Cap /\ over \in 0..Cap /\ nap \in 0..Poll /\ ClocksOk /\ waited \in Nat
      /\ backoff.failures \in Nat /\ backoff.failures <= MaxMisses
  BY DEF LockInv, ClocksOk, PassphraseBackoff
<1>3. /\ Later(idle) \in 0..Cap /\ Later(over) \in 0..Cap /\ Later(over) <= over + 1 /\ 0 \in 0..Cap
      /\ Poll \in Nat /\ Cap \in Nat
  BY <1>2, Counts, TimesAssumption DEF Cap
<1>4. nap' \in 0..Poll BY <1>1, <1>2, <1>3
<1>5. over' \in 0..Cap /\ (~unlocked => over' = 0) BY <1>1, <1>3 DEF Overdue
<1>6. /\ backoff' \in PassphraseBackoff /\ backoff'.failures = backoff.failures /\ waited' \in Nat
      /\ IF Blocked(backoff)' THEN Blocked(backoff) /\ waited' = waited
         ELSE waited' = IF Blocked(backoff) THEN waited + 1 ELSE waited
  BY <1>1, <1>2, ElapseFacts
<1>7. ClocksOk' BY <1>1, <1>2, <1>3, <1>4, <1>5, <1>6 DEF ClocksOk
<1>8. QueueOk' BY <1>1 DEF LockInv, QueueOk
<1>9. form' \in Forms /\ Timed(form)' /\ form'.busy = form.busy /\ form'.open = form.open
  <2>1. form \in Forms /\ Timed(form) BY DEF LockInv, FormOk
  <2>2. CASE ~form.phrase
    <3>1. form' = form BY <2>2 DEF Tick
    <3> QED BY <2>1, <3>1
  <2>3. CASE form.phrase
    <3>1. form.timer \in 1..NoTimer /\ form.age \in Nat /\ form.timer + form.age = AutoHide
      BY <1>1, <2>1, <2>3, TimesAssumption DEF Forms, Timed, NoTimer
    <3>2. form.timer # NoTimer /\ form.timer - 1 \in 0..NoTimer
      BY <3>1, TimesAssumption DEF NoTimer
    <3>3. form' = [form EXCEPT !.age = form.age + 1, !.timer = form.timer - 1]
      BY <2>3, <3>2 DEF Tick
    <3>4. /\ form'.timer = form.timer - 1 /\ form'.age = form.age + 1 /\ form'.phrase = form.phrase
          /\ form'.busy = form.busy /\ form'.open = form.open /\ form' \in Forms
      <4> DEFINE a == form.age + 1
                 l == form.timer - 1
      <4>1. a \in Nat /\ l \in 0..NoTimer /\ form' = [form EXCEPT !.age = a, !.timer = l] BY <3>1, <3>2, <3>3
      <4> HIDE DEF a, l
      <4>2. /\ form'.timer = l /\ form'.age = a /\ form'.phrase = form.phrase
            /\ form'.busy = form.busy /\ form'.open = form.open /\ form' \in Forms
        BY <2>1, <4>1 DEF Forms
      <4> QED BY <4>2 DEF a, l
    <3>5. form'.timer + form'.age = AutoHide BY <3>1, <3>4
    <3> QED BY <2>3, <3>4, <3>5 DEF Timed
  <2> QED BY <2>2, <2>3
<1>10. FormOk' BY <1>1, <1>9 DEF LockInv, FormOk
<1>11. ExposureOk'
  <2>1. ASSUME Overdue', task' = "sleep" PROVE over' + nap' <= Poll
    <3>1. task = "sleep" /\ nap' = nap - 1 BY <1>1, <2>1
    <3>2. CASE Overdue
      <4>1. over + nap <= Poll BY <3>1, <3>2 DEF LockInv, ExposureOk
      <4> QED BY <1>1, <1>2, <1>3, <3>1, <3>2, <4>1
    <3>3. CASE ~Overdue
      <4> QED BY <1>1, <1>2, <1>3, <1>4, <3>3
    <3> QED BY <3>2, <3>3
  <2>2. ~unlocked' => over' = 0 BY <1>1, <1>5
  <2> QED BY <2>1, <2>2 DEF ExposureOk
<1>12. GuessesOk'
  <2>1. Guesses(session)' <= (IF unlocked' THEN Unlocks - 1 ELSE Unlocks)
    BY <1>1 DEF LockInv, GuessesOk
  <2>2. UnderWay' = UnderWay /\ UnderWay \in Nat BY <1>1, UnderWayIsNat DEF LockInv, QueueOk, UnderWay
  <2>3. Allowed(waited + 1) \in Nat BY <1>2, AllowedGrows
  <2>4. CASE Blocked(backoff)'
    <3>1. backoff.failures + UnderWay <= Allowed(waited + 1) BY <1>6, <2>4 DEF LockInv, GuessesOk
    <3>2. backoff'.failures + UnderWay' <= Allowed(waited' + 1) BY <1>6, <2>2, <2>4, <3>1
    <3> QED BY <2>1, <2>4, <3>2 DEF GuessesOk
  <2>5. CASE ~Blocked(backoff)'
    <3>1. CASE Blocked(backoff)
      <4>1. backoff.failures + UnderWay <= Allowed(waited + 1) BY <3>1 DEF LockInv, GuessesOk
      <4>2. backoff'.failures <= Allowed(waited') BY <1>2, <1>6, <2>2, <2>3, <2>5, <3>1, <4>1
      <4> QED BY <2>1, <2>5, <4>2 DEF GuessesOk
    <3>2. CASE ~Blocked(backoff)
      <4>1. backoff'.failures <= Allowed(waited') BY <1>6, <2>5, <3>2 DEF LockInv, GuessesOk
      <4> QED BY <2>1, <2>5, <4>1 DEF GuessesOk
    <3> QED BY <3>1, <3>2
  <2> QED BY <2>4, <2>5
<1> QED BY <1>7, <1>8, <1>9, <1>10, <1>11, <1>12 DEF LockInv

--------------------------------------------------------------------------------
(* The invariant and what follows from it.                                 *)

LEMMA InitLocks == Init => LockInv
<1> SUFFICES ASSUME Init PROVE LockInv OBVIOUS
<1>1. /\ vault \in BOOLEAN /\ unlocked = FALSE /\ session = << >> /\ idle = 0 /\ over = 0
      /\ task = "sleep" /\ nap = Poll /\ enabled \in BOOLEAN /\ toTouch = FALSE
      /\ backoff = record_success /\ waited = 0 /\ form = Collapsed
  BY DEF Init
<1>2. Line(session) /\ (\A p : ~Stands(session, p)) /\ Guesses(session) = 0 BY <1>1, NobodyWaits
<1>3. backoff \in PassphraseBackoff /\ backoff.failures = 0 /\ ~Blocked(backoff) /\ backoff.failures <= MaxMisses
  BY <1>1, BackoffAssumption, TimesAssumption DEF record_success, PassphraseBackoff, Blocked
<1>4. ClocksOk BY <1>1, <1>3, Counts DEF ClocksOk
<1>5. QueueOk BY <1>1, <1>2 DEF QueueOk
<1>6. FormOk BY <1>1, CollapsedIsEmpty DEF FormOk
<1>7. ExposureOk BY <1>1 DEF ExposureOk, Overdue
<1>8. GuessesOk
  <2>1. Allowed(0) \in Nat BY AllowedGrows
  <2>2. backoff.failures <= Allowed(waited) BY <1>1, <1>3, <2>1
  <2>3. Guesses(session) <= (IF unlocked THEN Unlocks - 1 ELSE Unlocks) BY <1>1, <1>2, TimesAssumption
  <2> QED BY <1>3, <2>2, <2>3 DEF GuessesOk
<1> QED BY <1>4, <1>5, <1>6, <1>7, <1>8 DEF LockInv

LEMMA NextLocks == LockInv /\ [Next]_vars => LockInv'
<1> SUFFICES ASSUME LockInv, [Next]_vars PROVE LockInv' OBVIOUS
<1>1. CASE AutoCheck BY <1>1, AutoCheckKeeps
<1>2. CASE AutoLock BY <1>2, AutoLockKeeps
<1>3. CASE \E p \in {"unlock", "lock", "deploy", "setup"} : Call(p) BY <1>3, CallKeeps
<1>4. CASE UnlockOpens BY <1>4, UnlockOpensKeeps
<1>5. CASE UnlockTouches BY <1>5, UnlockTouchesKeeps
<1>6. CASE LockDone BY <1>6, LockDoneKeeps
<1>7. CASE SetupInstalls BY <1>7, SetupInstallsKeeps
<1>8. CASE DeployDone BY <1>8, DeployDoneKeeps
<1>9. CASE Expand BY <1>9, ExpandKeeps
<1>10. CASE Reveal BY <1>10, RevealKeeps
<1>11. CASE RevealAsks BY <1>11, RevealAsksKeeps
<1>12. CASE RevealOpens BY <1>12, RevealOpensKeeps
<1>13. CASE Hide \/ HideTimer \/ LeaveTab BY <1>13, HidingKeeps
<1>14. CASE RpcRequest BY <1>14, RpcRequestKeeps
<1>15. CASE SetAutoLock BY <1>15, SetAutoLockKeeps
<1>16. CASE Tick BY <1>16, TickKeeps
<1>17. CASE UNCHANGED vars
  <2>1. UNCHANGED <<vault, unlocked, session, clocks, guard>> /\ form' = form BY <1>17 DEF vars
  <2> QED BY <2>1, FormAlone DEF LockInv, FormOk
<1> QED BY <1>1, <1>2, <1>3, <1>4, <1>5, <1>6, <1>7, <1>8, <1>9, <1>10, <1>11, <1>12, <1>13, <1>14,
           <1>15, <1>16, <1>17 DEF Next

\* Who can wait for the mutex together, how long a phrase has been in the page, what is left of the task's sleep, and
\* which guesses are under way (auto_lock, unlock, reveal_seed).
THEOREM LockInvariant == Spec => []LockInv
<1>1. LockInv /\ [Next]_vars => LockInv' BY NextLocks
<1> QED BY InitLocks, <1>1, PTL DEF Spec

\* Types, and a phrase in the page no longer than AUTO_HIDE_MS after its passphrase was given (RevealSeed.tsx).
THEOREM LockConsistent == Spec => []Consistent
<1>1. ASSUME LockInv PROVE Consistent
  <2>1. FormOk /\ form \in Forms /\ Timed(form) BY <1>1 DEF LockInv, FormOk
  <2>2. CASE form.phrase
    <3>1. form.timer \in Nat /\ form.age \in Nat /\ form.timer + form.age = AutoHide
      BY <2>1, <2>2, TimesAssumption DEF Forms, Timed, NoTimer
    <3> QED BY <1>1, <2>2, <3>1, TimesAssumption, WaitingIsStanding
         DEF Consistent, TypeOK, RevealedBriefly, LockInv, ClocksOk, QueueOk, Line, Waiters, FormOk, NoTimer
  <2>3. CASE ~form.phrase
    BY <1>1, <2>1, <2>3, WaitingIsStanding
    DEF Consistent, TypeOK, RevealedBriefly, LockInv, ClocksOk, QueueOk, Line, Waiters, FormOk, Timed
  <2> QED BY <2>2, <2>3
<1>2. LockInv => Consistent BY <1>1
<1> QED BY <1>2, LockInvariant, PTL

\* A wallet overdue for longer than one sleep of the task has the task in the mutex's queue (the auto-lock task of run).
THEOREM ExposureIsBounded == Spec => []BoundedExposure
<1>1. ASSUME LockInv, Overdue, over > Poll PROVE Waits("auto")
  <2>1. over \in Nat /\ nap \in Nat /\ Poll \in Nat /\ task \in {"sleep", "wait"}
    BY <1>1, TimesAssumption DEF LockInv, ClocksOk, Cap
  <2>2. ~(task = "sleep") BY <1>1, <2>1 DEF LockInv, ExposureOk
  <2> QED BY <1>1, <2>1, <2>2, WaitingIsStanding DEF LockInv, QueueOk
<1>2. LockInv => BoundedExposure BY <1>1 DEF BoundedExposure
<1> QED BY <1>2, LockInvariant, PTL

\* Wrong passphrases in a row are the free ones and, for each delay waited out and the one in force, no more than the
\* guesses that were under way when it began (unlock, reveal_seed, backoff.rs).
THEOREM MissesCostDelays == Spec => []MissesArePaidFor
<1>1. ASSUME LockInv PROVE MissesArePaidFor
  <2>1. backoff.failures \in Nat /\ waited \in Nat BY <1>1 DEF LockInv, ClocksOk, PassphraseBackoff
  <2>2. /\ Allowed(waited) \in Nat /\ Allowed(waited + 1) = Allowed(waited) + Unlocks /\ Unlocks \in Nat
    BY <2>1, AllowedGrows, TimesAssumption
  <2>3. UnderWay \in Nat BY <1>1, UnderWayIsNat DEF LockInv, QueueOk
  <2>4. backoff.failures <= Allowed(waited + 1) BY <1>1, <2>1, <2>2, <2>3 DEF LockInv, GuessesOk
  <2> QED BY <2>4 DEF MissesArePaidFor, Allowed
<1>2. LockInv => MissesArePaidFor BY <1>1
<1> QED BY <1>2, LockInvariant, PTL
================================================================================
