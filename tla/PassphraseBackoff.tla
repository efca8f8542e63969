----------------------------- MODULE PassphraseBackoff -----------------------------
(***************************************************************************)
(* The escalating delay after wrong passphrases (wallet-rpc/src/backoff.rs) *)
(* as operators on its record: failures in a row, and left, the ticks until *)
(* the instant it keeps in `until` (0 when there is none or it has passed). *)
(***************************************************************************)
EXTENDS Naturals

CONSTANTS FreeAttempts,         \* FREE_ATTEMPTS
          BaseDelay,            \* BASE_DELAY, in ticks
          MaxDelay              \* MAX_DELAY, in ticks

ASSUME BackoffAssumption ==
  FreeAttempts \in Nat /\ BaseDelay \in Nat \ {0} /\ MaxDelay \in Nat \ {0}

PassphraseBackoff == [failures : Nat, left : 0..MaxDelay]

record_success == [failures |-> 0, left |-> 0]

\* check: a guess is let through unless a delay is in force.
Blocked(b) == b.left > 0

\* Doubles with every miss beyond the free ones, sixteen times at most, up to the cap.
Doublings(failures) == IF failures - FreeAttempts - 1 < 16 THEN failures - FreeAttempts - 1 ELSE 16

Delay(failures) ==
  LET doubled == BaseDelay * 2 ^ Doublings(failures)
  IN  IF doubled < MaxDelay THEN doubled ELSE MaxDelay

\* A miss inside a running delay starts a new one from now.
RecordFailure(b) ==
  LET misses == b.failures + 1
  IN  [failures |-> misses, left |-> IF misses > FreeAttempts THEN Delay(misses) ELSE b.left]

Elapse(b) == [b EXCEPT !.left = IF @ > 0 THEN @ - 1 ELSE 0]
================================================================================
