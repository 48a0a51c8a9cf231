------------------------------- MODULE Lockout -------------------------------
(***************************************************************************)
(* The arithmetic of the per-IP lockout record kept by lockout.go: two     *)
(* numbers in a small text file, with the file system left to the modules  *)
(* that use this one.  Times are whole Unix seconds, the unit the code      *)
(* stores and compares.                                                    *)
(***************************************************************************)
EXTENDS Integers

CONSTANTS
  MaxAttempts,      \* lockoutMaxAttempts (3 in the code)
  LockoutDuration,  \* lockoutDuration, in seconds (15 in the code)
  StaleAfter        \* lockoutStaleAfter, in seconds (3600 in the code)

ASSUME LockoutAssumption ==
  /\ MaxAttempts \in Nat \ {0}
  /\ LockoutDuration \in Nat \ {0}
  /\ StaleAfter \in Nat

(* The struct lockoutState. lockedUntil = 0 means "not locked". *)
LockoutState == [failCount : Nat, lockedUntil : Nat]

(* What readLockoutState returns for a missing file, and for one that holds
   no line yet: the zero struct. *)
NeverFailed == [failCount |-> 0, lockedUntil |-> 0]

(* The test of lockoutCheck, and the retryAfter it reports, in seconds. *)
IsLocked(st, now) == st.lockedUntil > now

(* Mutant: the difference taken the wrong way round. *)
RetryAfterNegated(st, now) == now - st.lockedUntil

RetryAfter(st, now) == st.lockedUntil - now

(* lockoutCheck removes the file of a lock that ended long ago. *)
IsStale(st, now) == st.lockedUntil > 0 /\ now - st.lockedUntil > StaleAfter

(* Mutant: the counter compared with > instead of >=. *)
TripsTooLate(st) == st.failCount + 1 > MaxAttempts

(* The record lockoutRecordFailure computes from the one it has read: the
   counter goes up, and the failure that fills it is traded for a lock. *)
Trips(st) == st.failCount + 1 >= MaxAttempts

(* Mutant: a lock that still runs is prolonged. *)
AfterFailureProlonging(st, now) ==
  IF Trips(st)
  THEN [failCount |-> 0,
        lockedUntil |-> (IF IsLocked(st, now) THEN st.lockedUntil ELSE now)
                        + LockoutDuration]
  ELSE [st EXCEPT !.failCount = @ + 1]

AfterFailure(st, now) ==
  IF Trips(st)
  THEN [failCount |-> 0, lockedUntil |-> now + LockoutDuration]
  ELSE [st EXCEPT !.failCount = @ + 1]

=============================================================================
