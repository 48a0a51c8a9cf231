------------------------- MODULE PasswordGateHistory -------------------------
(***************************************************************************)
(* PasswordGate with history variables that count, for the statements      *)
(* about how many attempts still begin once an address has been locked.    *)
(* The history observes the steps of PasswordGate and restricts none.      *)
(***************************************************************************)
EXTENDS PasswordGate

VARIABLES
  tripped,    \* tripped[ip]: the end of the last lock written and not forgiven
  afterTrip,  \* afterTrip[s]: attempts begun since, before that end
  underLock   \* underLock[s]: attempts begun while the same lock stood on disk

historyVars == <<tripped, afterTrip, underLock>>

allVars == <<vars, historyVars>>

HistoryInit ==
  /\ tripped = [ip \in IPs |-> 0]
  /\ afterTrip = [s \in Sessions |-> 0]
  /\ underLock = [s \in Sessions |-> 0]

(* What a step did, read off the variables of PasswordGate. *)
Trying(label) == label \in {"cleanup", "verify"}

BeganAttempt(s) == ~Trying(pc[s]) /\ Trying(pc'[s])

WroteLock(ip) == ~IsLocked(file[ip], clock) /\ IsLocked(file'[ip], clock)

(* A lock that runs and is neither erased nor replaced by another. *)
LockStands(ip) == file'[ip] = file[ip] /\ IsLocked(file[ip], clock')

(* A success ends the lock of its address on purpose. *)
Forgiven(ip) ==
  \E s \in Sessions : LockoutFile(s) = ip /\ pc[s] = "reset" /\ pc'[s] = "reply"

One(b) == IF b THEN 1 ELSE 0

Observe ==
  /\ tripped' = [ip \in IPs |->
       IF WroteLock(ip) THEN file'[ip].lockedUntil
       ELSE IF Forgiven(ip) THEN 0 ELSE tripped[ip]]
  /\ afterTrip' = [s \in Sessions |->
       LET ip == LockoutFile(s)
       IN  IF WroteLock(ip) \/ Forgiven(ip) THEN 0
           ELSE afterTrip[s] + One(BeganAttempt(s) /\ clock < tripped[ip])]
  /\ underLock' = [s \in Sessions |->
       IF LockStands(LockoutFile(s)) THEN underLock[s] + One(BeganAttempt(s))
       ELSE 0]

HistoryNext == Next /\ Observe

HistorySpec == Init /\ HistoryInit /\ [][HistoryNext]_allVars

FairHistorySpec == HistorySpec /\ Fairness

-----------------------------------------------------------------------------

(* The check is repeated before every attempt: as long as one lock stands on
   disk, each session of the address, however many overlap, begins at most the
   attempt whose check had read the file before (auth.go:135-155).  Of two locks
   that overlapping writers leave one after the other, each is a lock of its
   own: a check that has read the first does not know the second. *)
OneAttemptUnderLock == \A s \in Sessions : underLock[s] <= 1

(* The stronger statement of the test: after the trip every session notices on
   its next iteration, so it makes at most one attempt before the lock ends
   (lockout_concurrency_test.go:28-31). *)
AtMostOneAfterTrip == \A s \in Sessions : afterTrip[s] <= 1

=============================================================================
