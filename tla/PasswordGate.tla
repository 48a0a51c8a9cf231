----------------------------- MODULE PasswordGate -----------------------------
(***************************************************************************)
(* runPasswordGate of auth.go, run by every cs-console process, over the   *)
(* lockout files of lockout.go that all processes of a member share.       *)
(*                                                                         *)
(* There is no daemon and no file lock: a process is one session, and the  *)
(* read, the truncation and the write of a record are separate system      *)
(* calls, so sessions of one address interleave between them.  A file is   *)
(* represented by the record readLockoutState returns for it, which is     *)
(* NeverFailed both when there is no file and while os.WriteFile has       *)
(* truncated it and not written it yet.                                    *)
(***************************************************************************)
EXTENDS Lockout

CONSTANTS
  Sessions,    \* the cs-console processes
  IPs,         \* the frontend addresses
  FrontendIP,  \* the address server.pl reported for each session
  Parallel,    \* may sessions of one address overlap?
  IOFaults,    \* may a write or a removal of a state file fail?
  MaxClock,    \* bound: the last second of the run
  MaxCrashes   \* bound: how many processes may be killed

ASSUME GateAssumption ==
  /\ FrontendIP \in [Sessions -> IPs]
  /\ Parallel \in BOOLEAN
  /\ IOFaults \in BOOLEAN
  /\ MaxClock \in Nat
  /\ MaxCrashes \in Nat

VARIABLES
  clock,       \* Unix seconds
  file,        \* file[ip]: what readLockoutState returns for the address
  pc,          \* pc[s]: where the session stands in runPasswordGate
  attempt,     \* attempt[s]: the loop variable
  st,          \* st[s]: the record the session has read or computed last
  orphan,      \* sessions writing to a file that was removed under them
  connected,   \* connected[s]: has the frontend not hung up?
  retryAfter,  \* retryAfter[s]: seconds announced in the "locked" message
  recorded,    \* recorded[ip]: failures counted so far (history)
  crashes      \* processes killed so far

vars == <<clock, file, pc, attempt, st, orphan, connected, retryAfter,
          recorded, crashes>>

(* How a session leaves the gate: the PTY may start ("passed"), the lockout
   or the third failure ended it, a frame could not be sent, or the process
   was killed. *)
Final == {"passed", "locked", "denied", "broken", "killed"}

Running == {"check", "compare", "cleanup", "verify", "reset", "reply",
            "record", "count", "open", "write"}

(* Mutant: one state file for all addresses. *)
LockoutFileShared(s) == CHOOSE ip \in IPs : TRUE

(* Sessions of an address share one state file, named after the address. *)
LockoutFile(s) == FrontendIP[s]

Peers(s) == {t \in Sessions : LockoutFile(t) = LockoutFile(s)}

Goto(s, label) == pc' = [pc EXCEPT ![s] = label]

(* os.Remove: an open handle of a writer keeps a file nobody can reach. *)
RemoveFile(s) ==
  \/ /\ file' = [file EXCEPT ![LockoutFile(s)] = NeverFailed]
     /\ orphan' = orphan \cup {t \in Peers(s) : pc[t] = "write"}
  \/ /\ IOFaults
     /\ UNCHANGED <<file, orphan>>

-----------------------------------------------------------------------------

Init ==
  /\ clock = 0
  /\ file = [ip \in IPs |-> NeverFailed]
  /\ pc = [s \in Sessions |-> "spawned"]
  /\ attempt = [s \in Sessions |-> 1]
  /\ st = [s \in Sessions |-> NeverFailed]
  /\ orphan = {}
  /\ connected = [s \in Sessions |-> TRUE]
  /\ retryAfter = [s \in Sessions |-> 0]
  /\ recorded = [ip \in IPs |-> 0]
  /\ crashes = 0

(* Mutant: the lockout is checked after a failure only. *)
StartUnchecked(s) ==
  /\ pc[s] = "spawned"
  /\ Parallel \/ \A t \in Peers(s) : pc[t] \notin Running
  /\ Goto(s, "verify")
  /\ UNCHANGED <<clock, file, attempt, st, orphan, connected, retryAfter,
                 recorded, crashes>>

(* The gate starts by sending the host banner. *)
Start(s) ==
  /\ pc[s] = "spawned"
  /\ Parallel \/ \A t \in Peers(s) : pc[t] \notin Running
  /\ \/ Goto(s, "check")
     \/ ~connected[s] /\ Goto(s, "broken")
  /\ UNCHANGED <<clock, file, attempt, st, orphan, connected, retryAfter,
                 recorded, crashes>>

(* lockoutCheck, before every attempt: it reads the file, then the clock. *)
ReadForCheck(s) ==
  /\ pc[s] = "check"
  /\ st' = [st EXCEPT ![s] = file[LockoutFile(s)]]
  /\ Goto(s, "compare")
  /\ UNCHANGED <<clock, file, attempt, orphan, connected, retryAfter, recorded,
                 crashes>>

FindLocked(s) ==
  /\ pc[s] = "compare"
  /\ IsLocked(st[s], clock)
  /\ retryAfter' = [retryAfter EXCEPT ![s] = RetryAfter(st[s], clock)]
  /\ Goto(s, "locked")
  /\ UNCHANGED <<clock, file, attempt, st, orphan, connected, recorded,
                 crashes>>

FindUnlocked(s) ==
  /\ pc[s] = "compare"
  /\ ~IsLocked(st[s], clock)
  /\ Goto(s, IF IsStale(st[s], clock) THEN "cleanup" ELSE "verify")
  /\ UNCHANGED <<clock, file, attempt, st, orphan, connected, retryAfter,
                 recorded, crashes>>

Cleanup(s) ==
  /\ pc[s] = "cleanup"
  /\ RemoveFile(s)
  /\ Goto(s, "verify")
  /\ UNCHANGED <<clock, attempt, st, connected, retryAfter, recorded, crashes>>

(* verifyOSAccount: PAM or LogonUser accepts or rejects what the frontend
   typed (answers typed ahead are still read after a hang-up), or there is no
   verdict, since a prompt could not be sent or answered or the PAM service
   did not start: the gate treats every error alike. *)
Accept(s) ==
  /\ pc[s] = "verify"
  /\ Goto(s, "reset")
  /\ UNCHANGED <<clock, file, attempt, st, orphan, connected, retryAfter,
                 recorded, crashes>>

(* Mutant: an attempt without a verdict is not charged and is repeated. *)
RejectOrRepeat(s) ==
  /\ pc[s] = "verify"
  /\ Goto(s, IF connected[s] THEN "record" ELSE "check")
  /\ UNCHANGED <<clock, file, attempt, st, orphan, connected, retryAfter,
                 recorded, crashes>>

RejectOrAbort(s) ==
  /\ pc[s] = "verify"
  /\ Goto(s, "record")
  /\ UNCHANGED <<clock, file, attempt, st, orphan, connected, retryAfter,
                 recorded, crashes>>

(* lockoutReset, and the "ok" frame whose error the gate returns. *)
Reset(s) ==
  /\ pc[s] = "reset"
  /\ RemoveFile(s)
  /\ Goto(s, "reply")
  /\ UNCHANGED <<clock, attempt, st, connected, retryAfter, recorded, crashes>>

Reply(s) ==
  /\ pc[s] = "reply"
  /\ \/ Goto(s, "passed")
     \/ ~connected[s] /\ Goto(s, "broken")
  /\ UNCHANGED <<clock, file, attempt, st, orphan, connected, retryAfter,
                 recorded, crashes>>

(* lockoutRecordFailure reads the record and computes the next one ... *)
ReadForRecord(s) ==
  /\ pc[s] = "record"
  /\ st' = [st EXCEPT ![s] = file[LockoutFile(s)]]
  /\ Goto(s, "count")
  /\ UNCHANGED <<clock, file, attempt, orphan, connected, retryAfter, recorded,
                 crashes>>

CountFailure(s) ==
  /\ pc[s] = "count"
  /\ st' = [st EXCEPT ![s] = AfterFailure(@, clock)]
  /\ recorded' = [recorded EXCEPT ![FrontendIP[s]] = @ + 1]
  /\ Goto(s, "open")
  /\ UNCHANGED <<clock, file, attempt, orphan, connected, retryAfter, crashes>>

(* Mutant: the lockout is checked once, before the loop. *)
NextAttemptUnchecked(s) ==
  IF attempt[s] < MaxAttempts
  THEN attempt' = [attempt EXCEPT ![s] = @ + 1] /\ Goto(s, "verify")
  ELSE Goto(s, "denied") /\ UNCHANGED attempt

(* The third failure disconnects; an earlier one is answered by a countdown
   message and the next attempt. *)
NextAttempt(s) ==
  IF attempt[s] < MaxAttempts
  THEN /\ attempt' = [attempt EXCEPT ![s] = @ + 1]
       /\ Goto(s, "check")
  ELSE /\ Goto(s, "denied")
       /\ UNCHANGED attempt

(* ... os.WriteFile opens the file with O_TRUNC ... *)
OpenTruncate(s) ==
  /\ pc[s] = "open"
  /\ \/ /\ file' = [file EXCEPT ![LockoutFile(s)] = NeverFailed]
        /\ Goto(s, "write")
        /\ UNCHANGED attempt
     \/ /\ IOFaults
        /\ NextAttempt(s)
        /\ UNCHANGED file
  /\ UNCHANGED <<clock, st, orphan, connected, retryAfter, recorded, crashes>>

(* ... and writes it, unless its handle has lost its name or the write fails;
   a failure is ignored. *)
Write(s) ==
  /\ pc[s] = "write"
  /\ \/ /\ s \notin orphan
        /\ file' = [file EXCEPT ![LockoutFile(s)] = st[s]]
     \/ /\ s \in orphan \/ IOFaults
        /\ UNCHANGED file
  /\ orphan' = orphan \ {s}
  /\ NextAttempt(s)
  /\ UNCHANGED <<clock, st, connected, retryAfter, recorded, crashes>>

-----------------------------------------------------------------------------
(* The environment: the clock, the frontend, the operating system. *)

Tick ==
  /\ clock < MaxClock
  /\ clock' = clock + 1
  /\ UNCHANGED <<file, pc, attempt, st, orphan, connected, retryAfter,
                 recorded, crashes>>

HangUp(s) ==
  /\ connected[s]
  /\ pc[s] \notin Final
  /\ connected' = [connected EXCEPT ![s] = FALSE]
  /\ UNCHANGED <<clock, file, pc, attempt, st, orphan, retryAfter, recorded,
                 crashes>>

Kill(s) ==
  /\ crashes < MaxCrashes
  /\ pc[s] \in Running
  /\ crashes' = crashes + 1
  /\ orphan' = orphan \ {s}
  /\ Goto(s, "killed")
  /\ UNCHANGED <<clock, file, attempt, st, connected, retryAfter, recorded>>

(* What a session does on its own, and what waits for the frontend. *)
Compute(s) ==
  \/ Start(s)
  \/ ReadForCheck(s)
  \/ FindLocked(s)
  \/ FindUnlocked(s)
  \/ Cleanup(s)
  \/ Reset(s)
  \/ Reply(s)
  \/ ReadForRecord(s)
  \/ CountFailure(s)
  \/ OpenTruncate(s)
  \/ Write(s)

Conversation(s) == Accept(s) \/ RejectOrAbort(s)

(* Every session has left its gate: no process is left to move. *)
AllDone ==
  /\ \A s \in Sessions : pc[s] \in Final
  /\ UNCHANGED vars

Next ==
  \/ Tick
  \/ \E s \in Sessions :
       \/ Compute(s)
       \/ Conversation(s)
       \/ HangUp(s)
       \/ Kill(s)
  \/ AllDone

Spec == Init /\ [][Next]_vars

(* A process runs; PAM and LogonUser return; a prompt without a frontend gets
   the error of the closed connection.  A frontend that is connected owes no
   answer. *)
Fairness ==
  \A s \in Sessions :
    /\ WF_vars(Compute(s))
    /\ WF_vars(~connected[s] /\ Conversation(s))

FairSpec == Spec /\ Fairness

-----------------------------------------------------------------------------

TypeOK ==
  /\ clock \in Nat
  /\ file \in [IPs -> LockoutState]
  /\ pc \in [Sessions -> Running \cup Final \cup {"spawned"}]
  /\ attempt \in [Sessions -> 1..MaxAttempts]
  /\ st \in [Sessions -> LockoutState]
  /\ orphan \in SUBSET Sessions
  /\ connected \in [Sessions -> BOOLEAN]
  /\ retryAfter \in [Sessions -> Nat]
  /\ recorded \in [IPs -> Nat]
  /\ crashes \in Nat

(* A lock, on disk or about to be written, ends at most LockoutDuration from
   now whatever sessions overlap, and a "locked" message announces a wait of
   at least one second and at most LockoutDuration (lockout.go:140-141, 163). *)
LockBounded ==
  /\ \A ip \in IPs : file[ip].lockedUntil <= clock + LockoutDuration
  /\ \A s \in Sessions :
       /\ st[s].lockedUntil <= clock + LockoutDuration
       /\ pc[s] = "locked" => retryAfter[s] \in 1..LockoutDuration

(* The failure that fills the counter is traded for a lock, in every
   interleaving: no record at rest or in flight holds a full counter
   (lockout.go:161-165). *)
CountBelowMax ==
  /\ \A ip \in IPs : file[ip].failCount < MaxAttempts
  /\ \A s \in Sessions : st[s].failCount < MaxAttempts

(* An address is locked only by its own failures, and by no fewer than
   MaxAttempts of them: overlapping sessions may lose failures, they never
   invent one or charge it to another address (lockout.go:87-93, 158-168). *)
NoLockWithoutFailures ==
  \A ip \in IPs :
    /\ file[ip].failCount <= recorded[ip]
    /\ file[ip].lockedUntil > 0 => recorded[ip] >= MaxAttempts

(* While they do not overlap and writes succeed, the sessions of an address
   implement the lockout policy.  An attempt lasts from the check that found no
   lock to the moment its result is computed; from then on the record is the one
   being written. *)
Writers(ip) ==
  {s \in Sessions : LockoutFile(s) = ip /\ pc[s] \in {"open", "write"}}

PolicyRecord ==
  [ip \in IPs |-> IF Writers(ip) = {} THEN file[ip]
                  ELSE st[CHOOSE s \in Writers(ip) : TRUE]]

PolicyTrying ==
  {LockoutFile(s) : s \in {t \in Sessions :
     pc[t] \in {"cleanup", "verify", "reset", "record", "count"}}}

Policy == INSTANCE LockoutPolicy WITH
            record <- PolicyRecord,
            trying <- PolicyTrying,
            unsaved <- {ip \in IPs : Writers(ip) # {}}

(* No attempt begins under a lock, every failed attempt is counted at once, a
   process that dies loses at most the failure it was recording, and nothing
   else changes a record, so a lock is served to its end: what lockout.go:3-61
   and auth.go:103-117 say of one session after the other. *)
ImplementsPolicy == Policy!Spec

(* A session whose frontend hangs up ends, at any point of the gate
   (auth.go:68-77, 118-190). *)
HungUpSessionEnds ==
  \A s \in Sessions : ~connected[s] ~> pc[s] \in Final

=============================================================================
