-------------------------- MODULE PasswordGate_proofs --------------------------
(***************************************************************************)
(* The safety invariants of PasswordGate, proved for any number of         *)
(* sessions and addresses, every overlap of them, failing writes, crashes  *)
(* and every value of the lockout constants; what the history variables of *)
(* PasswordGateHistory say of the attempts under a lock; and, for sessions *)
(* that do not overlap and writes that succeed, that the gate implements   *)
(* LockoutPolicy.                                                          *)
(***************************************************************************)
EXTENDS PasswordGateHistory, TLAPS

USE LockoutAssumption, GateAssumption

-----------------------------------------------------------------------------
(* The record operators of Lockout. *)

(* Counting a failure turns a record into a record. *)
LEMMA AfterFailureType ==
  ASSUME NEW r \in LockoutState, NEW now \in Nat
  PROVE  AfterFailure(r, now) \in LockoutState
<1>1. CASE Trips(r)
  BY <1>1 DEF AfterFailure, LockoutState
<1>2. CASE ~Trips(r)
  BY <1>2 DEF AfterFailure, LockoutState
<1> QED BY <1>1, <1>2

(* It never leaves a full counter, even of a record with a full one. *)
LEMMA AfterFailureCount ==
  ASSUME NEW r \in LockoutState, NEW now \in Nat
  PROVE  /\ AfterFailure(r, now).failCount < MaxAttempts
         /\ AfterFailure(r, now).failCount <= r.failCount + 1
<1>1. CASE Trips(r)
  BY <1>1 DEF AfterFailure, LockoutState
<1>2. CASE ~Trips(r)
  BY <1>2 DEF AfterFailure, LockoutState, Trips
<1> QED BY <1>1, <1>2

(* A deadline it sets lies LockoutDuration ahead, and it sets one only when
   the failure fills the counter. *)
LEMMA AfterFailureDeadline ==
  ASSUME NEW r \in LockoutState, NEW now \in Nat
  PROVE  \/ AfterFailure(r, now).lockedUntil = r.lockedUntil
         \/ /\ AfterFailure(r, now).lockedUntil = now + LockoutDuration
            /\ r.failCount + 1 >= MaxAttempts
<1>1. CASE Trips(r)
  BY <1>1 DEF AfterFailure, LockoutState, Trips
<1>2. CASE ~Trips(r)
  BY <1>2 DEF AfterFailure, LockoutState
<1> QED BY <1>1, <1>2

LEMMA NeverFailedType == NeverFailed \in LockoutState
BY DEF NeverFailed, LockoutState

-----------------------------------------------------------------------------

(* The variables keep their types (the records of lockout.go:99-102, the
   places of runPasswordGate, auth.go:118-190). *)
THEOREM TypeCorrect == Spec => []TypeOK
<1>1. Init => TypeOK
  BY NeverFailedType DEF Init, TypeOK
<1>2. TypeOK /\ [Next]_vars => TypeOK'
  <2> SUFFICES ASSUME TypeOK, [Next]_vars PROVE TypeOK'
    OBVIOUS
  <2> USE DEF TypeOK, Goto, Running, Final
  <2>1. CASE Tick
    BY <2>1 DEF Tick
  <2>2. ASSUME NEW s \in Sessions, Start(s) PROVE TypeOK'
    BY <2>2 DEF Start
  <2>3. ASSUME NEW s \in Sessions, ReadForCheck(s) PROVE TypeOK'
    BY <2>3 DEF ReadForCheck, LockoutFile
  <2>4. ASSUME NEW s \in Sessions, FindLocked(s) PROVE TypeOK'
    <3>1. RetryAfter(st[s], clock) \in Nat
      BY <2>4 DEF FindLocked, RetryAfter, IsLocked, LockoutState
    <3> QED BY <2>4, <3>1 DEF FindLocked
  <2>5. ASSUME NEW s \in Sessions, FindUnlocked(s) PROVE TypeOK'
    BY <2>5 DEF FindUnlocked
  <2>6. ASSUME NEW s \in Sessions, Cleanup(s) PROVE TypeOK'
    BY <2>6, NeverFailedType DEF Cleanup, RemoveFile, LockoutFile, Peers
  <2>7. ASSUME NEW s \in Sessions, Accept(s) PROVE TypeOK'
    BY <2>7 DEF Accept
  <2>8. ASSUME NEW s \in Sessions, RejectOrAbort(s) PROVE TypeOK'
    BY <2>8 DEF RejectOrAbort
  <2>9. ASSUME NEW s \in Sessions, Reset(s) PROVE TypeOK'
    BY <2>9, NeverFailedType DEF Reset, RemoveFile, LockoutFile, Peers
  <2>10. ASSUME NEW s \in Sessions, Reply(s) PROVE TypeOK'
    BY <2>10 DEF Reply
  <2>11. ASSUME NEW s \in Sessions, ReadForRecord(s) PROVE TypeOK'
    BY <2>11 DEF ReadForRecord, LockoutFile
  <2>12. ASSUME NEW s \in Sessions, CountFailure(s) PROVE TypeOK'
    <3>1. AfterFailure(st[s], clock) \in LockoutState
      BY AfterFailureType
    <3> QED BY <2>12, <3>1 DEF CountFailure
  <2>13. ASSUME NEW s \in Sessions, OpenTruncate(s) PROVE TypeOK'
    BY <2>13, NeverFailedType DEF OpenTruncate, NextAttempt, LockoutFile
  <2>14. ASSUME NEW s \in Sessions, Write(s) PROVE TypeOK'
    BY <2>14 DEF Write, NextAttempt, LockoutFile
  <2>15. ASSUME NEW s \in Sessions, HangUp(s) PROVE TypeOK'
    BY <2>15 DEF HangUp
  <2>16. ASSUME NEW s \in Sessions, Kill(s) PROVE TypeOK'
    BY <2>16 DEF Kill
  <2>17. CASE UNCHANGED vars
    BY <2>17 DEF vars
  <2>18. CASE AllDone
    BY <2>17, <2>18 DEF AllDone
  <2> QED
    BY <2>1, <2>2, <2>3, <2>4, <2>5, <2>6, <2>7, <2>8, <2>9, <2>10, <2>11,
       <2>12, <2>13, <2>14, <2>15, <2>16, <2>17, <2>18
       DEF Next, Compute, Conversation
<1> QED BY <1>1, <1>2, PTL DEF Spec

-----------------------------------------------------------------------------
(* Where the records of the next state come from: a file holds what it held, *)
(* nothing, or what a session of its address had computed; a session holds   *)
(* what it held, what it reads, or the count of what it had read.            *)

KeptOrWritten(ip) ==
  \/ file'[ip] = file[ip]
  \/ file'[ip] = NeverFailed
  \/ \E s \in Sessions : FrontendIP[s] = ip /\ file'[ip] = st[s]

KeptReadOrCounted(s) ==
  \/ st'[s] = st[s]
  \/ st'[s] = file[FrontendIP[s]]
  \/ /\ st'[s] = AfterFailure(st[s], clock)
     /\ recorded'[FrontendIP[s]] = recorded[FrontendIP[s]] + 1

RecordFlow ==
  /\ clock' >= clock
  /\ \A ip \in IPs : KeptOrWritten(ip) /\ recorded'[ip] >= recorded[ip]
  /\ \A s \in Sessions : KeptReadOrCounted(s)

LEMMA StepRecordFlow == TypeOK /\ [Next]_vars => RecordFlow
<1> SUFFICES ASSUME TypeOK, [Next]_vars PROVE RecordFlow
  OBVIOUS
<1> USE DEF TypeOK
<1>q. ASSUME UNCHANGED <<clock, file, st, recorded>> PROVE RecordFlow
  BY <1>q DEF RecordFlow, KeptOrWritten, KeptReadOrCounted
<1>f. ASSUME NEW s \in Sessions, UNCHANGED <<clock, st, recorded>>,
             NEW r \in {NeverFailed, st[s]},
             file' = [file EXCEPT ![LockoutFile(s)] = r]
      PROVE  RecordFlow
  BY <1>f DEF RecordFlow, KeptOrWritten, KeptReadOrCounted, LockoutFile
<1>r. ASSUME NEW s \in Sessions, UNCHANGED <<clock, file, recorded>>,
             st' = [st EXCEPT ![s] = file[LockoutFile(s)]]
      PROVE  RecordFlow
  BY <1>r DEF RecordFlow, KeptOrWritten, KeptReadOrCounted, LockoutFile
<1>1. CASE Tick
  BY <1>1 DEF Tick, RecordFlow, KeptOrWritten, KeptReadOrCounted
<1>2. ASSUME NEW s \in Sessions, Start(s) PROVE RecordFlow
  BY <1>2, <1>q DEF Start
<1>3. ASSUME NEW s \in Sessions, ReadForCheck(s) PROVE RecordFlow
  BY <1>3, <1>r DEF ReadForCheck
<1>4. ASSUME NEW s \in Sessions, FindLocked(s) PROVE RecordFlow
  BY <1>4, <1>q DEF FindLocked
<1>5. ASSUME NEW s \in Sessions, FindUnlocked(s) PROVE RecordFlow
  BY <1>5, <1>q DEF FindUnlocked
<1>6. ASSUME NEW s \in Sessions, Cleanup(s) PROVE RecordFlow
  BY <1>6, <1>f, <1>q DEF Cleanup, RemoveFile
<1>7. ASSUME NEW s \in Sessions, Conversation(s) PROVE RecordFlow
  BY <1>7, <1>q DEF Conversation, Accept, RejectOrAbort
<1>8. ASSUME NEW s \in Sessions, Reset(s) PROVE RecordFlow
  BY <1>8, <1>f, <1>q DEF Reset, RemoveFile
<1>9. ASSUME NEW s \in Sessions, Reply(s) PROVE RecordFlow
  BY <1>9, <1>q DEF Reply
<1>10. ASSUME NEW s \in Sessions, ReadForRecord(s) PROVE RecordFlow
  BY <1>10, <1>r DEF ReadForRecord
<1>11. ASSUME NEW s \in Sessions, CountFailure(s) PROVE RecordFlow
  <2>1. \A ip \in IPs : recorded'[ip] >= recorded[ip] /\ file'[ip] = file[ip]
    BY <1>11 DEF CountFailure
  <2>2. KeptReadOrCounted(s)
    BY <1>11 DEF CountFailure, KeptReadOrCounted
  <2>3. \A t \in Sessions \ {s} : st'[t] = st[t]
    BY <1>11 DEF CountFailure
  <2>4. clock' = clock
    BY <1>11 DEF CountFailure
  <2> QED
    BY <2>1, <2>2, <2>3, <2>4 DEF RecordFlow, KeptOrWritten, KeptReadOrCounted
<1>12. ASSUME NEW s \in Sessions, OpenTruncate(s) PROVE RecordFlow
  BY <1>12, <1>f, <1>q DEF OpenTruncate
<1>13. ASSUME NEW s \in Sessions, Write(s) PROVE RecordFlow
  BY <1>13, <1>f, <1>q DEF Write
<1>14. ASSUME NEW s \in Sessions, HangUp(s) \/ Kill(s) PROVE RecordFlow
  BY <1>14, <1>q DEF HangUp, Kill
<1>15. CASE UNCHANGED vars \/ AllDone
  BY <1>15, <1>q DEF vars, AllDone
<1> QED
  BY <1>1, <1>2, <1>3, <1>4, <1>5, <1>6, <1>7, <1>8, <1>9, <1>10, <1>11,
     <1>12, <1>13, <1>14, <1>15 DEF Next, Compute

(* The failure that fills the counter is traded for a lock in every
   interleaving of the sessions (lockout.go:158-168). *)
THEOREM CounterNeverFull == Spec => []CountBelowMax
<1>1. Init => CountBelowMax
  BY DEF Init, CountBelowMax, NeverFailed
<1>2. TypeOK /\ CountBelowMax /\ [Next]_vars => CountBelowMax'
  <2> SUFFICES ASSUME TypeOK, CountBelowMax, RecordFlow PROVE CountBelowMax'
    BY StepRecordFlow
  <2>1. ASSUME NEW ip \in IPs PROVE file'[ip].failCount < MaxAttempts
    BY DEF RecordFlow, KeptOrWritten, CountBelowMax, NeverFailed
  <2>2. ASSUME NEW s \in Sessions PROVE st'[s].failCount < MaxAttempts
    <3>1. AfterFailure(st[s], clock).failCount < MaxAttempts
      BY AfterFailureCount DEF TypeOK
    <3> QED
      BY <3>1 DEF RecordFlow, KeptReadOrCounted, CountBelowMax
  <2> QED BY <2>1, <2>2 DEF CountBelowMax
<1> QED BY <1>1, <1>2, TypeCorrect, PTL DEF Spec

(* Every lock, on disk or in flight, ends at most LockoutDuration from now,
   and so does the wait a "locked" message announces (lockout.go:136-168). *)
THEOREM LocksAreBounded == Spec => []LockBounded
<1>1. Init => LockBounded
  BY DEF Init, LockBounded, NeverFailed
<1>2. TypeOK /\ LockBounded /\ [Next]_vars => LockBounded'
  <2> SUFFICES ASSUME TypeOK, LockBounded, [Next]_vars PROVE LockBounded'
    OBVIOUS
  <2>0. RecordFlow
    BY StepRecordFlow
  <2> DEFINE End == clock + LockoutDuration
  <2>e. End' >= End /\ End \in Nat /\ clock' \in Int
    <3>1. clock' = clock \/ clock' = clock + 1
      BY DEF Next, Tick, Compute, Conversation, Start, ReadForCheck, FindLocked,
         FindUnlocked, Cleanup, Accept, RejectOrAbort, Reset, Reply,
         ReadForRecord, CountFailure, OpenTruncate, Write, HangUp, Kill,
         AllDone, vars
    <3> QED BY <3>1 DEF TypeOK
  <2>1. ASSUME NEW ip \in IPs PROVE file'[ip].lockedUntil <= End'
    <3>1. file'[ip].lockedUntil <= End /\ file'[ip] \in LockoutState
      BY <2>0, NeverFailedType
         DEF RecordFlow, KeptOrWritten, LockBounded, NeverFailed, TypeOK
    <3> QED BY <3>1, <2>e DEF LockoutState
  <2>2. ASSUME NEW s \in Sessions PROVE st'[s].lockedUntil <= End'
    <3> DEFINE r == AfterFailure(st[s], clock)
    <3>1. r \in LockoutState /\ r.lockedUntil <= End
      <4>1. st[s] \in LockoutState /\ clock \in Nat
        BY DEF TypeOK
      <4>2. r \in LockoutState
        BY <4>1, AfterFailureType
      <4>3. r.lockedUntil = st[s].lockedUntil \/ r.lockedUntil = End
        BY <4>1, AfterFailureDeadline
      <4> QED BY <4>1, <4>2, <4>3 DEF LockBounded
    <3>2. st'[s].lockedUntil <= End /\ st'[s] \in LockoutState
      BY <2>0, <3>1 DEF RecordFlow, KeptReadOrCounted, LockBounded, TypeOK
    <3> QED BY <3>2, <2>e DEF LockoutState
  <2>3. ASSUME NEW s \in Sessions, pc'[s] = "locked"
        PROVE  retryAfter'[s] \in 1..LockoutDuration
    <3>1. CASE pc[s] = "locked" /\ retryAfter'[s] = retryAfter[s]
      BY <3>1 DEF LockBounded
    <3>2. CASE FindLocked(s)
      <4>1. retryAfter'[s] = st[s].lockedUntil - clock
        BY <3>2 DEF FindLocked, RetryAfter, TypeOK
      <4>2. st[s].lockedUntil > clock /\ st[s].lockedUntil <= End
        BY <3>2 DEF FindLocked, IsLocked, LockBounded
      <4>3. st[s].lockedUntil \in Nat /\ clock \in Nat
        BY DEF TypeOK, LockoutState
      <4> QED BY <4>1, <4>2, <4>3
    <3>3. FindLocked(s) \/ (pc[s] = "locked" /\ retryAfter'[s] = retryAfter[s])
      BY <2>3 DEF TypeOK, Goto, NextAttempt, Next, Tick, Compute, Conversation, Start,
         ReadForCheck, FindLocked, FindUnlocked, Cleanup, Accept,
         RejectOrAbort, Reset, Reply, ReadForRecord, CountFailure,
         OpenTruncate, Write, HangUp, Kill, AllDone, vars
    <3> QED BY <3>1, <3>2, <3>3
  <2> QED BY <2>1, <2>2, <2>3 DEF LockBounded
<1> QED BY <1>1, <1>2, TypeCorrect, PTL DEF Spec

-----------------------------------------------------------------------------

(* NoLockWithoutFailures is not inductive: a record in flight must be covered
   by the failures of its address as well. *)
Covered(r, ip) ==
  /\ r.failCount <= recorded[ip]
  /\ r.lockedUntil > 0 => recorded[ip] >= MaxAttempts

FailuresCovered ==
  /\ \A ip \in IPs : Covered(file[ip], ip)
  /\ \A s \in Sessions : Covered(st[s], FrontendIP[s])

(* A lock stands for at least MaxAttempts failures of its own address, whatever
   the overlapping sessions overwrite (lockout.go:87-93, 158-168). *)
THEOREM LocksAreEarned == Spec => []NoLockWithoutFailures
<1>1. Init => FailuresCovered
  BY DEF Init, FailuresCovered, Covered, NeverFailed
<1>2. TypeOK /\ TypeOK' /\ FailuresCovered /\ [Next]_vars => FailuresCovered'
  <2> SUFFICES ASSUME TypeOK, TypeOK', FailuresCovered, RecordFlow
               PROVE  FailuresCovered'
    BY StepRecordFlow
  <2>1. ASSUME NEW ip \in IPs PROVE Covered(file[ip], ip)'
    <3>1. recorded'[ip] >= recorded[ip] /\ recorded[ip] \in Nat
          /\ recorded'[ip] \in Nat
      BY DEF RecordFlow, TypeOK
    <3>2. file'[ip] \in LockoutState /\ Covered(file'[ip], ip)
      BY <3>1 DEF RecordFlow, KeptOrWritten, FailuresCovered, Covered,
         NeverFailed, TypeOK
    <3> QED BY <3>1, <3>2 DEF Covered, LockoutState
  <2>2. ASSUME NEW s \in Sessions PROVE Covered(st[s], FrontendIP[s])'
    <3> DEFINE ip == FrontendIP[s]
    <3>0. ip \in IPs
      OBVIOUS
    <3>1. recorded'[ip] >= recorded[ip] /\ recorded[ip] \in Nat
          /\ recorded'[ip] \in Nat /\ st'[s] \in LockoutState
          /\ st[s] \in LockoutState /\ clock \in Nat
      BY <3>0 DEF RecordFlow, TypeOK
    <3>2. CASE st'[s] = st[s] \/ st'[s] = file[ip]
      <4>1. Covered(st'[s], ip)
        BY <3>0, <3>2 DEF FailuresCovered
      <4> QED BY <4>1, <3>1 DEF Covered, LockoutState
    <3>3. CASE /\ st'[s] = AfterFailure(st[s], clock)
               /\ recorded'[ip] = recorded[ip] + 1
      <4>1. Covered(st[s], ip)
        BY DEF FailuresCovered
      <4>2. st'[s].failCount <= st[s].failCount + 1
        BY <3>1, <3>3, AfterFailureCount
      <4>3. \/ st'[s].lockedUntil = st[s].lockedUntil
            \/ st[s].failCount + 1 >= MaxAttempts
        BY <3>1, <3>3, AfterFailureDeadline
      <4> QED BY <3>1, <3>3, <4>1, <4>2, <4>3 DEF Covered, LockoutState
    <3> QED BY <3>2, <3>3 DEF RecordFlow, KeptReadOrCounted
  <2> QED BY <2>1, <2>2 DEF FailuresCovered
<1>3. FailuresCovered => NoLockWithoutFailures
  BY DEF FailuresCovered, Covered, NoLockWithoutFailures
<1> QED BY <1>1, <1>2, <1>3, TypeCorrect, PTL DEF Spec

-----------------------------------------------------------------------------
(* Sessions of an address that do not overlap, over files that can be       *)
(* written: what a session has read is what the file still holds.           *)

Alone(s) ==
  \A t \in Sessions \ {s} : LockoutFile(t) = LockoutFile(s) => pc[t] \notin Running

Exclusive == \A s \in Sessions : pc[s] \in Running => Alone(s)

Current(s) ==
  LET r == file[LockoutFile(s)]
  IN  /\ pc[s] \in {"compare", "cleanup", "count"} => st[s] = r
      /\ pc[s] = "cleanup" => IsStale(r, clock)
      /\ pc[s] = "open" => \E then \in 0..clock : AfterFailure(r, then) = st[s]
      /\ pc[s] = "write" => r = NeverFailed

SerialInv ==
  /\ Exclusive
  /\ orphan = {}
  /\ \A s \in Sessions : Current(s)

(* A step of one session leaves the other sessions and the files of other
   addresses alone. *)
OnlySession(s) ==
  /\ \A t \in Sessions \ {s} : pc'[t] = pc[t] /\ st'[t] = st[t]
  /\ \A ip \in IPs \ {LockoutFile(s)} : file'[ip] = file[ip]
  /\ clock' = clock

LEMMA SessionStep ==
  ASSUME TypeOK, SerialInv, NEW s \in Sessions, Alone(s), OnlySession(s),
         Current(s)', orphan' = {}
  PROVE  SerialInv'
<1>1. Exclusive'
  <2>1. ASSUME NEW t \in Sessions, pc'[t] \in Running PROVE Alone(t)'
    <3>1. CASE t = s
      BY <3>1 DEF Alone, OnlySession, LockoutFile
    <3>2. CASE t # s
      <4>1. pc[t] \in Running
        BY <2>1, <3>2 DEF OnlySession
      <4>2. Alone(t) /\ LockoutFile(t) # LockoutFile(s)
        BY <3>2, <4>1 DEF SerialInv, Exclusive, Alone
      <4> QED BY <4>2 DEF Alone, OnlySession, LockoutFile
    <3> QED BY <3>1, <3>2
  <2> QED BY <2>1 DEF Exclusive
<1>2. ASSUME NEW t \in Sessions PROVE Current(t)'
  <2>1. CASE t # s /\ LockoutFile(t) = LockoutFile(s)
    <3>1. pc'[t] \notin Running
      BY <2>1 DEF Alone, OnlySession
    <3> QED BY <3>1 DEF Current, Running
  <2>2. CASE t # s /\ LockoutFile(t) # LockoutFile(s)
    <3>1. LockoutFile(t) \in IPs
      BY DEF LockoutFile
    <3>2. /\ pc'[t] = pc[t] /\ st'[t] = st[t] /\ clock' = clock
          /\ file'[LockoutFile(t)] = file[LockoutFile(t)]
      BY <2>2, <3>1 DEF OnlySession
    <3>3. Current(t)
      BY DEF SerialInv
    <3> QED BY <3>2, <3>3 DEF Current, LockoutFile
  <2> QED BY <2>1, <2>2
<1> QED BY <1>1, <1>2 DEF SerialInv

LEMMA StaleLater ==
  ASSUME NEW r \in LockoutState, NEW now \in Nat, IsStale(r, now)
  PROVE  IsStale(r, now + 1)
BY DEF IsStale, LockoutState

(* The session whose turn it is has its address to itself. *)
LEMMA RunsAlone ==
  ASSUME SerialInv, NEW s \in Sessions, pc[s] \in Running
  PROVE  Alone(s)
BY DEF SerialInv, Exclusive

LEMMA SerialStep ==
  ASSUME ~Parallel, ~IOFaults, TypeOK, TypeOK', SerialInv, [Next]_vars
  PROVE  SerialInv'
<1> USE DEF Goto
<1>1. CASE Tick
  <2>1. UNCHANGED <<file, pc, st, orphan>> /\ clock' = clock + 1 /\ clock \in Nat
    BY <1>1 DEF Tick, TypeOK
  <2>2. ASSUME NEW s \in Sessions PROVE Current(s)'
    <3>1. Current(s) /\ file[LockoutFile(s)] \in LockoutState
      BY DEF SerialInv, TypeOK, LockoutFile
    <3>2. pc[s] = "cleanup" => IsStale(file[LockoutFile(s)], clock')
      BY <2>1, <3>1, StaleLater DEF Current
    <3>3. 0..clock \subseteq 0..clock'
      BY <2>1
    <3>4. /\ pc[s] \in {"compare", "cleanup", "count"} => st[s] = file[LockoutFile(s)]
          /\ pc[s] = "open" => \E then \in 0..clock' : AfterFailure(file[LockoutFile(s)], then) = st[s]
          /\ pc[s] = "write" => file[LockoutFile(s)] = NeverFailed
      BY <3>1, <3>3 DEF Current
    <3> QED BY <2>1, <3>2, <3>4 DEF Current, LockoutFile
  <2> QED BY <2>1, <2>2 DEF SerialInv, Exclusive, Alone, LockoutFile
<1>2. ASSUME NEW s \in Sessions, Start(s) PROVE SerialInv'
  <2>1. Alone(s)
    BY <1>2 DEF Start, Alone, Peers
  <2>2. OnlySession(s) /\ Current(s)' /\ orphan' = {}
    BY <1>2 DEF Start, OnlySession, Current, TypeOK, SerialInv
  <2> QED BY <2>1, <2>2, SessionStep
<1>3. ASSUME NEW s \in Sessions, ReadForCheck(s) \/ ReadForRecord(s) PROVE SerialInv'
  <2>1. Alone(s)
    BY <1>3, RunsAlone DEF ReadForCheck, ReadForRecord, Running
  <2>2. /\ OnlySession(s) /\ orphan' = {} /\ UNCHANGED file
        /\ pc'[s] \in {"compare", "count"} /\ st'[s] = file[LockoutFile(s)]
    BY <1>3 DEF ReadForCheck, ReadForRecord, OnlySession, TypeOK, SerialInv
  <2>3. Current(s)'
    BY <2>2 DEF Current, LockoutFile
  <2> QED BY <2>1, <2>2, <2>3, SessionStep
<1>4. ASSUME NEW s \in Sessions, FindUnlocked(s) PROVE SerialInv'
  <2>1. Alone(s)
    BY <1>4, RunsAlone DEF FindUnlocked, Running
  <2>2. /\ OnlySession(s) /\ orphan' = {} /\ UNCHANGED <<file, st, clock>>
        /\ pc'[s] = IF IsStale(st[s], clock) THEN "cleanup" ELSE "verify"
    BY <1>4 DEF FindUnlocked, OnlySession, TypeOK, SerialInv
  <2>3. st[s] = file[LockoutFile(s)]
    BY <1>4 DEF SerialInv, Current, FindUnlocked
  <2>4. Current(s)'
    BY <2>2, <2>3 DEF Current, LockoutFile
  <2> QED BY <2>1, <2>2, <2>4, SessionStep
<1>5. ASSUME NEW s \in Sessions,
             FindLocked(s) \/ Accept(s) \/ RejectOrAbort(s) \/ Reply(s)
      PROVE  SerialInv'
  <2>1. Alone(s)
    BY <1>5, RunsAlone DEF FindLocked, Accept, RejectOrAbort, Reply, Running
  <2>2. /\ OnlySession(s) /\ orphan' = {}
        /\ pc'[s] \in {"locked", "reset", "record", "passed", "broken"}
    BY <1>5 DEF FindLocked, Accept, RejectOrAbort, Reply, OnlySession, TypeOK, SerialInv
  <2>3. Current(s)'
    BY <2>2 DEF Current
  <2> QED BY <2>1, <2>2, <2>3, SessionStep
<1>6. ASSUME NEW s \in Sessions, Cleanup(s) \/ Reset(s) PROVE SerialInv'
  <2>1. Alone(s) /\ pc[s] # "write"
    BY <1>6, RunsAlone DEF Cleanup, Reset, Running
  <2>2. /\ OnlySession(s)
        /\ orphan' = orphan \cup {t \in Peers(s) : pc[t] = "write"}
        /\ pc'[s] \in {"verify", "reply"}
    BY <1>6 DEF Cleanup, Reset, RemoveFile, OnlySession, TypeOK, LockoutFile
  <2>3. orphan' = {}
    BY <2>1, <2>2 DEF SerialInv, Alone, Peers, Running
  <2>4. Current(s)'
    BY <2>2 DEF Current
  <2> QED BY <2>1, <2>2, <2>3, <2>4, SessionStep
<1>7. ASSUME NEW s \in Sessions, CountFailure(s) PROVE SerialInv'
  <2>1. Alone(s)
    BY <1>7, RunsAlone DEF CountFailure, Running
  <2>2. /\ OnlySession(s) /\ orphan' = {} /\ UNCHANGED <<file, clock>>
        /\ pc'[s] = "open" /\ st'[s] = AfterFailure(st[s], clock)
    BY <1>7 DEF CountFailure, OnlySession, TypeOK, SerialInv
  <2>3. st[s] = file[LockoutFile(s)] /\ clock \in 0..clock
    BY <1>7 DEF SerialInv, Current, CountFailure, TypeOK
  <2>4. Current(s)'
    BY <2>2, <2>3 DEF Current, LockoutFile
  <2> QED BY <2>1, <2>2, <2>4, SessionStep
<1>8. ASSUME NEW s \in Sessions, OpenTruncate(s) PROVE SerialInv'
  <2>1. Alone(s)
    BY <1>8, RunsAlone DEF OpenTruncate, Running
  <2>2. /\ OnlySession(s) /\ orphan' = {}
        /\ pc'[s] = "write" /\ file'[LockoutFile(s)] = NeverFailed
    BY <1>8 DEF OpenTruncate, OnlySession, TypeOK, SerialInv, LockoutFile
  <2>3. Current(s)'
    BY <2>2 DEF Current, LockoutFile
  <2> QED BY <2>1, <2>2, <2>3, SessionStep
<1>9. ASSUME NEW s \in Sessions, Write(s) PROVE SerialInv'
  <2>1. Alone(s)
    BY <1>9, RunsAlone DEF Write, Running
  <2>2. /\ OnlySession(s) /\ orphan' = {} /\ pc'[s] \in {"check", "denied"}
    BY <1>9 DEF Write, NextAttempt, OnlySession, TypeOK, SerialInv, LockoutFile
  <2>3. Current(s)'
    BY <2>2 DEF Current
  <2> QED BY <2>1, <2>2, <2>3, SessionStep
<1>10. ASSUME NEW s \in Sessions, Kill(s) PROVE SerialInv'
  <2>1. Alone(s)
    BY <1>10, RunsAlone DEF Kill
  <2>2. /\ OnlySession(s) /\ orphan' = {} /\ pc'[s] = "killed"
    BY <1>10 DEF Kill, OnlySession, TypeOK, SerialInv
  <2>3. Current(s)'
    BY <2>2 DEF Current
  <2> QED BY <2>1, <2>2, <2>3, SessionStep
<1>11. ASSUME UNCHANGED <<clock, file, pc, st, orphan>> PROVE SerialInv'
  BY <1>11 DEF SerialInv, Exclusive, Alone, Current, LockoutFile
<1>12. ASSUME NEW s \in Sessions, HangUp(s) PROVE SerialInv'
  BY <1>11, <1>12 DEF HangUp
<1>13. CASE UNCHANGED vars \/ AllDone
  BY <1>11, <1>13 DEF vars, AllDone
<1> QED
  BY <1>1, <1>2, <1>3, <1>4, <1>5, <1>6, <1>7, <1>8, <1>9, <1>10, <1>12, <1>13
     DEF Next, Compute, Conversation

(* The refinement mapping, address by address. *)

Saving == {"open", "write"}

Attempting == {"cleanup", "verify", "reset", "record", "count"}

PolicyUnsaved == {ip \in IPs : Writers(ip) # {}}

(* What the session that has its address to itself makes of it. *)
Own(s) ==
  LET ip == LockoutFile(s)
  IN  /\ PolicyRecord[ip] = IF pc[s] \in Saving THEN st[s] ELSE file[ip]
      /\ ip \in PolicyTrying <=> pc[s] \in Attempting
      /\ ip \in PolicyUnsaved <=> pc[s] \in Saving

LEMMA OwnAddress == \A s \in Sessions : TypeOK /\ Alone(s) => Own(s)
<1> SUFFICES ASSUME NEW s \in Sessions, TypeOK, Alone(s) PROVE Own(s)
  OBVIOUS
<1> DEFINE ip == LockoutFile(s)
<1>1. ip \in IPs
  BY DEF LockoutFile
<1>2. \A t \in Sessions : LockoutFile(t) = ip /\ pc[t] \in Running => t = s
  BY DEF Alone
<1>3. Writers(ip) = IF pc[s] \in Saving THEN {s} ELSE {}
  BY <1>2 DEF Writers, Saving, Running
<1>4. ip \in PolicyTrying <=> pc[s] \in Attempting
  BY <1>2 DEF PolicyTrying, Attempting, Running
<1>5. PolicyRecord[ip] = IF pc[s] \in Saving THEN st[s] ELSE file[ip]
  <2>1. CASE pc[s] \in Saving
    <3>1. Writers(ip) = {s} /\ (CHOOSE t \in {s} : TRUE) = s
      BY <1>3, <2>1
    <3> QED BY <1>1, <2>1, <3>1 DEF PolicyRecord
  <2>2. CASE pc[s] \notin Saving
    BY <1>1, <1>3, <2>2 DEF PolicyRecord
  <2> QED BY <2>1, <2>2
<1>6. ip \in PolicyUnsaved <=> pc[s] \in Saving
  BY <1>1, <1>3 DEF PolicyUnsaved
<1> QED BY <1>4, <1>5, <1>6 DEF Own

LEMMA OwnAddressNext == (\A s \in Sessions : TypeOK /\ Alone(s) => Own(s))'
BY OwnAddress, PTL

(* A step of one session changes what its own address is mapped to, and
   nothing else. *)
LEMMA MapStep ==
  ASSUME TypeOK, TypeOK', NEW s \in Sessions, Alone(s), OnlySession(s)
  PROVE  LET ip == LockoutFile(s)
         IN  /\ Own(s)
             /\ PolicyRecord' = [PolicyRecord EXCEPT ![ip] =
                                   IF pc'[s] \in Saving THEN st'[s] ELSE file'[ip]]
             /\ PolicyTrying' = IF pc'[s] \in Attempting THEN PolicyTrying \cup {ip}
                                ELSE PolicyTrying \ {ip}
             /\ PolicyUnsaved' = IF pc'[s] \in Saving THEN PolicyUnsaved \cup {ip}
                                 ELSE PolicyUnsaved \ {ip}
<1> DEFINE ip == LockoutFile(s)
<1>1. Own(s)
  BY OwnAddress
<1>2. Own(s)'
  <2>1. Alone(s)'
    BY DEF Alone, OnlySession, LockoutFile
  <2> QED BY <2>1, OwnAddressNext
<1>3. ip \in IPs /\ ip' = ip
  BY DEF LockoutFile
<1>4. ASSUME NEW other \in IPs, other # ip
      PROVE  /\ Writers(other)' = Writers(other)
             /\ PolicyRecord'[other] = PolicyRecord[other]
             /\ other \in PolicyTrying' <=> other \in PolicyTrying
  <2>1. \A t \in Sessions : LockoutFile(t) = other => t # s /\ pc'[t] = pc[t] /\ st'[t] = st[t]
    BY <1>4 DEF OnlySession
  <2>2. Writers(other)' = Writers(other)
    BY <2>1 DEF Writers, LockoutFile
  <2>3. other \in PolicyTrying' <=> other \in PolicyTrying
    BY <2>1 DEF PolicyTrying, LockoutFile
  <2>4. PolicyRecord'[other] = PolicyRecord[other]
    <3>1. CASE Writers(other) = {}
      BY <1>4, <2>2, <3>1 DEF PolicyRecord, OnlySession
    <3>2. CASE Writers(other) # {}
      <4>1. PICK w \in Sessions : w = (CHOOSE t \in Writers(other) : TRUE) /\ LockoutFile(w) = other
        BY <3>2 DEF Writers
      <4>2. st'[w] = st[w]
        BY <2>1, <4>1
      <4>3. /\ PolicyRecord[other] = st[w]
            /\ PolicyRecord'[other] = st'[w]
        BY <1>4, <2>2, <3>2, <4>1 DEF PolicyRecord
      <4> QED BY <4>2, <4>3
    <3> QED BY <3>1, <3>2
  <2> QED BY <2>2, <2>3, <2>4
<1>5. /\ PolicyTrying \subseteq IPs /\ PolicyTrying' \subseteq IPs
      /\ PolicyUnsaved \subseteq IPs /\ PolicyUnsaved' \subseteq IPs
  BY DEF PolicyTrying, PolicyUnsaved, LockoutFile
<1>6. \A other \in IPs : other # ip => (other \in PolicyUnsaved' <=> other \in PolicyUnsaved)
  BY <1>4 DEF PolicyUnsaved
<1>7. /\ PolicyRecord'[ip] = IF pc'[s] \in Saving THEN st'[s] ELSE file'[ip]
      /\ ip \in PolicyTrying' <=> pc'[s] \in Attempting
      /\ ip \in PolicyUnsaved' <=> pc'[s] \in Saving
  BY <1>2, <1>3 DEF Own
<1>8. PolicyRecord' = [PolicyRecord EXCEPT ![ip] =
                         IF pc'[s] \in Saving THEN st'[s] ELSE file'[ip]]
  <2>1. /\ PolicyRecord = [i \in IPs |-> PolicyRecord[i]]
        /\ PolicyRecord' = [i \in IPs |-> PolicyRecord'[i]]
    BY DEF PolicyRecord
  <2> HIDE DEF ip
  <2> QED BY <1>3, <1>4, <1>7, <2>1
<1>9. PolicyTrying' = IF pc'[s] \in Attempting THEN PolicyTrying \cup {ip}
                      ELSE PolicyTrying \ {ip}
  BY <1>3, <1>4, <1>5, <1>7
<1>10. PolicyUnsaved' = IF pc'[s] \in Saving THEN PolicyUnsaved \cup {ip}
                        ELSE PolicyUnsaved \ {ip}
  BY <1>3, <1>5, <1>6, <1>7
<1> QED BY <1>1, <1>8, <1>9, <1>10

(* A step that leaves the session on the same side of both sets, and its record
   as it was, is invisible to the policy. *)
LEMMA StutterStep ==
  ASSUME TypeOK, TypeOK', NEW s \in Sessions, Alone(s), OnlySession(s),
         pc[s] \in Attempting <=> pc'[s] \in Attempting,
         pc[s] \in Saving <=> pc'[s] \in Saving,
         pc[s] \in Saving => st'[s] = st[s],
         pc[s] \notin Saving => file'[LockoutFile(s)] = file[LockoutFile(s)]
  PROVE  UNCHANGED <<clock, PolicyRecord, PolicyTrying, PolicyUnsaved>>
<1> DEFINE ip == LockoutFile(s)
<1>1. /\ ip \in IPs
      /\ PolicyRecord[ip] = IF pc'[s] \in Saving THEN st'[s] ELSE file'[ip]
      /\ ip \in PolicyTrying <=> pc'[s] \in Attempting
      /\ ip \in PolicyUnsaved <=> pc'[s] \in Saving
  BY MapStep DEF Own, LockoutFile
<1>2. PolicyRecord' = [PolicyRecord EXCEPT ![ip] = PolicyRecord[ip]]
  BY <1>1, MapStep
<1>3. PolicyRecord' = PolicyRecord
  BY <1>2 DEF PolicyRecord
<1>4. PolicyTrying' = PolicyTrying /\ PolicyUnsaved' = PolicyUnsaved
  <2>1. /\ PolicyTrying' = IF pc'[s] \in Attempting THEN PolicyTrying \cup {ip}
                           ELSE PolicyTrying \ {ip}
        /\ PolicyUnsaved' = IF pc'[s] \in Saving THEN PolicyUnsaved \cup {ip}
                            ELSE PolicyUnsaved \ {ip}
    BY MapStep
  <2> HIDE DEF ip
  <2> QED BY <1>1, <2>1
<1> QED BY <1>3, <1>4 DEF OnlySession

(* The policy's own copies of the record operators. *)
LEMMA SameOperators ==
  /\ Policy!NeverFailed = NeverFailed /\ Policy!LockoutState = LockoutState
  /\ \A r, now : /\ Policy!AfterFailure(r, now) = AfterFailure(r, now)
                 /\ Policy!IsLocked(r, now) <=> IsLocked(r, now)
                 /\ Policy!IsStale(r, now) <=> IsStale(r, now)
BY DEF Policy!NeverFailed, NeverFailed, Policy!LockoutState, LockoutState,
       Policy!AfterFailure, AfterFailure, Policy!Trips, Trips,
       Policy!IsLocked, IsLocked, Policy!IsStale, IsStale

LEMMA PolicyInitially == Init => Policy!Init
<1> SUFFICES ASSUME Init PROVE Policy!Init
  OBVIOUS
<1>1. \A ip \in IPs : Writers(ip) = {}
  BY DEF Init, Writers
<1>2. PolicyTrying = {} /\ PolicyUnsaved = {}
  BY <1>1 DEF Init, PolicyTrying, PolicyUnsaved
<1>3. PolicyRecord = [ip \in IPs |-> NeverFailed]
  BY <1>1 DEF Init, PolicyRecord
<1>4. clock \in Nat
  BY DEF Init
<1> QED BY <1>2, <1>3, <1>4, SameOperators DEF Policy!Init, PolicyUnsaved

PolicyStep == [Policy!Next]_(Policy!vars)

LEMMA StepImplementsPolicy ==
  ASSUME ~Parallel, ~IOFaults, TypeOK, TypeOK', SerialInv, [Next]_vars
  PROVE  PolicyStep
<1> USE DEF Goto
<1>s. ASSUME UNCHANGED <<clock, PolicyRecord, PolicyTrying, PolicyUnsaved>>
      PROVE  PolicyStep
  BY <1>s DEF PolicyStep, Policy!vars, PolicyUnsaved
<1>1. CASE Tick
  <2>1. UNCHANGED <<PolicyRecord, PolicyTrying, PolicyUnsaved>>
    BY <1>1 DEF Tick, PolicyRecord, PolicyTrying, PolicyUnsaved, Writers, LockoutFile
  <2>2. clock' = clock + 1
    BY <1>1 DEF Tick
  <2>3. Policy!Tick
    BY <2>1, <2>2 DEF Policy!Tick, PolicyUnsaved
  <2> QED BY <2>3 DEF PolicyStep, Policy!Next
<1>2. ASSUME NEW s \in Sessions, Start(s) PROVE PolicyStep
  <2>1. Alone(s)
    BY <1>2 DEF Start, Alone, Peers
  <2>2. /\ OnlySession(s) /\ UNCHANGED <<file, st>>
        /\ pc[s] = "spawned" /\ pc'[s] \in {"check", "broken"}
    BY <1>2 DEF Start, OnlySession, TypeOK
  <2> QED BY <1>s, <2>1, <2>2, StutterStep DEF Attempting, Saving
<1>3. ASSUME NEW s \in Sessions, ReadForCheck(s) \/ ReadForRecord(s) PROVE PolicyStep
  <2>1. Alone(s)
    BY <1>3, RunsAlone DEF ReadForCheck, ReadForRecord, Running
  <2>2. /\ OnlySession(s) /\ UNCHANGED file
        /\ \/ pc[s] = "check" /\ pc'[s] = "compare"
           \/ pc[s] = "record" /\ pc'[s] = "count"
    BY <1>3 DEF ReadForCheck, ReadForRecord, OnlySession, TypeOK
  <2> QED BY <1>s, <2>1, <2>2, StutterStep DEF Attempting, Saving
<1>4. ASSUME NEW s \in Sessions, FindLocked(s) \/ Accept(s) \/ RejectOrAbort(s) \/ Reply(s)
      PROVE  PolicyStep
  <2>1. Alone(s)
    BY <1>4, RunsAlone DEF FindLocked, Accept, RejectOrAbort, Reply, Running
  <2>2. /\ OnlySession(s) /\ UNCHANGED <<file, st>>
        /\ \/ pc[s] = "compare" /\ pc'[s] = "locked"
           \/ pc[s] = "verify" /\ pc'[s] \in {"reset", "record"}
           \/ pc[s] = "reply" /\ pc'[s] \in {"passed", "broken"}
    BY <1>4 DEF FindLocked, Accept, RejectOrAbort, Reply, OnlySession, TypeOK
  <2> QED BY <1>s, <2>1, <2>2, StutterStep DEF Attempting, Saving
<1>5. ASSUME NEW s \in Sessions, FindUnlocked(s) PROVE PolicyStep
  <2> DEFINE ip == LockoutFile(s)
  <2>1. Alone(s) /\ ip \in IPs
    BY <1>5, RunsAlone DEF FindUnlocked, Running, LockoutFile
  <2>2. /\ OnlySession(s) /\ UNCHANGED <<file, st, clock>> /\ ~IsLocked(st[s], clock)
        /\ pc[s] = "compare" /\ pc'[s] \in {"cleanup", "verify"}
    BY <1>5 DEF FindUnlocked, OnlySession, TypeOK
  <2>3. PolicyRecord[ip] = file[ip] /\ ip \notin PolicyTrying \cup PolicyUnsaved
    BY <2>1, <2>2, MapStep DEF Own, Attempting, Saving
  <2>4. /\ PolicyRecord' = [PolicyRecord EXCEPT ![ip] = PolicyRecord[ip]]
        /\ PolicyTrying' = PolicyTrying \cup {ip}
        /\ PolicyUnsaved' = PolicyUnsaved \ {ip}
    BY <2>1, <2>2, <2>3, MapStep DEF Attempting, Saving
  <2>5. PolicyRecord' = PolicyRecord /\ PolicyUnsaved' = PolicyUnsaved
    <3> HIDE DEF ip
    <3> QED BY <2>3, <2>4 DEF PolicyRecord
  <2>6. st[s] = file[ip]
    BY <2>2 DEF SerialInv, Current
  <2>7. ~IsLocked(PolicyRecord[ip], clock)
    BY <2>2, <2>3, <2>6
  <2>8. Policy!Begin(ip)
    BY <2>2, <2>3, <2>4, <2>5, <2>7, SameOperators DEF Policy!Begin, PolicyUnsaved
  <2> QED BY <2>1, <2>8 DEF PolicyStep, Policy!Next
<1>6. ASSUME NEW s \in Sessions, Cleanup(s) PROVE PolicyStep
  <2> DEFINE ip == LockoutFile(s)
  <2>1. Alone(s) /\ ip \in IPs
    BY <1>6, RunsAlone DEF Cleanup, Running, LockoutFile
  <2>2. /\ OnlySession(s) /\ clock' = clock /\ file'[ip] = NeverFailed
        /\ pc[s] = "cleanup" /\ pc'[s] = "verify"
    BY <1>6 DEF Cleanup, RemoveFile, OnlySession, TypeOK, LockoutFile
  <2>3. PolicyRecord[ip] = file[ip] /\ ip \in PolicyTrying /\ ip \notin PolicyUnsaved
    BY <2>1, <2>2, MapStep DEF Own, Attempting, Saving
  <2>4. /\ PolicyRecord' = [PolicyRecord EXCEPT ![ip] = NeverFailed]
        /\ PolicyTrying' = PolicyTrying \cup {ip}
        /\ PolicyUnsaved' = PolicyUnsaved \ {ip}
    BY <2>1, <2>2, MapStep DEF Attempting, Saving
  <2>5. PolicyTrying' = PolicyTrying /\ PolicyUnsaved' = PolicyUnsaved
    <3> HIDE DEF ip
    <3> QED BY <2>3, <2>4
  <2>6. IsStale(PolicyRecord[ip], clock)
    BY <2>2, <2>3 DEF SerialInv, Current
  <2>7. Policy!Forget(ip)
    BY <2>2, <2>4, <2>5, <2>6, SameOperators DEF Policy!Forget, PolicyUnsaved
  <2> QED BY <2>1, <2>7 DEF PolicyStep, Policy!Next
<1>7. ASSUME NEW s \in Sessions, Reset(s) PROVE PolicyStep
  <2> DEFINE ip == LockoutFile(s)
  <2>1. Alone(s) /\ ip \in IPs
    BY <1>7, RunsAlone DEF Reset, Running, LockoutFile
  <2>2. /\ OnlySession(s) /\ clock' = clock /\ file'[ip] = NeverFailed
        /\ pc[s] = "reset" /\ pc'[s] = "reply"
    BY <1>7 DEF Reset, RemoveFile, OnlySession, TypeOK, LockoutFile
  <2>3. ip \in PolicyTrying /\ ip \notin PolicyUnsaved
    BY <2>1, <2>2, MapStep DEF Own, Attempting, Saving
  <2>4. /\ PolicyRecord' = [PolicyRecord EXCEPT ![ip] = NeverFailed]
        /\ PolicyTrying' = PolicyTrying \ {ip}
        /\ PolicyUnsaved' = PolicyUnsaved \ {ip}
    BY <2>1, <2>2, MapStep DEF Attempting, Saving
  <2>5. PolicyUnsaved' = PolicyUnsaved
    <3> HIDE DEF ip
    <3> QED BY <2>3, <2>4
  <2>6. Policy!Succeed(ip)
    BY <2>2, <2>3, <2>4, <2>5, SameOperators DEF Policy!Succeed, PolicyUnsaved
  <2> QED BY <2>1, <2>6 DEF PolicyStep, Policy!Next
<1>8. ASSUME NEW s \in Sessions, CountFailure(s) PROVE PolicyStep
  <2> DEFINE ip == LockoutFile(s)
  <2>1. Alone(s) /\ ip \in IPs
    BY <1>8, RunsAlone DEF CountFailure, Running, LockoutFile
  <2>2. /\ OnlySession(s) /\ clock' = clock /\ st'[s] = AfterFailure(st[s], clock)
        /\ pc[s] = "count" /\ pc'[s] = "open"
    BY <1>8 DEF CountFailure, OnlySession, TypeOK
  <2>3. PolicyRecord[ip] = file[ip] /\ ip \in PolicyTrying /\ st[s] = file[ip]
    BY <2>1, <2>2, MapStep DEF Own, Attempting, Saving, SerialInv, Current
  <2>4. /\ PolicyRecord' = [PolicyRecord EXCEPT ![ip] = AfterFailure(PolicyRecord[ip], clock)]
        /\ PolicyTrying' = PolicyTrying \ {ip}
        /\ PolicyUnsaved' = PolicyUnsaved \cup {ip}
    BY <2>1, <2>2, <2>3, MapStep DEF Attempting, Saving
  <2>5. Policy!Fail(ip)
    BY <2>2, <2>3, <2>4, SameOperators DEF Policy!Fail, PolicyUnsaved
  <2> QED BY <2>1, <2>5 DEF PolicyStep, Policy!Next
<1>9. ASSUME NEW s \in Sessions, OpenTruncate(s) PROVE PolicyStep
  <2>1. Alone(s)
    BY <1>9, RunsAlone DEF OpenTruncate, Running
  <2>2. /\ OnlySession(s) /\ UNCHANGED st /\ pc[s] = "open" /\ pc'[s] = "write"
    BY <1>9 DEF OpenTruncate, OnlySession, TypeOK, LockoutFile
  <2> QED BY <1>s, <2>1, <2>2, StutterStep DEF Attempting, Saving
<1>10. ASSUME NEW s \in Sessions, Write(s) PROVE PolicyStep
  <2> DEFINE ip == LockoutFile(s)
  <2>1. Alone(s) /\ ip \in IPs
    BY <1>10, RunsAlone DEF Write, Running, LockoutFile
  <2>2. /\ OnlySession(s) /\ clock' = clock /\ file'[ip] = st[s]
        /\ pc[s] = "write" /\ pc'[s] \in {"check", "denied"}
    BY <1>10 DEF Write, NextAttempt, OnlySession, TypeOK, LockoutFile, SerialInv
  <2>3. PolicyRecord[ip] = st[s] /\ ip \notin PolicyTrying /\ ip \in PolicyUnsaved
    BY <2>1, <2>2, MapStep DEF Own, Attempting, Saving
  <2>4. /\ PolicyRecord' = [PolicyRecord EXCEPT ![ip] = PolicyRecord[ip]]
        /\ PolicyTrying' = PolicyTrying \ {ip}
        /\ PolicyUnsaved' = PolicyUnsaved \ {ip}
    BY <2>1, <2>2, <2>3, MapStep DEF Attempting, Saving
  <2>5. PolicyRecord' = PolicyRecord /\ PolicyTrying' = PolicyTrying
    <3> HIDE DEF ip
    <3> QED BY <2>3, <2>4 DEF PolicyRecord
  <2>6. Policy!Save(ip)
    BY <2>2, <2>3, <2>4, <2>5 DEF Policy!Save, PolicyUnsaved
  <2> QED BY <2>1, <2>6 DEF PolicyStep, Policy!Next
<1>11. ASSUME NEW s \in Sessions, Kill(s) PROVE PolicyStep
  <2> DEFINE ip == LockoutFile(s)
  <2>1. Alone(s) /\ ip \in IPs
    BY <1>11, RunsAlone DEF Kill, LockoutFile
  <2>2. /\ OnlySession(s) /\ UNCHANGED <<clock, file, st>>
        /\ pc[s] \in Running /\ pc'[s] = "killed"
    BY <1>11 DEF Kill, OnlySession, TypeOK
  <2>3. /\ PolicyRecord' = [PolicyRecord EXCEPT ![ip] = file[ip]]
        /\ PolicyTrying' = PolicyTrying \ {ip}
        /\ PolicyUnsaved' = PolicyUnsaved \ {ip}
    BY <2>1, <2>2, MapStep DEF Attempting, Saving
  <2>4. CASE pc[s] \in Attempting
    <3>1. PolicyRecord[ip] = file[ip] /\ ip \in PolicyTrying /\ ip \notin PolicyUnsaved
      BY <2>1, <2>2, <2>4, MapStep DEF Own, Attempting, Saving
    <3>2. PolicyRecord' = PolicyRecord /\ PolicyUnsaved' = PolicyUnsaved
      <4> HIDE DEF ip
      <4> QED BY <2>3, <3>1 DEF PolicyRecord
    <3>3. Policy!BreakOff(ip)
      BY <2>2, <2>3, <3>1, <3>2 DEF Policy!BreakOff, PolicyUnsaved
    <3> QED BY <2>1, <3>3 DEF PolicyStep, Policy!Next
  <2>5. CASE pc[s] \in Saving
    <3>1. PolicyRecord[ip] = st[s] /\ ip \notin PolicyTrying /\ ip \in PolicyUnsaved
      BY <2>1, <2>2, <2>5, MapStep DEF Own, Attempting, Saving
    <3>2. PolicyTrying' = PolicyTrying
      <4> HIDE DEF ip
      <4> QED BY <2>3, <3>1
    <3>3. /\ PolicyRecord'[ip] = file[ip]
          /\ \A other \in IPs \ {ip} : PolicyRecord'[other] = PolicyRecord[other]
      <4> HIDE DEF ip
      <4> QED BY <2>1, <2>3 DEF PolicyRecord
    <3>4. PolicyRecord' \in [IPs -> LockoutState]
      <4>1. ASSUME NEW i \in IPs PROVE PolicyRecord'[i] \in LockoutState
        <5>1. CASE Writers(i)' = {}
          BY <5>1 DEF PolicyRecord, TypeOK
        <5>2. CASE Writers(i)' # {}
          <6>1. PICK w \in Sessions : w = (CHOOSE t \in Writers(i)' : TRUE)
            BY <5>2 DEF Writers
          <6> QED BY <5>2, <6>1 DEF PolicyRecord, TypeOK
        <5> QED BY <5>1, <5>2
      <4>2. PolicyRecord' = [i \in IPs |-> PolicyRecord'[i]]
        BY DEF PolicyRecord
      <4> QED BY <4>1, <4>2
    <3>5. \/ file[ip] = NeverFailed
          \/ \E then \in 0..clock : AfterFailure(file[ip], then) = st[s]
      BY <2>5 DEF SerialInv, Current, Saving
    <3>6. \/ PolicyRecord'[ip] = Policy!NeverFailed
          \/ \E then \in 0..clock : Policy!AfterFailure(PolicyRecord'[ip], then) = PolicyRecord[ip]
      BY <3>1, <3>3, <3>5, SameOperators
    <3>7. Policy!Lose(ip)
      BY <2>2, <2>3, <3>1, <3>2, <3>3, <3>4, <3>6, SameOperators DEF Policy!Lose, PolicyUnsaved
    <3> QED BY <2>1, <3>7 DEF PolicyStep, Policy!Next
  <2>6. CASE pc[s] \notin Attempting /\ pc[s] \notin Saving
    BY <1>s, <2>1, <2>2, <2>6, StutterStep DEF Attempting, Saving
  <2> QED BY <2>4, <2>5, <2>6
<1>12. ASSUME UNCHANGED <<clock, file, pc, st>> PROVE PolicyStep
  <2>1. UNCHANGED <<clock, PolicyRecord, PolicyTrying, PolicyUnsaved>>
    BY <1>12 DEF PolicyRecord, PolicyTrying, PolicyUnsaved, Writers, LockoutFile
  <2> QED BY <1>s, <2>1
<1>13. ASSUME NEW s \in Sessions, HangUp(s) PROVE PolicyStep
  BY <1>12, <1>13 DEF HangUp
<1>14. CASE UNCHANGED vars \/ AllDone
  BY <1>12, <1>14 DEF vars, AllDone
<1> QED
  BY <1>1, <1>2, <1>3, <1>4, <1>5, <1>6, <1>7, <1>8, <1>9, <1>10, <1>11, <1>13, <1>14
     DEF Next, Compute, Conversation

(* Sessions of an address that follow one another, with a file system that
   works, keep the promise of the lockout to the letter, crashes included: every
   failure counts, no attempt starts under a lock, and nothing but a success or
   the end of a lock long ago clears a record (lockout.go:3-61, auth.go:103-117). *)
THEOREM GateImplementsPolicy ==
  ASSUME ~Parallel, ~IOFaults
  PROVE  Spec => ImplementsPolicy
<1>1. Init => SerialInv
  BY DEF Init, SerialInv, Exclusive, Current, Running
<1>2. TypeOK /\ TypeOK' /\ SerialInv /\ [Next]_vars => SerialInv' /\ [Policy!Next]_(Policy!vars)
  BY SerialStep, StepImplementsPolicy DEF PolicyStep
<1> QED
  BY <1>1, <1>2, PolicyInitially, TypeCorrect, PTL DEF Spec, ImplementsPolicy, Policy!Spec

-----------------------------------------------------------------------------
(* What the repeated check guarantees while a lock stands: overlapping       *)
(* sessions, failing writes and crashes included.                            *)

(* The history restricts nothing: its behaviours are behaviours of the gate. *)
LEMMA HistoryObserves == HistorySpec => Spec
<1>1. [HistoryNext]_allVars => [Next]_vars
  BY DEF HistoryNext, allVars
<1> QED BY <1>1, PTL DEF HistorySpec, Spec

(* Once a session has begun an attempt under a lock, what it reads is that very
   lock, for as long as the lock stands. *)
KnowsLock(s) ==
  /\ underLock[s] \in {0, 1}
  /\ underLock[s] = 1 =>
       /\ IsLocked(file[LockoutFile(s)], clock)
       /\ pc[s] # "spawned"
       /\ pc[s] = "compare" => st[s] = file[LockoutFile(s)]

LocksKnown == \A s \in Sessions : KnowsLock(s)

(* An attempt begins only in the comparison that finds no lock. *)
LEMMA AttemptsBeginUnlocked ==
  ASSUME TypeOK, [Next]_vars, NEW s \in Sessions, BeganAttempt(s)
  PROVE  pc[s] = "compare" /\ ~IsLocked(st[s], clock)
<1> USE DEF TypeOK, Goto, BeganAttempt, Trying
<1>1. ASSUME NEW t \in Sessions, FindUnlocked(t)
      PROVE  pc[s] = "compare" /\ ~IsLocked(st[s], clock)
  BY <1>1 DEF FindUnlocked
<1>2. \E t \in Sessions : FindUnlocked(t)
  BY DEF NextAttempt, Next, Tick, Compute, Conversation, Start, ReadForCheck,
         FindLocked, Cleanup, Accept, RejectOrAbort, Reset, Reply,
         ReadForRecord, CountFailure, OpenTruncate, Write, HangUp, Kill,
         AllDone, vars
<1> QED BY <1>1, <1>2

(* Its record changes before the comparison only by reading the file. *)
LEMMA ComparesWhatItRead ==
  ASSUME TypeOK, [Next]_vars, NEW s \in Sessions, pc'[s] = "compare"
  PROVE  \/ pc[s] = "compare" /\ st'[s] = st[s]
         \/ st'[s] = file[LockoutFile(s)]
<1> USE DEF TypeOK, Goto
<1>1. ASSUME NEW t \in Sessions, ReadForCheck(t)
      PROVE  \/ pc[s] = "compare" /\ st'[s] = st[s]
             \/ st'[s] = file[LockoutFile(s)]
  BY <1>1 DEF ReadForCheck, LockoutFile
<1>2. ASSUME NEW t \in Sessions, ReadForRecord(t) \/ CountFailure(t)
      PROVE  pc[s] = "compare" /\ st'[s] = st[s]
  BY <1>2 DEF ReadForRecord, CountFailure
<1>3. CASE UNCHANGED st /\ ~ \E t \in Sessions : ReadForCheck(t)
  <2>1. pc[s] = "compare"
    BY <1>3
       DEF NextAttempt, Next, Tick, Compute, Conversation, Start, FindLocked,
           FindUnlocked, Cleanup, Accept, RejectOrAbort, Reset, Reply,
           ReadForRecord, CountFailure, OpenTruncate, Write, HangUp, Kill,
           AllDone, vars
  <2> QED BY <1>3, <2>1
<1>4. \/ UNCHANGED st
      \/ \E t \in Sessions : \/ ReadForCheck(t) \/ ReadForRecord(t)
                             \/ CountFailure(t)
  BY DEF Next, Tick, Compute, Conversation, Start, FindLocked, FindUnlocked,
         Cleanup, Accept, RejectOrAbort, Reset, Reply, OpenTruncate, Write,
         HangUp, Kill, AllDone, vars
<1> QED BY <1>1, <1>2, <1>3, <1>4

(* As long as a lock stands on disk, each session begins at most the attempt
   whose check had read the file before (auth.go:135-155). *)
THEOREM CheckStopsAttempts == HistorySpec => []OneAttemptUnderLock
<1>1. Init /\ HistoryInit => LocksKnown
  BY DEF Init, HistoryInit, LocksKnown, KnowsLock
<1>2. TypeOK /\ LocksKnown /\ [HistoryNext]_allVars => LocksKnown'
  <2> SUFFICES ASSUME TypeOK, LocksKnown, [HistoryNext]_allVars,
                      NEW s \in Sessions
               PROVE  KnowsLock(s)'
    BY DEF LocksKnown
  <2> DEFINE ip == LockoutFile(s)
  <2>0. ip \in IPs /\ [Next]_vars /\ KnowsLock(s)
    <3>1. ip \in IPs
      BY DEF LockoutFile
    <3>2. [Next]_vars
      BY DEF HistoryNext, allVars
    <3> QED BY <3>1, <3>2 DEF LocksKnown
  <2>1. CASE HistoryNext /\ LockStands(ip)
    <3>1. underLock'[s] = underLock[s] + One(BeganAttempt(s))
      BY <2>1 DEF HistoryNext, Observe
    <3>2. IsLocked(file'[ip], clock') /\ IsLocked(file[ip], clock)
      <4>1. clock' = clock \/ clock' = clock + 1
        BY <2>0 DEF Next, Tick, Compute, Conversation, Start, ReadForCheck,
           FindLocked, FindUnlocked, Cleanup, Accept, RejectOrAbort, Reset,
           Reply, ReadForRecord, CountFailure, OpenTruncate, Write, HangUp,
           Kill, AllDone, vars
      <4>2. file[ip].lockedUntil \in Nat /\ clock \in Nat
        BY <2>0 DEF TypeOK, LockoutState
      <4> QED BY <2>1, <4>1, <4>2 DEF LockStands, IsLocked
    <3>3. CASE BeganAttempt(s)
      <4>1. pc[s] = "compare" /\ ~IsLocked(st[s], clock)
        BY <2>0, <3>3, AttemptsBeginUnlocked
      <4>2. underLock[s] = 0
        BY <2>0, <3>2, <4>1 DEF KnowsLock
      <4>3. pc'[s] \in {"cleanup", "verify"}
        BY <3>3 DEF BeganAttempt, Trying
      <4> QED BY <3>1, <3>2, <3>3, <4>2, <4>3 DEF KnowsLock, One, LockoutFile
    <3>4. CASE ~BeganAttempt(s)
      <4>1. underLock'[s] = underLock[s]
        BY <2>0, <3>1, <3>4 DEF One, KnowsLock
      <4>2. ASSUME underLock[s] = 1 PROVE pc'[s] # "spawned"
        BY <2>0, <4>2
           DEF KnowsLock, TypeOK, Goto, NextAttempt, Next, Tick, Compute,
               Conversation, Start, ReadForCheck, FindLocked, FindUnlocked,
               Cleanup, Accept, RejectOrAbort, Reset, Reply, ReadForRecord,
               CountFailure, OpenTruncate, Write, HangUp, Kill, AllDone, vars
      <4>3. ASSUME underLock[s] = 1, pc'[s] = "compare"
            PROVE  st'[s] = file'[ip]
        BY <2>0, <2>1, <4>3, ComparesWhatItRead DEF KnowsLock, LockStands
      <4> QED BY <2>0, <3>2, <4>1, <4>2, <4>3 DEF KnowsLock, LockoutFile
    <3> QED BY <3>3, <3>4
  <2>2. CASE HistoryNext /\ ~LockStands(ip)
    <3>1. underLock'[s] = 0
      BY <2>2 DEF HistoryNext, Observe
    <3> QED BY <3>1 DEF KnowsLock
  <2>3. CASE UNCHANGED allVars
    BY <2>0, <2>3 DEF allVars, historyVars, vars, KnowsLock, LockoutFile
  <2> QED BY <2>1, <2>2, <2>3
<1>3. LocksKnown => OneAttemptUnderLock
  BY DEF LocksKnown, KnowsLock, OneAttemptUnderLock
<1> QED
  BY <1>1, <1>2, <1>3, HistoryObserves, TypeCorrect, PTL DEF HistorySpec

===============================================================================
