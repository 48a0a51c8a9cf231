---------------------------- MODULE LockoutPolicy ----------------------------
(***************************************************************************)
(* What the lockout promises, with no files and no processes: an attempt   *)
(* of an address begins only while the address is not locked, every failed *)
(* attempt counts at once, the one that fills the counter locks the        *)
(* address for LockoutDuration, a success forgets everything, and a record *)
(* whose lock ended more than StaleAfter ago may be forgotten.  A process  *)
(* that is killed loses at most the failure it has not saved yet, or the   *)
(* record it was rewriting with it.                                        *)
(***************************************************************************)
EXTENDS Lockout

CONSTANT IPs

VARIABLES
  clock,   \* Unix seconds
  record,  \* record[ip] : the lockout record of the address
  trying,  \* the addresses with an OS authentication in progress
  unsaved  \* the addresses whose last failure is not on disk yet

vars == <<clock, record, trying, unsaved>>

Init ==
  /\ clock \in Nat
  /\ record = [ip \in IPs |-> NeverFailed]
  /\ trying = {}
  /\ unsaved = {}

Begin(ip) ==
  /\ ip \notin trying \cup unsaved
  /\ ~IsLocked(record[ip], clock)
  /\ trying' = trying \cup {ip}
  /\ UNCHANGED <<clock, record, unsaved>>

Fail(ip) ==
  /\ ip \in trying
  /\ record' = [record EXCEPT ![ip] = AfterFailure(@, clock)]
  /\ trying' = trying \ {ip}
  /\ unsaved' = unsaved \cup {ip}
  /\ UNCHANGED clock

Save(ip) ==
  /\ ip \in unsaved
  /\ unsaved' = unsaved \ {ip}
  /\ UNCHANGED <<clock, record, trying>>

Succeed(ip) ==
  /\ ip \in trying
  /\ record' = [record EXCEPT ![ip] = NeverFailed]
  /\ trying' = trying \ {ip}
  /\ UNCHANGED <<clock, unsaved>>

Forget(ip) ==
  /\ IsStale(record[ip], clock)
  /\ record' = [record EXCEPT ![ip] = NeverFailed]
  /\ UNCHANGED <<clock, trying, unsaved>>

(* The process dies: an attempt without a result does not count ... *)
BreakOff(ip) ==
  /\ ip \in trying
  /\ trying' = trying \ {ip}
  /\ UNCHANGED <<clock, record, unsaved>>

(* ... a failure that was not saved is taken back, unless the record has been
   truncated for it. *)
Lose(ip) ==
  /\ ip \in unsaved
  /\ unsaved' = unsaved \ {ip}
  /\ record' \in [IPs -> LockoutState]
  /\ \A other \in IPs \ {ip} : record'[other] = record[other]
  /\ \/ record'[ip] = NeverFailed
     \/ \E then \in 0..clock : AfterFailure(record'[ip], then) = record[ip]
  /\ UNCHANGED <<clock, trying>>

Tick ==
  /\ clock' = clock + 1
  /\ UNCHANGED <<record, trying, unsaved>>

Next ==
  \/ Tick
  \/ \E ip \in IPs :
       \/ Begin(ip) \/ Fail(ip) \/ Save(ip) \/ Succeed(ip) \/ Forget(ip)
       \/ BreakOff(ip) \/ Lose(ip)

Spec == Init /\ [][Next]_vars

=============================================================================
