--------------------------- MODULE PtyBackend_proofs ---------------------------
(***************************************************************************)
(* The safety properties of PtyBackend, and that each of the three         *)
(* backends implements the interface of pty.go, step by step.              *)
(***************************************************************************)
EXTENDS PtyBackend, TLAPS

USE BackendAssumption

-----------------------------------------------------------------------------

LEMMA SetupSteps ==
  /\ Len(Setup) = IF backend = "illumos" THEN 6 ELSE 4
  /\ \A i \in 1..Len(Setup) :
       /\ Setup[i] = "exec" <=> i = Len(Setup)
       /\ Setup[i] = "size" <=> backend = "illumos" /\ i = 4
<1>1. CASE backend = "illumos"
  <2>1. Len(Setup) = 6
    BY <1>1 DEF Setup
  <2>2. /\ Setup[1] = "setsid" /\ Setup[2] = "open slave"
        /\ Setup[3] = "push modules" /\ Setup[4] = "size"
        /\ Setup[5] = "dup2" /\ Setup[6] = "exec"
    BY <1>1 DEF Setup
  <2>3. 1..6 = {1, 2, 3, 4, 5, 6}
    OBVIOUS
  <2> QED BY <1>1, <2>1, <2>2, <2>3
<1>2. CASE backend # "illumos"
  <2>1. Len(Setup) = 4
    BY <1>2 DEF Setup
  <2>2. /\ Setup[1] = "setsid" /\ Setup[2] = "set ctty"
        /\ Setup[3] = "dup2" /\ Setup[4] = "exec"
    BY <1>2 DEF Setup
  <2>3. 1..4 = {1, 2, 3, 4}
    OBVIOUS
  <2> QED BY <1>2, <2>1, <2>2, <2>3
<1> QED BY <1>1, <1>2

LEMMA SetupLength ==
  /\ Len(Setup) \in {4, 6}
  /\ 1 \in 1..(Len(Setup) + 1)
  /\ \A i \in 1..Len(Setup) : i + 1 \in 1..(Len(Setup) + 1)
BY SetupSteps

-----------------------------------------------------------------------------
(* What is true of the descriptor, the child and its id at every place of    *)
(* the main goroutine.                                                       *)

Started == {"size", "select", "close", "kill", "closed"}

MasterFollows ==
  /\ pc \in {"prepare", "fork", "exec", "size", "select"} => master = "open"
  /\ pc = "refused" => master # "open"
  /\ pc = "open" => master = "none"

ChildFollows ==
  /\ pc \in {"open", "prepare", "fork"} <=> child = "none" /\ pc # "refused"
  /\ pc \in {"prepare", "fork"} => backend # "windows"
  /\ pc = "exec" => backend = "unix" /\ child \in {"setup", "running", "zombie"}
  /\ pc = "refused" => child \in {"none", "gone"}
  /\ pc \in Starting \cup {"refused", "size"} => waiter = "none"
  /\ pc = "select" => waiter # "none"
  /\ pc \in Started =>
       (child = "gone" => waiter \in {"ok", "error"})

(* A number belongs to the child until somebody has waited for it. *)
IdFollows ==
  /\ child \in {"setup", "running", "zombie"} => pid = "child"
  /\ pid = "stranger" => child = "gone"
  /\ backend = "windows" /\ child # "none" => pid = "child"

SetupFollows ==
  /\ child = "none" => step = 1 /\ ~execed
  /\ child = "setup" =>
       step <= Len(Setup) /\ ~execed /\ backend # "windows"
  /\ child = "running" => execed
  /\ execed /\ backend # "windows" => step = Len(Setup) + 1
  /\ backend # "illumos" /\ pc \in Started => execed
  /\ backend = "illumos" /\ pc \in Started => pc = "size" \/ waiter # "none"
  /\ backend = "illumos" /\ geometry /\ step > 4 =>
       size = "requested" \/ sizing = "failed"

StatusFollows ==
  /\ child \in {"none", "setup", "running"} <=> status = "none"
  /\ child = "gone" /\ pc # "refused" /\ backend # "windows" =>
       (status = "bad" => waiter = "error")

BackendInv ==
  /\ MasterFollows
  /\ ChildFollows
  /\ IdFollows
  /\ SetupFollows
  /\ StatusFollows
  /\ StrangersAreSafe

LEMMA ConfigurationStays ==
  [Next]_vars => UNCHANGED <<Setup, backend, geometry>>
BY DEF Setup, Next, config, OpenMaster, Prepare, Fork, ExecReported,
       StartConPTY, SetupStep, SetupFails, ProgramExits, Resize, WaitReturns,
       SessionOver, CloseMaster, Kill, CloseConPTY, ReuseId, StrangerEnds,
       Over, vars

LEMMA StepKeepsTypes == TypeOK /\ BackendInv /\ [Next]_vars => TypeOK'
<1> SUFFICES ASSUME TypeOK, BackendInv, [Next]_vars PROVE TypeOK'
  OBVIOUS
<1> USE ConfigurationStays DEF TypeOK, config, childVars, sizeVars
<1>1. CASE SetupStep
  <2>1. step + 1 \in 1..(Len(Setup) + 1)
    BY <1>1, SetupLength DEF SetupStep, BackendInv, SetupFollows
  <2>2. step' \in 1..(Len(Setup') + 1)
    BY <1>1, <2>1 DEF SetupStep
  <2>3. /\ child' \in {"setup", "running"} /\ execed' \in BOOLEAN
        /\ size' \in {"default", "requested"} /\ sizing' \in {"none", "failed"}
    BY <1>1 DEF SetupStep
  <2>4. UNCHANGED <<config, pc, master, status, pid, waiter, hit>>
    BY <1>1 DEF SetupStep
  <2> QED BY <2>2, <2>3, <2>4
<1>2. CASE OpenMaster \/ Prepare
  BY <1>2 DEF OpenMaster, Prepare
<1>3. CASE Fork
  BY <1>3 DEF Fork
<1>4. CASE ExecReported
  BY <1>4 DEF ExecReported
<1>5. CASE StartConPTY
  <2>1. execed' \in BOOLEAN
    BY <1>5, Zenon DEF StartConPTY
  <2>2. /\ master' \in {master, "open"} /\ pc' \in {"size", "refused"}
        /\ child' \in {child, "running"} /\ pid' \in {pid, "child"}
    BY <1>5 DEF StartConPTY
  <2>3. UNCHANGED <<config, step, status, size, sizing, waiter, hit>>
    BY <1>5 DEF StartConPTY
  <2> QED BY <2>1, <2>2, <2>3
<1>6. CASE SetupFails \/ ProgramExits \/ Resize
  <2>1. CASE SetupFails \/ ProgramExits
    BY <2>1 DEF SetupFails, ProgramExits
  <2>2. CASE Resize
    BY <2>2 DEF Resize
  <2> QED BY <1>6, <2>1, <2>2
<1>7. CASE WaitReturns \/ SessionOver \/ CloseMaster \/ ReuseId \/ StrangerEnds
  <2>1. CASE WaitReturns
    BY <2>1 DEF WaitReturns, WaitError
  <2>2. CASE SessionOver \/ CloseMaster
    BY <2>2 DEF SessionOver, CloseMaster
  <2>3. CASE ReuseId \/ StrangerEnds
    BY <2>3 DEF ReuseId, StrangerEnds
  <2> QED BY <1>7, <2>1, <2>2, <2>3
<1>8. CASE Kill \/ CloseConPTY
  <2>1. hit' \in BOOLEAN
    BY <1>8, Zenon DEF Kill, CloseConPTY, Strike
  <2>2. /\ pc' = "closed" /\ master' \in {master, "closed"}
        /\ child' \in {child, "zombie"} /\ status' \in {status, "bad"}
    BY <1>8 DEF Kill, CloseConPTY, Strike
  <2>3. UNCHANGED <<config, step, execed, pid, size, sizing, waiter>>
    BY <1>8 DEF Kill, CloseConPTY, Strike
  <2> QED BY <2>1, <2>2, <2>3
<1>9. CASE Over \/ UNCHANGED vars
  BY <1>9 DEF Over, vars
<1> QED
  BY <1>1, <1>2, <1>3, <1>4, <1>5, <1>6, <1>7, <1>8, <1>9 DEF Next

LEMMA StepKeepsInvariant ==
  TypeOK /\ TypeOK' /\ BackendInv /\ [Next]_vars => BackendInv'
<1> SUFFICES ASSUME TypeOK, TypeOK', BackendInv, [Next]_vars
             PROVE  BackendInv'
  OBVIOUS
<1> USE ConfigurationStays
    DEF BackendInv, MasterFollows, ChildFollows, IdFollows, SetupFollows,
        StatusFollows, StrangersAreSafe, Started, Starting, TypeOK, config,
        childVars, sizeVars
<1>1. CASE OpenMaster
  BY <1>1 DEF OpenMaster
<1>2. CASE Prepare
  BY <1>2 DEF Prepare
<1>3. CASE Fork
  <2>1. 1 <= Len(Setup) /\ step = 1 /\ ~execed
    BY <1>3, SetupLength DEF Fork
  <2>2. SetupFollows'
    BY <1>3, <2>1 DEF Fork
  <2>3. ChildFollows' /\ MasterFollows'
    BY <1>3 DEF Fork
  <2>4. IdFollows' /\ StatusFollows' /\ StrangersAreSafe'
    BY <1>3 DEF Fork
  <2> QED BY <2>2, <2>3, <2>4
<1>4. CASE ExecReported
  BY <1>4 DEF ExecReported
<1>5. CASE StartConPTY
  BY <1>5 DEF StartConPTY
<1>6. CASE SetupStep
  <2>1. /\ Len(Setup) \in {4, 6}
        /\ Setup[step] = "exec" <=> step = Len(Setup)
        /\ Setup[step] = "size" <=> backend = "illumos" /\ step = 4
        /\ backend = "illumos" => Len(Setup) = 6
        /\ step \in Nat
    BY <1>6, SetupSteps DEF SetupStep
  <2>2. SetupFollows'
    BY <1>6, <2>1 DEF SetupStep
  <2>3. ChildFollows' /\ MasterFollows'
    BY <1>6 DEF SetupStep
  <2>4. IdFollows' /\ StatusFollows' /\ StrangersAreSafe'
    BY <1>6 DEF SetupStep
  <2> QED BY <2>2, <2>3, <2>4
<1>7. CASE SetupFails
  BY <1>7 DEF SetupFails
<1>8. CASE ProgramExits
  BY <1>8 DEF ProgramExits
<1>9. CASE Resize
  <2>1. SetupFollows' /\ MasterFollows'
    BY <1>9 DEF Resize, Resizes
  <2>2. ChildFollows'
    BY <1>9 DEF Resize
  <2>3. IdFollows' /\ StatusFollows' /\ StrangersAreSafe'
    BY <1>9 DEF Resize
  <2> QED BY <2>1, <2>2, <2>3
<1>10. CASE WaitReturns
  BY <1>10 DEF WaitReturns, WaitError
<1>11. CASE SessionOver \/ CloseMaster
  BY <1>11 DEF SessionOver, CloseMaster
<1>12. CASE Kill
  BY <1>12 DEF Kill, Strike, KillsByNumber
<1>13. CASE CloseConPTY
  BY <1>13 DEF CloseConPTY, Strike, KillsByNumber
<1>14. CASE ReuseId \/ StrangerEnds
  BY <1>14 DEF ReuseId, StrangerEnds
<1>15. CASE Over \/ UNCHANGED vars
  BY <1>15 DEF Over, vars
<1> QED
  BY <1>1, <1>2, <1>3, <1>4, <1>5, <1>6, <1>7, <1>8, <1>9, <1>10, <1>11,
     <1>12, <1>13, <1>14, <1>15 DEF Next

LEMMA BackendInvariant == Spec => [](TypeOK /\ BackendInv)
<1>1. Init => TypeOK
  BY SetupLength DEF Init, TypeOK
<1>2. Init => BackendInv
  BY DEF Init, BackendInv, MasterFollows, ChildFollows, IdFollows,
         SetupFollows, StatusFollows, StrangersAreSafe, Started, Starting
<1> QED
  BY <1>1, <1>2, StepKeepsTypes, StepKeepsInvariant, PTL DEF Spec

(* The variables keep their types (pty_unix.go:42-73, pty_illumos.go:70-217,
   pty_windows.go:26-64). *)
THEOREM TypeCorrect == Spec => []TypeOK
BY BackendInvariant, PTL

(* A terminal that does not start leaves no descriptor open and no process
   behind, whichever call failed (pty_illumos.go:73-84, pty_unix.go:50-53). *)
THEOREM RefusalIsClean == Spec => []RefusalLeavesNothing
<1>1. BackendInv => RefusalLeavesNothing
  BY DEF BackendInv, MasterFollows, ChildFollows, RefusalLeavesNothing
<1> QED BY <1>1, BackendInvariant, PTL

(* No foreign process is killed but on illumos, after Wait has given the number
   back (pty_illumos.go:191-217, pty_unix.go:66-73). *)
THEOREM OnlyOwnProcessKilled == Spec => []StrangersAreSafe
<1>1. BackendInv => StrangersAreSafe
  BY DEF BackendInv
<1> QED BY <1>1, BackendInvariant, PTL

(* The size asked for never races the child that sets up its terminal
   (main.go:167-175, pty_illumos.go:98-112, 179-189). *)
THEOREM SizingIsOrdered == Spec => []SizingDoesNotRace
<1>1. TypeOK /\ BackendInv => SizingDoesNotRace
  <2> SUFFICES ASSUME TypeOK, BackendInv PROVE SizingDoesNotRace
    OBVIOUS
  <2>1. backend = "illumos" /\ execed => step > 4
    BY SetupSteps DEF BackendInv, SetupFollows
  <2> QED
    BY <2>1 DEF SizingDoesNotRace, TypeOK, BackendInv, SetupFollows, Started
<1> QED BY <1>1, BackendInvariant, PTL

-----------------------------------------------------------------------------

(* Each step of a backend is a step of the interface, or leaves what relay and
   expect mode see of it as it is (pty.go:12-19). *)
THEOREM BackendImplements == Spec => ImplementsInterface
<1>1. Init => Interface!Init
  BY DEF Init, Interface!Init, Starting
<1>2. TypeOK /\ TypeOK' /\ BackendInv /\ BackendInv' /\ [Next]_vars
        => [Interface!Next]_(Interface!vars)
  <2> SUFFICES ASSUME TypeOK, TypeOK', BackendInv, BackendInv', [Next]_vars
               PROVE  Interface!Next \/ UNCHANGED Interface!vars
    OBVIOUS
  <2> USE ConfigurationStays
      DEF TypeOK, BackendInv, ChildFollows, StatusFollows, Starting, Started,
          config, childVars, sizeVars, Interface!vars
  <2>1. CASE OpenMaster
    BY <2>1 DEF OpenMaster, Interface!Next, Interface!Refuse
  <2>2. CASE Prepare
    BY <2>2 DEF Prepare, Interface!Next, Interface!Refuse
  <2>3. CASE Fork
    BY <2>3 DEF Fork, Interface!Next, Interface!Refuse, Interface!Start
  <2>4. CASE ExecReported
    BY <2>4 DEF ExecReported, Interface!Next, Interface!Refuse, Interface!Start
  <2>5. CASE StartConPTY
    BY <2>5 DEF StartConPTY, Interface!Next, Interface!Refuse, Interface!Start
  <2>6. CASE SetupStep
    BY <2>6 DEF SetupStep
  <2>7. CASE SetupFails
    BY <2>7 DEF SetupFails, Interface!Next, Interface!End
  <2>8. CASE ProgramExits
    BY <2>8 DEF ProgramExits, Interface!Next, Interface!End
  <2>9. CASE Resize
    BY <2>9 DEF Resize
  <2>10. CASE WaitReturns
    BY <2>10 DEF WaitReturns, WaitError, Interface!Next, Interface!Wait
  <2>11. CASE SessionOver \/ CloseMaster
    BY <2>11 DEF SessionOver, CloseMaster
  <2>12. CASE Kill
    BY <2>12 DEF Kill, Strike, Interface!Next, Interface!Close
  <2>13. CASE CloseConPTY
    BY <2>13 DEF CloseConPTY, Strike, Interface!Next, Interface!Close
  <2>14. CASE ReuseId \/ StrangerEnds
    BY <2>14 DEF ReuseId, StrangerEnds
  <2>15. CASE Over \/ UNCHANGED vars
    BY <2>15 DEF Over, vars
  <2> QED
    BY <2>1, <2>2, <2>3, <2>4, <2>5, <2>6, <2>7, <2>8, <2>9, <2>10, <2>11,
       <2>12, <2>13, <2>14, <2>15 DEF Next
<1> QED
  BY <1>1, <1>2, BackendInvariant, PTL
     DEF Spec, ImplementsInterface, Interface!Spec

=============================================================================
