------------------------------ MODULE PtyBackend ------------------------------
(***************************************************************************)
(* The three implementations of ptySession: creack/pty with os/exec on     *)
(* Unix, the C helper and raw process ids on illumos, ConPTY on Windows,   *)
(* used as run() and runExpect() use them: start, size, wait in a          *)
(* goroutine, close.                                                       *)
(*                                                                         *)
(* Under them is the kernel: a process that has ended keeps its id until   *)
(* it is waited for; then the id may be given to somebody else's process.  *)
(***************************************************************************)
EXTENDS Naturals, Sequences

CONSTANT Backends

ASSUME BackendAssumption == Backends \subseteq {"unix", "illumos", "windows"}

VARIABLES
  backend,
  geometry, \* does the configuration ask for a terminal size?
  pc,       \* the main goroutine
  master,   \* the master side: "none", "open", "closed"
  child,    \* "none", "setup" (before exec), "running", "zombie", "gone"
  step,     \* how far its setup has come
  status,   \* how it ended: "none", "ok", "bad"
  execed,   \* did it get as far as the program?
  pid,      \* whose process has the id: "nobody", "child", "stranger"
  size,     \* the terminal's size: "default" or "requested"
  sizing,   \* "none", or "failed" when a call to set the size has failed
  waiter,   \* the goroutine in Wait: "none", "waiting", "ok", "error"
  hit       \* has a stranger been killed?

vars == <<backend, geometry, pc, master, child, step, status, execed, pid, size,
          sizing, waiter, hit>>

config == <<backend, geometry>>
childVars == <<child, step, status, execed, pid>>
sizeVars == <<size, sizing>>

(* What the child does between fork and the program.  Unix leaves it to
   os/exec with Setsid and Setctty. *)
Setup ==
  IF backend = "illumos"
  THEN <<"setsid", "open slave", "push modules", "size", "dup2", "exec">>
  ELSE <<"setsid", "set ctty", "dup2", "exec">>

Init ==
  /\ backend \in Backends
  /\ geometry \in BOOLEAN
  /\ pc = "open" /\ master = "none"
  /\ child = "none" /\ step = 1 /\ status = "none" /\ execed = FALSE
  /\ pid = "nobody"
  /\ size = "default" /\ sizing = "none"
  /\ waiter = "none" /\ hit = FALSE

-----------------------------------------------------------------------------
(* startPTY *)

OpenMaster ==
  /\ pc = "open" /\ backend # "windows"
  /\ \/ master' = "open" /\ pc' = "prepare"
     \/ pc' = "refused" /\ UNCHANGED master
  /\ UNCHANGED <<config, childVars, sizeVars, waiter, hit>>

(* Mutant: the master is forgotten when unlockpt fails. *)
PrepareLeaking ==
  /\ pc = "prepare"
  /\ pc' \in {"fork", "refused"}
  /\ UNCHANGED <<config, master, childVars, sizeVars, waiter, hit>>

(* grantpt, unlockpt, ptsname *)
Prepare ==
  /\ pc = "prepare"
  /\ \/ pc' = "fork" /\ UNCHANGED master
     \/ pc' = "refused" /\ master' = "closed"
  /\ UNCHANGED <<config, childVars, sizeVars, waiter, hit>>

(* The C helper returns at once; os/exec waits for the outcome of exec. *)
Fork ==
  /\ pc = "fork"
  /\ \/ /\ child' = "setup" /\ pid' = "child"
        /\ pc' = IF backend = "unix" THEN "exec" ELSE "size"
        /\ UNCHANGED master
     \/ /\ pc' = "refused" /\ master' = "closed"
        /\ UNCHANGED <<child, pid>>
  /\ UNCHANGED <<config, step, status, execed, sizeVars, waiter, hit>>

(* A child that could not exec is waited for by os/exec itself. *)
ExecReported ==
  /\ pc = "exec"
  /\ \/ /\ execed
        /\ pc' = "size" /\ UNCHANGED <<master, child, pid>>
     \/ /\ ~execed /\ child = "zombie"
        /\ child' = "gone" /\ pid' = "nobody"
        /\ pc' = "refused" /\ master' = "closed"
  /\ UNCHANGED <<config, step, status, execed, sizeVars, waiter, hit>>

StartConPTY ==
  /\ pc = "open" /\ backend = "windows"
  /\ \/ /\ master' = "open" /\ pc' = "size"
        /\ child' = "running" /\ execed' = TRUE /\ pid' = "child"
     \/ /\ pc' = "refused"
        /\ UNCHANGED <<master, child, execed, pid>>
  /\ UNCHANGED <<config, step, status, sizeVars, waiter, hit>>

(* The child.  Only the call that sets the size may fail without harm. *)
SetupStep ==
  /\ child = "setup"
  /\ step' = step + 1
  /\ IF Setup[step] = "exec" THEN child' = "running" /\ execed' = TRUE
     ELSE UNCHANGED <<child, execed>>
  /\ \/ /\ Setup[step] = "size" /\ geometry
        /\ \/ size' = "requested" /\ UNCHANGED sizing
           \/ sizing' = "failed" /\ UNCHANGED size
     \/ /\ ~(Setup[step] = "size" /\ geometry)
        /\ UNCHANGED sizeVars
  /\ UNCHANGED <<config, pc, master, status, pid, waiter, hit>>

(* _exit(126), _exit(127) *)
SetupFails ==
  /\ child = "setup" /\ Setup[step] # "size"
  /\ child' = "zombie" /\ status' = "bad"
  /\ UNCHANGED <<config, pc, master, step, execed, pid, sizeVars, waiter, hit>>

ProgramExits ==
  /\ child = "running"
  /\ child' = "zombie" /\ status' \in {"ok", "bad"}
  /\ UNCHANGED <<config, pc, master, step, execed, pid, sizeVars, waiter, hit>>

-----------------------------------------------------------------------------
(* Resize, and the start of the goroutine that waits.                        *)

(* Mutant: illumos is sized from the parent as well. *)
ResizesEverywhere == TRUE

(* On illumos Resize does nothing: the child has sized the terminal. *)
Resizes == backend # "illumos"

Resize ==
  /\ pc = "size"
  /\ \/ /\ ~(geometry /\ Resizes)
        /\ pc' = "select" /\ waiter' = "waiting" /\ UNCHANGED sizeVars
     \/ /\ geometry /\ Resizes
        /\ child # "setup"   \* the modules are in place
        /\ size' = "requested"
        /\ pc' = "select" /\ waiter' = "waiting" /\ UNCHANGED sizing
     \/ /\ geometry /\ Resizes
        /\ sizing' = "failed"
        /\ pc' = "close" /\ UNCHANGED <<size, waiter>>
  /\ UNCHANGED <<config, master, childVars, hit>>

(* Mutant: only the error of wait4 is reported. *)
WaitErrorNever == "ok"

(* Mutant: the status is returned as it is. *)
WaitErrorRaw == status

(* The exit status; on Windows the code is dropped. *)
WaitError == IF status = "bad" /\ backend # "windows" THEN "error" ELSE "ok"

(* cmd.Wait, wait4 or WaitForSingleObject: the id is free from here on.  A
   Windows process keeps its id as long as somebody holds its handle.  A call
   that fails itself has waited for nobody and knows no status. *)
WaitReturns ==
  /\ waiter = "waiting" /\ child = "zombie"
  /\ \/ /\ child' = "gone"
        /\ pid' = IF backend = "windows" THEN pid ELSE "nobody"
        /\ waiter' = WaitError
     \/ /\ waiter' = "error"
        /\ UNCHANGED <<child, pid>>
  /\ UNCHANGED <<config, pc, master, step, status, execed, sizeVars, hit>>

-----------------------------------------------------------------------------
(* The session is over, whatever the reason: the deferred Close. *)

SessionOver ==
  /\ pc = "select"
  /\ pc' = "close"
  /\ UNCHANGED <<config, master, childVars, sizeVars, waiter, hit>>

CloseMaster ==
  /\ pc = "close" /\ backend # "windows"
  /\ master' = "closed" /\ pc' = "kill"
  /\ UNCHANGED <<config, childVars, sizeVars, waiter, hit>>

(* Mutant: the numeric id on Unix as well. *)
KillsByNumberAlways == TRUE

(* os.Process knows that its process has been waited for; a number does not. *)
KillsByNumber == backend = "illumos"

(* SIGKILL ends a child that lives and finds nobody, or somebody else, after
   it has been waited for. *)
Strike ==
  /\ IF child \in {"setup", "running"}
     THEN child' = "zombie" /\ status' = "bad"
     ELSE UNCHANGED <<child, status>>
  /\ hit' = (hit \/ (pid = "stranger" /\ KillsByNumber))

Kill ==
  /\ pc = "kill"
  /\ Strike
  /\ pc' = "closed"
  /\ UNCHANGED <<config, master, step, execed, pid, sizeVars, waiter>>

(* Closing a pseudo console ends the program attached to it. *)
CloseConPTY ==
  /\ pc = "close" /\ backend = "windows"
  /\ master' = "closed" /\ pc' = "closed"
  /\ Strike
  /\ UNCHANGED <<config, step, execed, pid, sizeVars, waiter>>

-----------------------------------------------------------------------------
(* The rest of the machine. *)

ReuseId ==
  /\ child = "gone" /\ pid = "nobody"
  /\ pid' = "stranger"
  /\ UNCHANGED <<config, pc, master, child, step, status, execed, sizeVars,
                 waiter, hit>>

StrangerEnds ==
  /\ pid = "stranger"
  /\ pid' = "nobody"
  /\ UNCHANGED <<config, pc, master, child, step, status, execed, sizeVars,
                 waiter, hit>>

Over == pc \in {"refused", "closed"} /\ UNCHANGED vars

Next ==
  \/ OpenMaster
  \/ Prepare
  \/ Fork
  \/ ExecReported
  \/ StartConPTY
  \/ SetupStep
  \/ SetupFails
  \/ ProgramExits
  \/ Resize
  \/ WaitReturns
  \/ SessionOver
  \/ CloseMaster
  \/ Kill
  \/ CloseConPTY
  \/ ReuseId
  \/ StrangerEnds
  \/ Over

Spec == Init /\ [][Next]_vars

-----------------------------------------------------------------------------

TypeOK ==
  /\ backend \in Backends /\ geometry \in BOOLEAN
  /\ pc \in {"open", "prepare", "fork", "exec", "size", "select", "close",
             "kill", "closed", "refused"}
  /\ master \in {"none", "open", "closed"}
  /\ child \in {"none", "setup", "running", "zombie", "gone"}
  /\ step \in 1..(Len(Setup) + 1)
  /\ status \in {"none", "ok", "bad"}
  /\ execed \in BOOLEAN
  /\ pid \in {"nobody", "child", "stranger"}
  /\ size \in {"default", "requested"} /\ sizing \in {"none", "failed"}
  /\ waiter \in {"none", "waiting", "ok", "error"}
  /\ hit \in BOOLEAN

(* A terminal that does not start leaves no descriptor open and no process
   behind, whichever call failed (pty_illumos.go:73-84, pty_unix.go:50-53). *)
RefusalLeavesNothing ==
  pc = "refused" => master # "open" /\ child \in {"none", "gone"}

(* Close can strike a foreign process in one case only: on illumos, where it
   kills by number, once Wait has returned the number to the system
   (pty_illumos.go:191-217, pty_unix.go:66-73). *)
StrangersAreSafe ==
  hit => backend = "illumos" /\ waiter \in {"ok", "error"}

(* The size asked for never ends a session whose child is still setting up its
   terminal, and on illumos the program finds it from its first instruction on,
   unless the terminal refused it (main.go:167-175, pty_illumos.go:98-112,
   179-189). *)
SizingDoesNotRace ==
  /\ pc = "close" /\ waiter = "none" => execed
  /\ backend = "illumos" /\ geometry /\ execed =>
       size = "requested" \/ sizing = "failed"

Starting == {"open", "prepare", "fork", "exec"}

(* What the relay and expect mode rely on (pty.go:12-19): a bad end, a program
   that could not be executed included, is never a success of Wait where the
   backend reports at all, and after Close no program is left, even one that
   was still being set up. *)
Interface == INSTANCE PtySession WITH
  reports <- (backend # "windows"),
  session <- CASE pc \in Starting -> "none"
               [] pc \in {"refused", "closed"} -> pc
               [] OTHER -> "open",
  program <- IF pc \in Starting \cup {"refused"} THEN "none"
             ELSE IF child \in {"setup", "running"} THEN "running" ELSE "ended",
  bad     <- (pc \notin {"exec", "refused"} /\ status = "bad"),
  waited  <- IF waiter \in {"ok", "error"} THEN waiter ELSE "nothing"

ImplementsInterface == Interface!Spec

=============================================================================
