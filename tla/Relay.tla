-------------------------------- MODULE Relay --------------------------------
(***************************************************************************)
(* The last phase of a session: run() of main.go from ptyDone on, and      *)
(* relay() with its three goroutines.  One goroutine carries the program's *)
(* output to the frontend, one carries frames to the program, the watchdog *)
(* looks at the activity both signal, and the main goroutine waits for the *)
(* first of three ends: the program, the watchdog, the maximum duration.   *)
(*                                                                         *)
(* The bytes are left out: what matters is who is blocked on what, and     *)
(* which call still works after the other side has closed.                 *)
(***************************************************************************)
EXTENDS Integers, Sequences

CONSTANTS
  IdleTimeout,   \* seconds of silence the watchdog waits for
  MaxTimeout,    \* seconds a session lasts at most
  InboxCapacity, \* bound: frames on the way from the frontend
  Burst          \* bound: chunks and frames produced in one second

ASSUME RelayAssumption ==
  /\ IdleTimeout \in Nat \ {0}
  /\ MaxTimeout \in Nat \ {0}
  /\ InboxCapacity \in Nat \ {0}
  /\ Burst \in Nat \ {0}

VARIABLES
  clock,        \* seconds since the relay started
  program,      \* "running", "exited", or "reaped" once pty.Wait returned
  tty,          \* is the program's side of the PTY "open" or "closed"?
  output,       \* is there program output nobody has read yet?
  conn,         \* the frontend's side: "open", "half" (it only reads),
                \* "closed", "reset" (and has answered a frame with a reset)
  inbox,        \* frames sent by the frontend and not read: "good" or "bad"
  outgoing,     \* the goroutine PTY -> frontend
  incoming,     \* the goroutine frontend -> PTY
  lastActivity, \* is there a token in the one-slot channel?
  idleAt,       \* when the idle timer fires
  watchdog,     \* "waiting", or "returned" (relayDone is closed)
  main,         \* the main goroutine
  cause,        \* which case of its select was taken
  lastTraffic,  \* when activity was last signalled (history)
  closedAt,     \* when the frontend closed (history)
  deadAt,       \* when the first pump returned, or -1 (history)
  budget        \* chunks and frames left for this second

vars == <<clock, program, tty, output, conn, inbox, outgoing, incoming,
          lastActivity, idleAt, watchdog, main, cause, lastTraffic, closedAt,
          deadAt, budget>>

frontendVars == <<conn, inbox, closedAt>>
programVars == <<program, tty, output>>
activityVars == <<lastActivity, lastTraffic>>
pumpVars == <<outgoing, incoming, deadAt>>
watchVars == <<idleAt, watchdog>>
mainVars == <<main, cause>>
timeVars == <<clock, budget>>

Alive == main # "gone"

Init ==
  /\ clock = 0
  /\ program = "running" /\ tty = "open" /\ output = FALSE
  /\ conn = "open" /\ inbox = <<>>
  /\ outgoing = "reading" /\ incoming = "reading"
  /\ lastActivity = FALSE
  /\ idleAt = IdleTimeout
  /\ watchdog = "waiting"
  /\ main = "selecting" /\ cause = "none"
  /\ lastTraffic = 0
  /\ closedAt = 0
  /\ deadAt = -1
  /\ budget = Burst

-----------------------------------------------------------------------------
(* relay(): the two pumps.  signalActivity never blocks: a token that is     *)
(* already in the channel stands for this one too.                           *)

SignalActivity ==
  /\ lastActivity' = TRUE
  /\ lastTraffic' = clock

PumpReturns == deadAt' = IF deadAt = -1 THEN clock ELSE deadAt

ReadOutput ==
  /\ Alive /\ outgoing = "reading"
  /\ output
  /\ output' = FALSE
  /\ SignalActivity
  /\ outgoing' = "sending"
  /\ UNCHANGED <<timeVars, program, tty, frontendVars, incoming, deadAt,
                 watchVars, mainVars>>

(* Mutant: the error of WriteFrame is ignored. *)
SendOutputAnyway ==
  /\ Alive /\ outgoing = "sending"
  /\ conn' = IF conn = "closed" THEN "reset" ELSE conn
  /\ outgoing' = "reading"
  /\ UNCHANGED <<timeVars, programVars, inbox, closedAt, incoming, deadAt,
                 activityVars, watchVars, mainVars>>

(* The first frame after the frontend closed is still accepted by the kernel;
   the answer is a reset, and the next one fails. *)
SendOutput ==
  /\ Alive /\ outgoing = "sending"
  /\ \/ /\ conn # "reset"
        /\ conn' = IF conn = "closed" THEN "reset" ELSE conn
        /\ outgoing' = "reading"
        /\ UNCHANGED deadAt
     \/ /\ conn = "reset"
        /\ outgoing' = "returned"
        /\ PumpReturns
        /\ UNCHANGED conn
  /\ UNCHANGED <<timeVars, programVars, inbox, closedAt, incoming,
                 activityVars, watchVars, mainVars>>

OutputEnds ==
  /\ Alive /\ outgoing = "reading"
  /\ ~output /\ tty = "closed"
  /\ outgoing' = "returned"
  /\ PumpReturns
  /\ UNCHANGED <<timeVars, programVars, frontendVars, incoming, activityVars,
                 watchVars, mainVars>>

ReadInput ==
  /\ Alive /\ incoming = "reading"
  /\ inbox # <<>> /\ Head(inbox) = "good"
  /\ inbox' = Tail(inbox)
  /\ SignalActivity
  /\ incoming' = "writing"
  /\ UNCHANGED <<timeVars, programVars, conn, closedAt, outgoing, deadAt,
                 watchVars, mainVars>>

(* pty.Write fails only when the program's side is closed, and on some
   systems not even then. *)
WriteInput ==
  /\ Alive /\ incoming = "writing"
  /\ \/ incoming' = "reading" /\ UNCHANGED deadAt
     \/ tty = "closed" /\ incoming' = "returned" /\ PumpReturns
  /\ UNCHANGED <<timeVars, programVars, frontendVars, outgoing, activityVars,
                 watchVars, mainVars>>

(* A frame that does not open, or the end of the stream; after a reset the
   frames still unread are gone. *)
StreamBroken ==
  \/ inbox # <<>> /\ Head(inbox) = "bad"
  \/ inbox = <<>> /\ conn # "open"
  \/ conn = "reset"

InputEnds ==
  /\ Alive /\ incoming = "reading"
  /\ StreamBroken
  /\ incoming' = "returned"
  /\ PumpReturns
  /\ UNCHANGED <<timeVars, programVars, frontendVars, outgoing, activityVars,
                 watchVars, mainVars>>

-----------------------------------------------------------------------------
(* Mutant: the token is taken and the timer is not reset. *)
RefreshNoReset ==
  /\ Alive /\ watchdog = "waiting"
  /\ lastActivity
  /\ lastActivity' = FALSE
  /\ UNCHANGED <<timeVars, programVars, frontendVars, pumpVars, lastTraffic,
                 watchVars, mainVars>>

(* Mutant: the timeout is added to the old deadline. *)
RefreshAdding ==
  /\ Alive /\ watchdog = "waiting"
  /\ lastActivity
  /\ lastActivity' = FALSE
  /\ idleAt' = idleAt + IdleTimeout
  /\ UNCHANGED <<timeVars, programVars, frontendVars, pumpVars, lastTraffic,
                 watchdog, mainVars>>

(* The idle watchdog; with a token and an expired timer it takes either. *)

Refresh ==
  /\ Alive /\ watchdog = "waiting"
  /\ lastActivity
  /\ lastActivity' = FALSE
  /\ idleAt' = clock + IdleTimeout
  /\ UNCHANGED <<timeVars, programVars, frontendVars, pumpVars, lastTraffic,
                 watchdog, mainVars>>

IdleExpires ==
  /\ Alive /\ watchdog = "waiting"
  /\ clock >= idleAt
  /\ watchdog' = "returned"
  /\ UNCHANGED <<timeVars, programVars, frontendVars, pumpVars, activityVars,
                 idleAt, mainVars>>

-----------------------------------------------------------------------------
(* Mutant: the exit of the program counts once its output has been sent. *)
ReadyAfterDrain(end) ==
  CASE end = "program" -> program = "reaped" /\ outgoing = "returned"
    [] end = "relay"   -> watchdog = "returned"
    [] end = "max"     -> clock >= MaxTimeout

(* run(): the select and the deferred calls.                                 *)

Ready(end) ==
  CASE end = "program" -> program = "reaped"
    [] end = "relay"   -> watchdog = "returned"
    [] end = "max"     -> clock >= MaxTimeout

Select ==
  /\ main = "selecting"
  /\ \E end \in {"program", "relay", "max"} :
       /\ Ready(end)
       /\ cause' = end
  /\ main' = "closing"
  /\ UNCHANGED <<timeVars, programVars, frontendVars, pumpVars, activityVars, watchVars>>

(* The deferred pty.Close closes the PTY and kills the program ... *)
ClosePTY ==
  /\ main = "closing"
  /\ program' = IF program = "running" THEN "exited" ELSE program
  /\ tty' = "closed"
  /\ main' = "closed"
  /\ UNCHANGED <<timeVars, output, frontendVars, pumpVars, activityVars, watchVars, cause>>

(* Mutant: conn.Close lingers until the frontend has closed, too. *)
ExitLingering ==
  /\ main = "closed"
  /\ conn # "open"
  /\ main' = "gone"
  /\ UNCHANGED <<timeVars, programVars, frontendVars, pumpVars, activityVars,
                 watchVars, cause>>

(* ... conn.Close follows, and the process exits with all its goroutines. *)
Exit ==
  /\ main = "closed"
  /\ main' = "gone"
  /\ UNCHANGED <<timeVars, programVars, frontendVars, pumpVars, activityVars, watchVars, cause>>

(* The goroutine that waits for the program. *)
Reap ==
  /\ Alive /\ program = "exited"
  /\ program' = "reaped"
  /\ UNCHANGED <<timeVars, tty, output, frontendVars, pumpVars, activityVars, watchVars, mainVars>>

-----------------------------------------------------------------------------
(* The program, the frontend and time.                                       *)

Produce ==
  /\ program = "running" /\ tty = "open"
  /\ ~output /\ budget > 0
  /\ output' = TRUE
  /\ budget' = budget - 1
  /\ UNCHANGED <<clock, program, tty, frontendVars, pumpVars, activityVars, watchVars, mainVars>>

(* A child that keeps the terminal open may outlive the program, and the
   program may close its terminal and run on. *)
ProgramExits ==
  /\ program = "running"
  /\ program' = "exited"
  /\ tty' \in {tty, "closed"}
  /\ UNCHANGED <<timeVars, output, frontendVars, pumpVars, activityVars, watchVars, mainVars>>

CloseTerminal ==
  /\ program = "running" /\ tty = "open"
  /\ tty' = "closed"
  /\ UNCHANGED <<timeVars, program, output, frontendVars, pumpVars, activityVars, watchVars, mainVars>>

FrontendSends ==
  /\ Alive /\ conn = "open"
  /\ Len(inbox) < InboxCapacity /\ budget > 0
  /\ \E frame \in {"good", "bad"} : inbox' = Append(inbox, frame)
  /\ budget' = budget - 1
  /\ UNCHANGED <<clock, programVars, conn, closedAt, pumpVars, activityVars, watchVars, mainVars>>

FrontendCloses ==
  /\ Alive /\ conn \in {"open", "half"}
  /\ \/ conn = "open" /\ conn' = "half" /\ UNCHANGED closedAt
     \/ conn' = "closed" /\ closedAt' = clock
  /\ UNCHANGED <<timeVars, programVars, inbox, pumpVars, activityVars, watchVars, mainVars>>

(* A second is long for a computer: it does not pass while a goroutine can
   run.  Only a pump whose write blocks, because the frontend or the program
   does not read, may stay where it is for any time. *)
Quiet ==
  /\ main = "selecting"
  /\ \A end \in {"program", "relay", "max"} : ~Ready(end)
  /\ program # "exited"
  /\ ~lastActivity /\ clock < idleAt
  /\ outgoing = "reading" => ~output /\ tty = "open"
  /\ outgoing = "sending" => conn \in {"open", "half"}
  /\ incoming = "reading" => inbox = <<>> /\ ~StreamBroken

Tick ==
  /\ Quiet
  /\ clock' = clock + 1
  /\ budget' = Burst
  /\ UNCHANGED <<programVars, frontendVars, pumpVars, activityVars, watchVars,
                 mainVars>>

Pump ==
  \/ ReadOutput
  \/ SendOutput
  \/ OutputEnds
  \/ ReadInput
  \/ WriteInput
  \/ InputEnds

Watch == Refresh \/ IdleExpires

Environment ==
  \/ Produce
  \/ ProgramExits
  \/ CloseTerminal
  \/ FrontendSends
  \/ FrontendCloses
  \/ Tick

(* The process is gone. *)
Gone == ~Alive /\ UNCHANGED vars

Next ==
  \/ Pump
  \/ Watch
  \/ Select
  \/ ClosePTY
  \/ Exit
  \/ Reap
  \/ Environment
  \/ Gone

Spec == Init /\ [][Next]_vars

(* The main goroutine runs, and so does the one that waits for the program;
   nothing is said of the clock: what ends without any timeout. *)
TimelessSpec ==
  /\ Spec
  /\ WF_vars(Select) /\ WF_vars(ClosePTY) /\ WF_vars(Exit) /\ WF_vars(Reap)

-----------------------------------------------------------------------------

TypeOK ==
  /\ clock \in 0..MaxTimeout
  /\ program \in {"running", "exited", "reaped"}
  /\ tty \in {"open", "closed"}
  /\ output \in BOOLEAN
  /\ conn \in {"open", "half", "closed", "reset"}
  /\ inbox \in Seq({"good", "bad"}) /\ Len(inbox) <= InboxCapacity
  /\ outgoing \in {"reading", "sending", "returned"}
  /\ incoming \in {"reading", "writing", "returned"}
  /\ lastActivity \in BOOLEAN
  /\ idleAt \in 0..(MaxTimeout + IdleTimeout)
  /\ watchdog \in {"waiting", "returned"}
  /\ main \in {"selecting", "closing", "closed", "gone"}
  /\ cause \in {"none", "program", "relay", "max"}
  /\ lastTraffic \in 0..clock
  /\ closedAt \in 0..clock
  /\ deadAt \in -1..clock
  /\ budget \in 0..Burst

(* The watchdog ends a session only after IdleTimeout of silence in both
   directions, except for traffic in the very second the timer fires, when its
   select may take either case (main.go:261-267, 300-315). *)
IdleMeansSilence ==
  [][watchdog' # watchdog =>
       \/ clock - lastTraffic >= IdleTimeout
       \/ lastTraffic = clock]_vars

(* After the frontend has closed, only what was already under way keeps the
   session awake: frames not yet read, and two chunks of output, the second of
   which finds the connection reset.  Each restarts the idle timer once
   (main.go:246-316). *)
HangUpIsNoticed ==
  conn \in {"closed", "reset"} =>
    clock <= closedAt + IdleTimeout * (InboxCapacity + 3)

(* The exit of the program ends the session with no help from a timeout, even
   while both pumps are blocked (main.go:177-186). *)
ExitEndsSession == program = "exited" ~> main = "gone"

(* The comment of the watchdog: a pump that returns shows up as silence, so no
   session waits for its maximum duration with a pump that died more than
   IdleTimeout ago (main.go:300-302). *)
DeadPumpShowsAsSilence ==
  cause = "max" /\ deadAt # -1 => MaxTimeout - deadAt <= IdleTimeout

=============================================================================
