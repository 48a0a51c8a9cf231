-------------------------------- MODULE Console --------------------------------
(***************************************************************************)
(* One interactive cs-console process in full: run() of main.go with the   *)
(* password gate and the relay it calls, instead of the two steps Session  *)
(* has for them.  The three modules share the connection, so one hang-up   *)
(* reaches whichever of them is at work, and the deferred calls of run()   *)
(* end what the relay has left.  Other processes of the same frontend are  *)
(* at their gates meanwhile, over the same lockout file.                   *)
(***************************************************************************)
EXTENDS Integers, Sequences

CONSTANTS
  Hosts, Frontend, Nobody, AcceptWindow,             \* of Session
  Sessions, MaxAttempts, LockoutDuration, StaleAfter, \* of PasswordGate
  IdleTimeout, MaxTimeout, InboxCapacity, Burst,     \* of Relay
  me            \* this process, one of Sessions

ASSUME ConsoleAssumption == me \in Sessions

VARIABLES phase, listener, clock, link, backlog, accepted, conn, frame, hungUp,
          deferred

VARIABLES gateClock, file, pc, attempt, st, orphan, connected, retryAfter,
          recorded, crashes

VARIABLES relayClock, target, tty, output, wire, inbox, outgoing, incoming,
          lastActivity, idleAt, watchdog, main, cause, lastTraffic, closedAt,
          deadAt, budget

(* All of Session's that is kept here, but phase and deferred. *)
netVars == <<listener, clock, link, backlog, accepted, conn, frame, hungUp>>

runVars == <<phase, deferred, netVars>>

gateVars == <<gateClock, file, pc, attempt, st, orphan, connected, retryAfter,
              recorded, crashes>>

relayVars == <<relayClock, target, tty, output, wire, inbox, outgoing,
               incoming, lastActivity, idleAt, watchdog, main, cause,
               lastTraffic, closedAt, deadAt, budget>>

(* No process is killed here, every write succeeds and the gate takes no time:
   PasswordGate deals with the rest.  All sessions come from one frontend. *)
Gate == INSTANCE PasswordGate WITH
          clock <- gateClock, IPs <- {Frontend},
          FrontendIP <- [s \in Sessions |-> Frontend],
          Parallel <- TRUE, IOFaults <- FALSE, MaxClock <- 0, MaxCrashes <- 0

Relay == INSTANCE Relay WITH
           clock <- relayClock, program <- target, conn <- wire

(* The variables of the relay stand for the program and the connection from
   the start of the PTY on; its main goroutine leaves "selecting" with the
   deferred pty.Close. *)
Started == phase \in {"resize", "relay"} \/ main # "selecting"

Relaying == phase = "relay" \/ cause # "none"

Process == INSTANCE Session WITH
             Peers <- Hosts,
             gate <- pc[me] = "passed",
             program <- IF ~Started THEN "none"
                        ELSE IF target = "running" THEN "running" ELSE "over"

vars == <<runVars, gateVars, relayVars>>

Init == /\ phase = Process!Preparation[1] /\ listener = "closed" /\ clock = 0
        /\ link = [p \in Hosts |-> "none"] /\ backlog = <<>>
        /\ accepted = Nobody /\ conn = Nobody
        /\ frame = [p \in Hosts |-> "none"] /\ hungUp = {} /\ deferred = <<>>
        /\ Gate!Init
        /\ Relay!Init

-----------------------------------------------------------------------------

(* run() up to the gate, as in Session. *)
Preparing ==
  /\ UNCHANGED <<gateVars, relayVars>>
  /\ \E i \in 1..Len(Process!Preparation) : Process!Prepare(i)

Refusing ==
  /\ UNCHANGED <<gateVars, relayVars>>
  /\ \/ \E i \in 1..Len(Process!Preparation) : Process!PreparationFails(i)
     \/ Process!ExpectMode \/ Process!AcceptFails

Accepting ==
  /\ UNCHANGED <<gateVars, relayVars>>
  /\ Process!Accepting

Authenticating ==
  /\ UNCHANGED <<gateVars, relayVars>>
  /\ Process!Authenticate

(* Mutant: the error of the gate does not end run(). *)
AfterGateAnyway(end) ==
  CASE end \in Gate!Final -> "start"
    [] OTHER -> "gate"

(* Only a gate that returns nil leads on to the program. *)
AfterGate(end) ==
  CASE end = "passed" -> "start"
    [] end \in Gate!Final \ {"passed"} -> "return"
    [] OTHER -> "gate"

(* A step of runPasswordGate, with or without an answer of the frontend. *)
AtGate(step) ==
  /\ phase = "gate"
  /\ step
  /\ phase' = AfterGate(pc'[me])
  /\ UNCHANGED <<deferred, netVars, relayVars>>

GateComputes == AtGate(Gate!Compute(me))

GateConverses == AtGate(Gate!Conversation(me))

StartPTY ==
  /\ UNCHANGED <<gateVars, relayVars>>
  /\ phase = "start"
  /\ \/ phase' = "resize" /\ Process!Defer("pty.Close")
     \/ phase' = "return" /\ UNCHANGED deferred
  /\ UNCHANGED netVars

(* An error leaves the program to the deferred pty.Close. *)
Resize ==
  /\ phase = "resize"
  /\ \/ phase' = "relay" /\ UNCHANGED main
     \/ phase' = "return" /\ main' = "closing"
  /\ UNCHANGED <<deferred, netVars, gateVars, relayClock, target, tty, output,
                 wire, inbox, outgoing, incoming, lastActivity, idleAt,
                 watchdog, cause, lastTraffic, closedAt, deadAt, budget>>

(* The goroutines of the relay, which run on while run() returns. *)
Relays(step) ==
  /\ Relaying
  /\ step
  /\ UNCHANGED <<runVars, gateVars>>

RelayEnds ==
  /\ phase = "relay"
  /\ Relay!Select
  /\ phase' = "return"
  /\ UNCHANGED <<deferred, netVars, gateVars>>

(* The deferred calls.  pty.Close is the one the relay's main goroutine makes;
   behind conn.Close the pumps can only fail, and the relay counts as gone. *)
ClosePTY ==
  /\ Process!Calls("pty.Close")
  /\ Relay!ClosePTY
  /\ UNCHANGED <<phase, netVars, gateVars>>

CloseConn ==
  /\ IF Started THEN Relay!Exit ELSE UNCHANGED relayVars
  /\ UNCHANGED gateVars
  /\ Process!CloseConn

CloseListener ==
  /\ UNCHANGED <<gateVars, relayVars>>
  /\ Process!CloseListener

Exit ==
  /\ UNCHANGED <<gateVars, relayVars>>
  /\ Process!Exit

-----------------------------------------------------------------------------
(* The frontend, the program, the other sessions and time.                   *)

(* One connection, whoever reads it: the frontend that closes it may do so
   completely or, for a while, in one direction. *)
HangUp(p) ==
  /\ IF p = Frontend /\ pc[me] \notin Gate!Final
     THEN Gate!HangUp(me)
     ELSE UNCHANGED gateVars
  /\ IF p = Frontend THEN Relay!FrontendCloses ELSE UNCHANGED relayVars
  /\ Process!HangUp(p)

HangUpFully ==
  /\ wire = "half"
  /\ Relay!FrontendCloses
  /\ UNCHANGED <<runVars, gateVars>>

Connecting ==
  /\ UNCHANGED <<gateVars, relayVars>>
  /\ \E p \in Hosts : Process!Connect(p) \/ Process!SendFirst(p)

ProgramActs ==
  /\ Started
  /\ Relay!Produce \/ Relay!ProgramExits \/ Relay!CloseTerminal
  /\ UNCHANGED <<runVars, gateVars>>

(* Other processes pass their gates, or wait there for good. *)
Sibling(s) ==
  /\ phase = "gate" /\ s # me
  /\ Gate!Compute(s) \/ Gate!Conversation(s)
  /\ UNCHANGED <<runVars, relayVars>>

WindowTick ==
  /\ UNCHANGED <<gateVars, relayVars>>
  /\ Process!Tick

RelayTick ==
  /\ phase = "relay"
  /\ Relay!Tick
  /\ UNCHANGED <<runVars, gateVars>>

Finished ==
  /\ phase \in {"gone", "expect"}
  /\ UNCHANGED vars

Next ==
  \/ Preparing \/ Refusing \/ Accepting \/ Authenticating
  \/ GateComputes \/ GateConverses
  \/ StartPTY \/ Resize
  \/ Relays(Relay!Pump) \/ Relays(Relay!Watch) \/ Relays(Relay!Reap)
  \/ RelayEnds
  \/ ClosePTY \/ CloseConn \/ CloseListener \/ Exit
  \/ \E p \in Hosts : HangUp(p)
  \/ HangUpFully \/ Connecting
  \/ Relays(Relay!FrontendSends)
  \/ ProgramActs
  \/ \E s \in Sessions : Sibling(s)
  \/ WindowTick \/ RelayTick
  \/ Finished

Spec == Init /\ [][Next]_vars

(* Goroutines run, the window and the timers of the relay elapse, PAM returns
   once the frontend has hung up, and a write to a closed connection does not
   block.  Nothing is assumed of the siblings, of a connected frontend, of the
   program, or of the writes of the pumps to either while they stay. *)
Fairness ==
  /\ WF_vars(Preparing) /\ WF_vars(Accepting) /\ WF_vars(Authenticating)
  /\ WF_vars(WindowTick) /\ WF_vars(RelayTick)
  /\ WF_vars(GateComputes)
  /\ WF_vars(~connected[me] /\ GateConverses)
  /\ WF_vars(StartPTY) /\ WF_vars(Resize)
  /\ WF_vars(Relays(Relay!ReadOutput)) /\ WF_vars(Relays(Relay!OutputEnds))
  /\ WF_vars(wire \in {"closed", "reset"} /\ Relays(Relay!SendOutput))
  /\ WF_vars(Relays(Relay!ReadInput)) /\ WF_vars(Relays(Relay!InputEnds))
  /\ WF_vars(Relays(Relay!Watch)) /\ WF_vars(Relays(Relay!Reap))
  /\ WF_vars(RelayEnds) /\ WF_vars(ClosePTY) /\ WF_vars(CloseConn)
  /\ WF_vars(CloseListener) /\ WF_vars(Exit)

FairSpec == Spec /\ Fairness

-----------------------------------------------------------------------------

(* The gate and the relay, put in their places, do to the process what Session
   says they do and no more: the program starts behind a gate that was passed,
   runs until it ends or the process kills it, and leaves nothing open
   (main.go:132-191). *)
ImplementsSession == Process!Spec

(* A process that has passed the gate ends even if the frontend stays, both
   pumps are blocked and the program never exits; before that, a hang-up of the
   accepted frontend ends it in the middle of a prompt or of a write to the
   lockout file.  The other sessions of the address cannot hold it up
   (main.go:132-191, auth.go:118-190). *)
ConsoleEnds ==
  pc[me] = "passed" \/ (accepted # Nobody /\ accepted \in hungUp)
    ~> phase = "gone"

=============================================================================
