-------------------------------- MODULE Session --------------------------------
(***************************************************************************)
(* The life of one cs-console process: run() of main.go, from the start    *)
(* configuration to the exit.  The process listens on a port it reports to *)
(* server.pl, accepts one connection, checks its address and its token,    *)
(* passes it through the password gate and starts the program behind it.   *)
(* The gate and the relay are modules of their own (PasswordGate, Relay);  *)
(* here they return, with or without an error.                             *)
(***************************************************************************)
EXTENDS Integers, Sequences, FiniteSets

CONSTANTS
  Peers,        \* hosts that may connect to the reported port
  Frontend,     \* the host of frontend_ip
  Nobody,       \* no connection
  AcceptWindow  \* acceptWindow, in seconds (30 in the code)

ASSUME SessionAssumption ==
  /\ IsFiniteSet(Peers)
  /\ Frontend \in Peers
  /\ Nobody \notin Peers
  /\ AcceptWindow \in Nat \ {0}

VARIABLES
  phase,     \* how far run() has come
  listener,  \* is the port open?
  clock,     \* seconds since acceptOne was called
  link,      \* link[p]: the peer's connection
  backlog,   \* connections the kernel has completed and nobody accepted
  accepted,  \* the connection the goroutine of acceptOne has returned
  conn,      \* the connection of the session
  frame,     \* frame[p]: what the peer's first frame holds
  hungUp,    \* the peers that have closed their side
  gate,      \* has the password gate been passed?
  program,   \* the target program: "none", "running", "over"
  deferred   \* the deferred calls of run(), the last one first

vars == <<phase, listener, clock, link, backlog, accepted, conn, frame, hungUp,
          gate, program, deferred>>

peerVars == <<frame, hungUp>>
netVars == <<listener, link, backlog, accepted>>
gateVars == <<gate, program>>

(* The calls of run() that precede the wait for the frontend, in order. *)
Preparation == <<"root", "config", "keys", "listen", "report">>

Init ==
  /\ phase = Preparation[1]
  /\ listener = "closed"
  /\ clock = 0
  /\ link = [p \in Peers |-> "none"]
  /\ backlog = <<>>
  /\ accepted = Nobody
  /\ conn = Nobody
  /\ frame = [p \in Peers |-> "none"]
  /\ hungUp = {}
  /\ gate = FALSE
  /\ program = "none"
  /\ deferred = <<>>

-----------------------------------------------------------------------------

Defer(call) == deferred' = <<call>> \o deferred

(* requireRoot, readStartConfig, the token and the key, net.Listen,
   writeStartResult: each returns an error or leads to the next. *)
Prepare(i) ==
  /\ phase = Preparation[i]
  /\ phase' = IF i < Len(Preparation) THEN Preparation[i + 1] ELSE "accept"
  /\ IF phase = "listen"
     THEN listener' = "open" /\ Defer("ln.Close")
     ELSE UNCHANGED <<listener, deferred>>
  /\ UNCHANGED <<clock, link, backlog, accepted, conn, peerVars, gateVars>>

PreparationFails(i) ==
  /\ phase = Preparation[i]
  /\ phase' = "return"
  /\ UNCHANGED <<clock, netVars, conn, peerVars, gateVars, deferred>>

(* A configuration of mode "expect" is handed to runExpect. *)
ExpectMode ==
  /\ phase = "config"
  /\ phase' = "expect"
  /\ UNCHANGED <<clock, netVars, conn, peerVars, gateVars, deferred>>

(* The goroutine of acceptOne: one Accept, which may outlive the window. *)
AcceptReturns ==
  /\ phase = "accept" \/ (phase = "return" /\ clock >= AcceptWindow)
  /\ accepted = Nobody /\ backlog # <<>>
  /\ accepted' = Head(backlog)
  /\ backlog' = Tail(backlog)
  /\ link' = [link EXCEPT ![Head(backlog)] = "accepted"]
  /\ UNCHANGED <<phase, listener, clock, conn, peerVars, gateVars, deferred>>

(* Accept returns an error.  Once the window has elapsed this makes no
   difference. *)
AcceptFails ==
  /\ phase = "accept" /\ accepted = Nobody /\ clock < AcceptWindow
  /\ phase' = "return"
  /\ UNCHANGED <<clock, netVars, conn, peerVars, gateVars, deferred>>

(* Mutant: the address of the peer is not compared. *)
TakeAnyConnection ==
  /\ phase = "accept" /\ accepted # Nobody
  /\ conn' = accepted
  /\ Defer("conn.Close")
  /\ phase' = "authenticate"
  /\ UNCHANGED <<clock, netVars, peerVars, gateVars>>

TakeConnection ==
  /\ phase = "accept" /\ accepted = Frontend
  /\ conn' = accepted
  /\ Defer("conn.Close")
  /\ phase' = "authenticate"
  /\ UNCHANGED <<clock, netVars, peerVars, gateVars>>

(* errPeerMismatch, or an address that cannot be parsed, whoever it is: the
   only Accept is used up. *)
RefusePeer ==
  /\ phase = "accept" /\ accepted # Nobody
  /\ link' = [link EXCEPT ![accepted] = "closed"]
  /\ phase' = "return"
  /\ UNCHANGED <<listener, clock, backlog, accepted, conn, peerVars, gateVars,
                 deferred>>

(* Mutant: the deadline is looked at when Accept returns. *)
WindowClosesLate ==
  /\ phase = "accept" /\ clock >= AcceptWindow
  /\ accepted # Nobody
  /\ phase' = "return"
  /\ UNCHANGED <<clock, netVars, conn, peerVars, gateVars, deferred>>

WindowCloses ==
  /\ phase = "accept" /\ clock >= AcceptWindow
  /\ phase' = "return"
  /\ UNCHANGED <<clock, netVars, conn, peerVars, gateVars, deferred>>

(* Mutant: any first frame will do. *)
AuthenticateAny ==
  /\ phase = "authenticate"
  /\ \/ frame[conn] # "none" /\ phase' = "gate"
     \/ frame[conn] = "none" /\ conn \in hungUp /\ phase' = "return"
  /\ UNCHANGED <<clock, netVars, conn, peerVars, gateVars, deferred>>

(* authenticate reads one frame and no more, with no deadline. *)
Authenticate ==
  /\ phase = "authenticate"
  /\ \/ frame[conn] = "token" /\ phase' = "gate"
     \/ frame[conn] = "other" /\ phase' = "return"
     \/ frame[conn] = "none" /\ conn \in hungUp /\ phase' = "return"
  /\ UNCHANGED <<clock, netVars, conn, peerVars, gateVars, deferred>>

GateReturns ==
  /\ phase = "gate"
  /\ \/ phase' = "start" /\ gate' = TRUE
     \/ phase' = "return" /\ UNCHANGED gate
  /\ UNCHANGED <<clock, netVars, conn, peerVars, program, deferred>>

(* Mutant: pty.Close is deferred after the resize. *)
StartPTYUndeferred ==
  /\ phase = "start"
  /\ \/ phase' = "resize" /\ program' = "running"
     \/ phase' = "return" /\ UNCHANGED program
  /\ UNCHANGED <<clock, netVars, conn, peerVars, gate, deferred>>

StartPTY ==
  /\ phase = "start"
  /\ \/ phase' = "resize" /\ program' = "running" /\ Defer("pty.Close")
     \/ phase' = "return" /\ UNCHANGED <<program, deferred>>
  /\ UNCHANGED <<clock, netVars, conn, peerVars, gate>>

Resize ==
  /\ phase = "resize"
  /\ phase' \in {"relay", "return"}
  /\ UNCHANGED <<clock, netVars, conn, peerVars, gateVars, deferred>>

(* Mutant: the relay closes the connection to free its pumps. *)
RelayEndsClosing ==
  /\ phase = "relay"
  /\ phase' = "return"
  /\ link' = [link EXCEPT ![conn] = "closed"]
  /\ UNCHANGED <<listener, clock, backlog, accepted, conn, peerVars, gateVars,
                 deferred>>

(* The select after the relay has started; see Relay. *)
RelayEnds ==
  /\ phase = "relay"
  /\ phase' = "return"
  /\ UNCHANGED <<clock, netVars, conn, peerVars, gateVars, deferred>>

(* run() has returned: its deferred calls, the last one first. *)
Calls(call) ==
  /\ phase = "return"
  /\ deferred # <<>> /\ Head(deferred) = call
  /\ deferred' = Tail(deferred)

ClosePTY ==
  /\ Calls("pty.Close")
  /\ program' = IF program = "running" THEN "over" ELSE program
  /\ UNCHANGED <<phase, clock, netVars, conn, peerVars, gate>>

CloseConn ==
  /\ Calls("conn.Close")
  /\ link' = [link EXCEPT ![conn] = "closed"]
  /\ UNCHANGED <<phase, listener, clock, backlog, accepted, conn, peerVars,
                 gateVars>>

(* The kernel resets what waits for Accept, and a pending Accept fails. *)
CloseListener ==
  /\ Calls("ln.Close")
  /\ listener' = "closed"
  /\ link' = [p \in Peers |-> IF link[p] = "queued" THEN "closed" ELSE link[p]]
  /\ backlog' = <<>>
  /\ UNCHANGED <<phase, clock, accepted, conn, peerVars, gateVars>>

(* The kernel closes the sockets that are left; the program is no socket. *)
Exit ==
  /\ phase = "return" /\ deferred = <<>>
  /\ phase' = "gone"
  /\ listener' = "closed"
  /\ link' = [p \in Peers |-> IF link[p] = "none" THEN "none" ELSE "closed"]
  /\ backlog' = <<>>
  /\ UNCHANGED <<clock, accepted, conn, peerVars, gateVars, deferred>>

-----------------------------------------------------------------------------
(* The peers and the clock. *)

Connect(p) ==
  /\ listener = "open" /\ link[p] = "none"
  /\ link' = [link EXCEPT ![p] = "queued"]
  /\ backlog' = Append(backlog, p)
  /\ UNCHANGED <<phase, listener, clock, accepted, conn, peerVars, gateVars,
                 deferred>>

SendFirst(p) ==
  /\ link[p] \in {"queued", "accepted"} /\ p \notin hungUp
  /\ frame[p] = "none"
  /\ \E f \in {"token", "other"} : frame' = [frame EXCEPT ![p] = f]
  /\ UNCHANGED <<phase, clock, netVars, conn, hungUp, gateVars, deferred>>

HangUp(p) ==
  /\ link[p] \in {"queued", "accepted"} /\ p \notin hungUp
  /\ hungUp' = hungUp \cup {p}
  /\ UNCHANGED <<phase, clock, netVars, conn, frame, gateVars, deferred>>

(* On its own account, or killed by a pty.Close that has not yet returned. *)
ProgramEnds ==
  /\ program = "running"
  /\ program' = "over"
  /\ UNCHANGED <<phase, clock, netVars, conn, peerVars, gate, deferred>>

(* Only the window of acceptOne is timed; a second does not pass while the
   process can run. *)
Tick ==
  /\ phase = "accept" /\ clock < AcceptWindow
  /\ accepted = Nobody /\ backlog = <<>>
  /\ clock' = clock + 1
  /\ UNCHANGED <<phase, netVars, conn, peerVars, gateVars, deferred>>

Finished == phase \in {"gone", "expect"} /\ UNCHANGED vars

Accepting == AcceptReturns \/ TakeConnection \/ RefusePeer \/ WindowCloses

Next ==
  \/ \E i \in 1..Len(Preparation) : Prepare(i) \/ PreparationFails(i)
  \/ ExpectMode
  \/ Accepting \/ AcceptFails
  \/ Authenticate
  \/ GateReturns
  \/ StartPTY
  \/ Resize
  \/ RelayEnds
  \/ ClosePTY \/ CloseConn \/ CloseListener \/ Exit
  \/ \E p \in Peers : Connect(p) \/ SendFirst(p) \/ HangUp(p)
  \/ ProgramEnds
  \/ Tick
  \/ Finished

Spec == Init /\ [][Next]_vars

(* acceptOne runs, and time passes while it waits.  How the rest ends is the
   matter of Console. *)
FairSpec == Spec /\ WF_vars(Accepting) /\ WF_vars(Tick)

-----------------------------------------------------------------------------

Phases == {Preparation[i] : i \in 1..Len(Preparation)} \cup
          {"expect", "accept", "authenticate", "gate", "start", "resize",
           "relay", "return", "gone"}

TypeOK ==
  /\ phase \in Phases
  /\ listener \in {"closed", "open"}
  /\ clock \in 0..AcceptWindow
  /\ link \in [Peers -> {"none", "queued", "accepted", "closed"}]
  /\ backlog \in Seq(Peers) /\ Len(backlog) <= Cardinality(Peers)
  /\ accepted \in Peers \cup {Nobody}
  /\ conn \in {Nobody, Frontend}
  /\ frame \in [Peers -> {"none", "token", "other"}]
  /\ hungUp \in SUBSET Peers
  /\ gate \in BOOLEAN
  /\ program \in {"none", "running", "over"}
  /\ deferred \in {<<>>, <<"ln.Close">>, <<"conn.Close", "ln.Close">>,
                   <<"pty.Close", "conn.Close", "ln.Close">>}

(* The program is started for no one but the frontend, with the session token
   as its first frame and the gate behind it, in whatever order the peers
   connect, send and hang up (main.go:132-165, 197-244). *)
ProgramNeedsAllGates ==
  program # "none" =>
    /\ conn = Frontend /\ accepted = Frontend
    /\ frame[Frontend] = "token"
    /\ gate

(* Whichever call fails, run() closes on its way out whatever it had opened
   by then.  All it leaves to the kernel is a connection that Accept returned
   behind the end of the window, and it never leaves a program (main.go:8-13,
   125, 136, 165, 197-226). *)
NothingLeftOpen ==
  /\ phase = "gone" => program # "running"
  /\ phase = "return" /\ deferred = <<>> =>
       /\ listener = "closed" /\ program # "running"
       /\ \A p \in Peers :
            link[p] \in {"queued", "accepted"} =>
              p = accepted /\ conn = Nobody /\ clock >= AcceptWindow

(* The frontend whose connection the process has closed may take it that its
   program is gone: nothing but the deferred conn.Close closes it, and that
   comes after pty.Close, whichever way the session ends (main.go:136, 165,
   184-191). *)
ProgramEndsFirst ==
  conn # Nobody /\ link[conn] = "closed" => program # "running"

(* The wait for the frontend ends, whoever connects or does not
   (main.go:29, 208-225). *)
WindowIsBounded == phase = "accept" ~> phase # "accept"

=============================================================================
