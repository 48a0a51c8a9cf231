---------------------------- MODULE Console_proofs ----------------------------
(***************************************************************************)
(* The process with its real gate and its real relay does to the outside   *)
(* what Session says, for any number of hosts and siblings and for timers  *)
(* of any length.                                                          *)
(***************************************************************************)
EXTENDS Console, FiniteSets, TLAPS

-----------------------------------------------------------------------------
(* The inductive invariant: where run() stands in its gate and its relay.    *)

Before == {Process!Preparation[i] : i \in 1..Len(Process!Preparation)}
            \cup {"accept", "authenticate", "gate", "start", "expect"}

(* The gate returns only together with the step that leads on from it. *)
GateFollows ==
  /\ pc \in [Sessions -> Gate!Running \cup Gate!Final \cup {"spawned"}]
  /\ phase \in Before \ {"start"} => pc[me] \notin Gate!Final

(* There is no program before startPTY and no relay before its end, and what
   the deferred pty.Close has killed stays dead. *)
RelayFollows ==
  /\ main = "selecting" => cause = "none"
  /\ phase \in Before => target = "running"
  /\ phase \in Before \cup {"resize", "relay"} => main = "selecting"
  /\ ~Started => target = "running"
  /\ main \in {"closed", "gone"} => target # "running"

ConsoleInv == GateFollows /\ RelayFollows

(* A step of a gate moves its own session only. *)
LEMMA GateMoves ==
  ASSUME GateFollows, NEW s \in Sessions, Gate!Compute(s) \/ Gate!Conversation(s)
  PROVE  /\ pc' \in [Sessions -> Gate!Running \cup Gate!Final \cup {"spawned"}]
         /\ \A t \in Sessions \ {s} : pc'[t] = pc[t]
BY DEF GateFollows, Gate!Running, Gate!Final, Gate!Compute, Gate!Conversation,
       Gate!Start, Gate!ReadForCheck, Gate!FindLocked, Gate!FindUnlocked,
       Gate!Cleanup, Gate!Accept, Gate!RejectOrAbort, Gate!Reset, Gate!Reply,
       Gate!ReadForRecord, Gate!CountFailure, Gate!OpenTruncate, Gate!Write,
       Gate!NextAttempt, Gate!Goto

(* What the steps of run() before and after its gate leave to Session. *)
RunStep ==
  \/ Preparing \/ Refusing \/ Accepting \/ Authenticating
  \/ CloseListener \/ Exit \/ Connecting \/ WindowTick

LEMMA RunsAsSession ==
  ASSUME RunStep
  PROVE  Process!Next /\ UNCHANGED <<gateVars, relayVars>>
BY DEF RunStep, Preparing, Refusing, Accepting, Authenticating, CloseListener,
       Exit, Connecting, WindowTick, Process!Next

(* Where such a step leads. *)
LEMMA RunAdvances ==
  ASSUME ConsoleInv, RunStep
  PROVE  /\ phase \in Before => phase' \in Before \cup {"return"}
         /\ phase \notin Before => phase' = phase \/ (phase = "return" /\ phase' = "gone")
         /\ phase = "start" => phase' = "start"
<1> USE DEF Before, Process!Preparation
<1>1. CASE Preparing
  BY <1>1 DEF Preparing, Process!Prepare
<1>2. CASE Refusing
  BY <1>2 DEF Refusing, Process!PreparationFails, Process!ExpectMode,
              Process!AcceptFails
<1>3. CASE Accepting
  BY <1>3 DEF Accepting, Process!Accepting, Process!AcceptReturns,
              Process!TakeConnection, Process!RefusePeer, Process!WindowCloses
<1>4. CASE Authenticating
  BY <1>4 DEF Authenticating, Process!Authenticate
<1>5. CASE Connecting \/ WindowTick
  BY <1>5 DEF Connecting, Process!Connect, Process!SendFirst, WindowTick, Process!Tick
<1>6. CASE CloseListener \/ Exit
  BY <1>6 DEF CloseListener, Process!CloseListener, Process!Calls, Exit, Process!Exit
<1> QED BY <1>1, <1>2, <1>3, <1>4, <1>5, <1>6 DEF RunStep

-----------------------------------------------------------------------------

LEMMA ConsoleInitially == Init => ConsoleInv
BY ConsoleAssumption
   DEF Init, ConsoleInv, GateFollows, RelayFollows, Before, Started,
       Process!Preparation, Gate!Init, Gate!Running, Gate!Final, Relay!Init

LEMMA StepKeepsInvariant == ConsoleInv /\ [Next]_vars => ConsoleInv'
<1> SUFFICES ASSUME ConsoleInv, [Next]_vars PROVE ConsoleInv'
  OBVIOUS
<1> USE ConsoleAssumption
<1>1. CASE RunStep
  <2>1. UNCHANGED <<gateVars, relayVars>>
    BY <1>1, RunsAsSession
  <2>2. {"return", "gone", "resize", "relay"} \cap Before = {}
    BY DEF Before, Process!Preparation
  <2>3. Started' <=> Started
    BY <1>1, <2>1, <2>2, RunAdvances DEF Started, relayVars, Before
  <2> QED
    BY <1>1, <2>1, <2>2, <2>3, RunAdvances
       DEF ConsoleInv, GateFollows, RelayFollows, gateVars, relayVars
<1>2. CASE GateComputes \/ GateConverses
  <2>1. /\ phase = "gate" /\ UNCHANGED relayVars
        /\ Gate!Compute(me) \/ Gate!Conversation(me)
        /\ phase' = AfterGate(pc'[me])
    BY <1>2 DEF GateComputes, GateConverses, AtGate
  <2>2. pc' \in [Sessions -> Gate!Running \cup Gate!Final \cup {"spawned"}]
    BY <2>1, GateMoves DEF ConsoleInv
  <2>3. \/ phase' \in {"start", "return"}
        \/ phase' = "gate" /\ pc'[me] \notin Gate!Final
    BY <2>1 DEF AfterGate, Gate!Final
  <2>4. GateFollows'
    BY <2>2, <2>3 DEF GateFollows, Before, Process!Preparation
  <2>5. RelayFollows'
    BY <2>1, <2>3 DEF ConsoleInv, RelayFollows, Started, Before, relayVars
  <2> QED BY <2>4, <2>5 DEF ConsoleInv
<1>3. CASE StartPTY \/ Resize
  BY <1>3 DEF StartPTY, Resize, netVars, ConsoleInv, GateFollows, RelayFollows, Started,
              Before, Process!Preparation, gateVars, relayVars
<1>4. CASE Relays(Relay!Pump) \/ Relays(Relay!Watch) \/ Relays(Relay!FrontendSends)
  <2>1. UNCHANGED <<phase, pc, main, cause, target>>
    BY <1>4 DEF Relays, runVars, gateVars, Relay!Pump, Relay!ReadOutput,
         Relay!SendOutput, Relay!OutputEnds, Relay!ReadInput, Relay!WriteInput,
         Relay!InputEnds, Relay!Watch, Relay!Refresh, Relay!IdleExpires,
         Relay!FrontendSends, Relay!programVars, Relay!mainVars
  <2> QED BY <2>1 DEF ConsoleInv, GateFollows, RelayFollows, Started
<1>5. CASE Relays(Relay!Reap)
  BY <1>5 DEF Relays, Relaying, runVars, gateVars, Relay!Reap, Relay!Alive,
       Relay!mainVars, ConsoleInv, GateFollows, RelayFollows, Started, Before
<1>6. CASE RelayEnds \/ ClosePTY \/ CloseConn
  BY <1>6 DEF RelayEnds, Relay!Select, ClosePTY, Relay!ClosePTY, CloseConn,
       Relay!Exit, Process!CloseConn, Process!Calls, gateVars, relayVars,
       Relay!programVars, ConsoleInv, GateFollows, RelayFollows, Started,
       Before, Process!Preparation
<1>7. CASE (\E p \in Hosts : HangUp(p)) \/ HangUpFully
  <2>1. UNCHANGED <<phase, pc, main, cause, target>>
    BY <1>7 DEF HangUp, HangUpFully, Process!HangUp, Gate!HangUp,
         Relay!FrontendCloses, Relay!programVars, Relay!mainVars, runVars,
         gateVars, relayVars
  <2> QED BY <2>1 DEF ConsoleInv, GateFollows, RelayFollows, Started
<1>8. CASE ProgramActs
  BY <1>8 DEF ProgramActs, Relay!Produce, Relay!ProgramExits, Relay!CloseTerminal,
       Relay!mainVars, runVars, gateVars, ConsoleInv, GateFollows, RelayFollows,
       Started, Before, Process!Preparation
<1>9. CASE \E s \in Sessions : Sibling(s)
  <2>1. PICK s \in Sessions : Sibling(s)
    BY <1>9
  <2>2. /\ UNCHANGED <<runVars, relayVars>> /\ s # me
        /\ Gate!Compute(s) \/ Gate!Conversation(s)
    BY <2>1 DEF Sibling
  <2>3. /\ pc' \in [Sessions -> Gate!Running \cup Gate!Final \cup {"spawned"}]
        /\ pc'[me] = pc[me]
    BY <2>2, GateMoves DEF ConsoleInv
  <2> QED
    BY <2>2, <2>3 DEF ConsoleInv, GateFollows, RelayFollows, Started, runVars, relayVars
<1>10. CASE RelayTick \/ Finished \/ UNCHANGED vars
  <2>1. UNCHANGED <<phase, pc, main, cause, target>>
    BY <1>10 DEF RelayTick, Finished, vars, Relay!Tick, Relay!programVars,
         Relay!mainVars, runVars, gateVars, relayVars
  <2> QED BY <2>1 DEF ConsoleInv, GateFollows, RelayFollows, Started
<1> QED
  BY <1>1, <1>2, <1>3, <1>4, <1>5, <1>6, <1>7, <1>8, <1>9, <1>10 DEF Next, RunStep

-----------------------------------------------------------------------------
(* Every step of the process is a step of Session, or none.                  *)

LEMMA StepImplementsSession ==
  ConsoleInv /\ ConsoleInv' /\ [Next]_vars => [Process!Next]_(Process!vars)
<1> SUFFICES ASSUME ConsoleInv, ConsoleInv', [Next]_vars
             PROVE  [Process!Next]_(Process!vars)
  OBVIOUS
<1> USE ConsoleAssumption
<1>1. CASE RunStep
  BY <1>1, RunsAsSession
<1>2. CASE GateComputes \/ GateConverses
  <2>1. /\ phase = "gate" /\ UNCHANGED relayVars
        /\ UNCHANGED <<deferred, listener, clock, link, backlog, accepted, conn, frame, hungUp>>
        /\ phase' = AfterGate(pc'[me])
    BY <1>2 DEF GateComputes, GateConverses, AtGate, netVars
  <2>2. pc[me] # "passed" /\ ~Started /\ ~Started'
    BY <2>1 DEF ConsoleInv, GateFollows, RelayFollows, Before, Gate!Final,
                Started, relayVars, AfterGate
  <2>3. CASE phase' = "gate"
    <3>1. pc'[me] # "passed"
      BY <2>3 DEF ConsoleInv, GateFollows, Gate!Final, Before
    <3> QED BY <2>1, <2>2, <2>3, <3>1 DEF Process!vars
  <2>4. CASE phase' \in {"start", "return"}
    <3>1. phase' = "start" <=> pc'[me] = "passed"
      BY <2>1, <2>4 DEF AfterGate, Gate!Final
    <3>2. Process!GateReturns
      BY <2>1, <2>2, <2>4, <3>1 DEF Process!GateReturns, Process!netVars, Process!peerVars
    <3> QED BY <3>2 DEF Process!Next
  <2> QED BY <2>1, <2>3, <2>4 DEF AfterGate, Gate!Final
<1>3. CASE StartPTY
  <2>1. Process!StartPTY
    BY <1>3 DEF StartPTY, Process!StartPTY, netVars, Process!netVars, Process!peerVars,
         ConsoleInv, RelayFollows, Before, Started, gateVars, relayVars
  <2> QED BY <2>1 DEF Process!Next
<1>4. CASE Resize
  <2>1. Process!Resize
    BY <1>4 DEF Resize, Process!Resize, netVars, Process!netVars, Process!peerVars,
         Process!gateVars, Started, gateVars
  <2> QED BY <2>1 DEF Process!Next
<1>5. CASE RelayEnds
  <2>1. Process!RelayEnds
    BY <1>5 DEF RelayEnds, Relay!Select, Relay!programVars, Process!RelayEnds, netVars,
         Process!netVars, Process!peerVars, Process!gateVars, Started, gateVars
  <2> QED BY <2>1 DEF Process!Next
<1>6. CASE CloseConn
  BY <1>6 DEF CloseConn, Process!Next
<1>7. CASE \E p \in Hosts : HangUp(p)
  BY <1>7 DEF HangUp, Process!Next
<1>8. CASE ClosePTY
  <2>1. /\ Started /\ Started' /\ UNCHANGED <<phase, netVars, pc>>
        /\ target' = IF target = "running" THEN "exited" ELSE target
        /\ Process!Calls("pty.Close")
    BY <1>8 DEF ClosePTY, Relay!ClosePTY, Started, gateVars
  <2>2. Process!ClosePTY
    BY <2>1 DEF Process!ClosePTY, Process!netVars, Process!peerVars, netVars
  <2> QED BY <2>2 DEF Process!Next
<1>12. CASE ProgramActs
  <2>1. /\ Started /\ Started' /\ UNCHANGED <<runVars, pc>>
        /\ target' = target \/ (target = "running" /\ target' = "exited")
    BY <1>12 DEF ProgramActs, Relay!Produce, Relay!ProgramExits,
         Relay!CloseTerminal, Relay!mainVars, Started, runVars, gateVars
  <2>2. Process!ProgramEnds \/ UNCHANGED Process!vars
    BY <2>1 DEF Process!ProgramEnds, Process!netVars, Process!peerVars,
                Process!vars, runVars, netVars
  <2> QED BY <2>2 DEF Process!Next
<1>9. CASE \/ Relays(Relay!Pump) \/ Relays(Relay!Watch) \/ Relays(Relay!FrontendSends)
           \/ HangUpFully \/ RelayTick \/ Finished \/ UNCHANGED vars
  <2>1. UNCHANGED <<runVars, pc, main, target>>
    BY <1>9 DEF Relays, runVars, gateVars, Relay!Pump, Relay!ReadOutput,
         Relay!SendOutput, Relay!OutputEnds, Relay!ReadInput, Relay!WriteInput,
         Relay!InputEnds, Relay!Watch, Relay!Refresh, Relay!IdleExpires,
         Relay!FrontendSends, Relay!programVars, Relay!mainVars, HangUpFully,
         Relay!FrontendCloses, RelayTick, Relay!Tick, Finished, vars, relayVars
  <2> QED BY <2>1 DEF Process!vars, runVars, netVars, Started
<1>10. CASE Relays(Relay!Reap)
  <2>1. UNCHANGED <<runVars, pc, main>> /\ target # "running" /\ target' # "running"
    BY <1>10 DEF Relays, runVars, gateVars, Relay!Reap, Relay!mainVars
  <2> QED BY <2>1 DEF Process!vars, runVars, netVars, Started
<1>11. CASE \E s \in Sessions : Sibling(s)
  <2>1. PICK s \in Sessions : Sibling(s)
    BY <1>11
  <2>2. UNCHANGED <<runVars, relayVars>> /\ pc'[me] = pc[me]
    BY <2>1, GateMoves DEF Sibling, ConsoleInv
  <2> QED BY <2>2 DEF Process!vars, runVars, netVars, relayVars, Started
<1> QED
  BY <1>1, <1>2, <1>3, <1>4, <1>5, <1>6, <1>7, <1>8, <1>9, <1>10, <1>11, <1>12
     DEF Next, RunStep

(* The gate and the relay, put in their places, do to the process what Session
   says they do and no more (main.go:132-191). *)
THEOREM ConsoleImplements == Spec => ImplementsSession
<1>1. Init => Process!Init
  BY ConsoleAssumption
     DEF Init, Process!Init, Gate!Init, Relay!Init, Started, Process!Preparation
<1> QED
  BY <1>1, ConsoleInitially, StepKeepsInvariant, StepImplementsSession, PTL
     DEF Spec, ImplementsSession, Process!Spec

-----------------------------------------------------------------------------
(* What Session promises, the process with its real gate keeps.              *)

SessionProofs == INSTANCE Session_proofs WITH
                   Peers <- Hosts,
                   gate <- pc[me] = "passed",
                   program <- IF ~Started THEN "none"
                              ELSE IF target = "running" THEN "running" ELSE "over"

LEMMA BehavesAsSession == Spec => SessionProofs!Spec
<1>1. Process!Init => SessionProofs!Init
  BY DEF Process!Init, SessionProofs!Init, Process!Preparation, SessionProofs!Preparation
<1>2. [Process!Next]_(Process!vars) => [SessionProofs!Next]_(SessionProofs!vars)
  BY Zenon
     DEF Process!Next, SessionProofs!Next, Process!vars,
         SessionProofs!vars, Process!Preparation,
         SessionProofs!Preparation, Process!Prepare,
         SessionProofs!Prepare, Process!PreparationFails,
         SessionProofs!PreparationFails, Process!ExpectMode,
         SessionProofs!ExpectMode, Process!Accepting,
         SessionProofs!Accepting, Process!AcceptReturns,
         SessionProofs!AcceptReturns, Process!TakeConnection,
         SessionProofs!TakeConnection, Process!RefusePeer,
         SessionProofs!RefusePeer, Process!WindowCloses,
         SessionProofs!WindowCloses, Process!Authenticate,
         SessionProofs!Authenticate, Process!GateReturns,
         SessionProofs!GateReturns, Process!StartPTY,
         SessionProofs!StartPTY, Process!Resize, SessionProofs!Resize,
         Process!RelayEnds, SessionProofs!RelayEnds, Process!Exit,
         SessionProofs!Exit, Process!AcceptFails, SessionProofs!AcceptFails,
         Process!Defer, SessionProofs!Defer, Process!Calls, SessionProofs!Calls,
         Process!ClosePTY, SessionProofs!ClosePTY, Process!CloseConn,
         SessionProofs!CloseConn, Process!CloseListener,
         SessionProofs!CloseListener, Process!Connect, SessionProofs!Connect,
         Process!SendFirst, SessionProofs!SendFirst, Process!HangUp,
         SessionProofs!HangUp, Process!ProgramEnds,
         SessionProofs!ProgramEnds, Process!Tick, SessionProofs!Tick,
         Process!Finished, SessionProofs!Finished, Process!peerVars,
         SessionProofs!peerVars, Process!netVars, SessionProofs!netVars,
         Process!gateVars, SessionProofs!gateVars
<1> QED BY <1>1, <1>2, ConsoleImplements, PTL
     DEF ImplementsSession, Process!Spec, SessionProofs!Spec

(* A program runs only for the frontend's address, behind a valid token and a gate
   that has returned nil, whatever the siblings, the relay and the other hosts do
   (main.go:132-171). *)
THEOREM ConsoleIsGuarded ==
  ASSUME IsFiniteSet(Hosts), Frontend \in Hosts, Nobody \notin Hosts,
         AcceptWindow \in Nat \ {0}
  PROVE  Spec => []Process!ProgramNeedsAllGates
<1>1. SessionProofs!SessionAssumption
  BY DEF SessionProofs!IsFiniteSet, IsFiniteSet
<1>2. SessionProofs!Spec => []SessionProofs!ProgramNeedsAllGates
  BY <1>1, SessionProofs!ProgramIsGuarded
<1>3. SessionProofs!ProgramNeedsAllGates => Process!ProgramNeedsAllGates
  BY DEF Process!ProgramNeedsAllGates, SessionProofs!ProgramNeedsAllGates
<1> QED BY <1>2, <1>3, BehavesAsSession, PTL

(* Wherever gate, resize or relay ends, the deferred calls close port,
   connection and program before the process exits, a late connection excepted
   (main.go:125-191). *)
THEOREM ConsoleClosesAll ==
  ASSUME IsFiniteSet(Hosts), Frontend \in Hosts, Nobody \notin Hosts,
         AcceptWindow \in Nat \ {0}
  PROVE  Spec => []Process!NothingLeftOpen
<1>1. SessionProofs!SessionAssumption
  BY DEF SessionProofs!IsFiniteSet, IsFiniteSet
<1>2. SessionProofs!Spec => []SessionProofs!NothingLeftOpen
  BY <1>1, SessionProofs!DefersCloseAll
<1>3. SessionProofs!NothingLeftOpen => Process!NothingLeftOpen
  BY DEF Process!NothingLeftOpen, SessionProofs!NothingLeftOpen
<1> QED BY <1>2, <1>3, BehavesAsSession, PTL

(* Gate, resize and relay leave the frontend's connection open: it is closed
   behind the program, when run() returns (main.go:136-191). *)
THEOREM ConsoleEndsProgramFirst ==
  ASSUME IsFiniteSet(Hosts), Frontend \in Hosts, Nobody \notin Hosts,
         AcceptWindow \in Nat \ {0}
  PROVE  Spec => []Process!ProgramEndsFirst
<1>1. SessionProofs!SessionAssumption
  BY DEF SessionProofs!IsFiniteSet, IsFiniteSet
<1>2. SessionProofs!Spec => []SessionProofs!ProgramEndsFirst
  BY <1>1, SessionProofs!ProgramGoneFirst
<1>3. SessionProofs!ProgramEndsFirst => Process!ProgramEndsFirst
  BY DEF Process!ProgramEndsFirst, SessionProofs!ProgramEndsFirst
<1> QED BY <1>2, <1>3, BehavesAsSession, PTL

===============================================================================
