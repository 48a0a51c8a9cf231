---------------------------- MODULE Session_proofs ----------------------------
(***************************************************************************)
(* The safety properties of Session, proved for any number of hosts that   *)
(* reach the port and any length of the accept window.                     *)
(***************************************************************************)
EXTENDS Session, SequenceTheorems, FiniteSetTheorems, TLAPS

USE SessionAssumption

-----------------------------------------------------------------------------
(* The deferred calls: which are registered in which phase.  run() registers *)
(* one behind each call that opens something, and they are called in turn.   *)

Stacks == {<<>>, <<"ln.Close">>, <<"conn.Close", "ln.Close">>,
           <<"pty.Close", "conn.Close", "ln.Close">>}

LEMMA Pushed ==
  \A a, b, c : /\ <<a>> \o <<b>> = <<a, b>>
              /\ <<a>> \o <<b, c>> = <<a, b, c>>
<1> TAKE a, b, c
<1> DEFINE S == {a, b, c}
<1>0. a \in S /\ b \in S /\ c \in S
  OBVIOUS
<1> HIDE DEF S
<1>1. /\ <<a>> \in Seq(S) /\ <<b>> \in Seq(S) /\ <<a, b>> \in Seq(S)
      /\ Len(<<a>>) = 1 /\ Len(<<b>>) = 1 /\ Len(<<a, b>>) = 2
  BY <1>0
<1>2. /\ <<b, c>> \in Seq(S) /\ <<a, b, c>> \in Seq(S)
      /\ Len(<<b, c>>) = 2 /\ Len(<<a, b, c>>) = 3
  BY <1>0
<1>3. /\ <<a>> \o <<b>> \in Seq(S) /\ Len(<<a>> \o <<b>>) = 2
      /\ \A i \in 1..2 : (<<a>> \o <<b>>)[i] = IF i <= 1 THEN <<a>>[i] ELSE <<b>>[i - 1]
  BY <1>1, ConcatProperties
<1>4. /\ <<a>> \o <<b, c>> \in Seq(S) /\ Len(<<a>> \o <<b, c>>) = 3
      /\ \A i \in 1..3 : (<<a>> \o <<b, c>>)[i] =
                          IF i <= 1 THEN <<a>>[i] ELSE <<b, c>>[i - 1]
  BY <1>1, <1>2, ConcatProperties
<1>5. \A i \in 1..2 : (<<a>> \o <<b>>)[i] = <<a, b>>[i]
  BY <1>3
<1>6. \A i \in 1..3 : (<<a>> \o <<b, c>>)[i] = <<a, b, c>>[i]
  BY <1>4
<1>7. <<a>> \o <<b>> = <<a, b>>
  BY <1>1, <1>3, <1>5, SeqEqual
<1>8. <<a>> \o <<b, c>> = <<a, b, c>>
  BY <1>2, <1>4, <1>6, SeqEqual
<1> QED BY <1>7, <1>8

LEMMA StackSteps ==
  /\ <<"ln.Close">> \o <<>> = <<"ln.Close">>
  /\ <<"conn.Close">> \o <<"ln.Close">> = <<"conn.Close", "ln.Close">>
  /\ <<"pty.Close">> \o <<"conn.Close", "ln.Close">>
       = <<"pty.Close", "conn.Close", "ln.Close">>
  /\ Tail(<<"ln.Close">>) = <<>>
  /\ Tail(<<"conn.Close", "ln.Close">>) = <<"ln.Close">>
  /\ Tail(<<"pty.Close", "conn.Close", "ln.Close">>) = <<"conn.Close", "ln.Close">>
  /\ Head(<<"ln.Close">>) = "ln.Close"
  /\ Head(<<"conn.Close", "ln.Close">>) = "conn.Close"
  /\ Head(<<"pty.Close", "conn.Close", "ln.Close">>) = "pty.Close"
<1>1. <<"ln.Close">> \o <<>> = <<"ln.Close">>
  OBVIOUS
<1>2. <<"conn.Close">> \o <<"ln.Close">> = <<"conn.Close", "ln.Close">>
  BY Pushed, Zenon
<1>3. <<"pty.Close">> \o <<"conn.Close", "ln.Close">>
        = <<"pty.Close", "conn.Close", "ln.Close">>
  BY Pushed, Zenon
<1>4. Tail(<<"ln.Close">>) = <<>>
  OBVIOUS
<1>5. Tail(<<"conn.Close", "ln.Close">>) = <<"ln.Close">>
  OBVIOUS
<1>6. Tail(<<"pty.Close", "conn.Close", "ln.Close">>) = <<"conn.Close", "ln.Close">>
  OBVIOUS
<1>7. /\ Head(<<"ln.Close">>) = "ln.Close"
      /\ Head(<<"conn.Close", "ln.Close">>) = "conn.Close"
      /\ Head(<<"pty.Close", "conn.Close", "ln.Close">>) = "pty.Close"
  OBVIOUS
<1> QED BY <1>1, <1>2, <1>3, <1>4, <1>5, <1>6, <1>7

LEMMA StacksDiffer ==
  /\ <<"ln.Close">> # <<>> /\ <<"conn.Close", "ln.Close">> # <<>>
  /\ <<"pty.Close", "conn.Close", "ln.Close">> # <<>>
  /\ <<"conn.Close", "ln.Close">> # <<"ln.Close">>
  /\ <<"pty.Close", "conn.Close", "ln.Close">> # <<"ln.Close">>
  /\ <<"pty.Close", "conn.Close", "ln.Close">> # <<"conn.Close", "ln.Close">>
OBVIOUS

LEMMA AllPhases ==
  Phases = {"root", "config", "keys", "listen", "report", "expect", "accept",
            "authenticate", "gate", "start", "resize", "relay", "return",
            "gone"}
BY DEF Phases, Preparation

LEMMA Prepared ==
  ASSUME NEW i \in 1..Len(Preparation)
  PROVE  /\ Preparation[i] \in {"root", "config", "keys", "listen", "report"}
         /\ i < Len(Preparation) =>
              Preparation[i + 1] \in {"config", "keys", "listen", "report"}
BY DEF Preparation

(* Where a step of the preparation leads. *)
LEMMA PreparedNext ==
  ASSUME NEW i \in 1..Len(Preparation), Prepare(i)
  PROVE  \/ phase \in {"root", "config", "keys"} /\ phase' \in {"config", "keys", "listen"}
         \/ phase = "listen" /\ phase' = "report"
         \/ phase = "report" /\ phase' = "accept"
<1>1. i \in 1..5 /\ Len(Preparation) = 5
  BY DEF Preparation
<1> QED BY <1>1 DEF Prepare, Preparation

Unlistened == {"root", "config", "keys", "listen", "expect", "gone"}
Awaiting == {"report", "accept"}
Unstarted == {"authenticate", "gate", "start"}
Started == {"resize", "relay"}

DefersFollow ==
  /\ phase \in Unlistened => deferred = <<>>
  /\ phase \in Awaiting => deferred = <<"ln.Close">>
  /\ phase \in Unstarted => deferred = <<"conn.Close", "ln.Close">>
  /\ phase \in Started => deferred = <<"pty.Close", "conn.Close", "ln.Close">>
  /\ deferred \in Stacks

(* What a deferred call leaves to be called. *)
LEMMA CallsInTurn ==
  ASSUME deferred \in Stacks, NEW call, Calls(call)
  PROVE  /\ call = "pty.Close" =>
              /\ deferred = <<"pty.Close", "conn.Close", "ln.Close">>
              /\ deferred' = <<"conn.Close", "ln.Close">>
         /\ call = "conn.Close" =>
              /\ deferred = <<"conn.Close", "ln.Close">>
              /\ deferred' = <<"ln.Close">>
         /\ call = "ln.Close" => deferred = <<"ln.Close">> /\ deferred' = <<>>
         /\ deferred' \in Stacks
BY StackSteps DEF Calls, Stacks

LEMMA DefersInvariant == Spec => []DefersFollow
<1>1. Init => DefersFollow
  BY DEF Init, DefersFollow, Preparation, Unlistened, Awaiting, Unstarted,
         Started, Stacks
<1>2. DefersFollow /\ [Next]_vars => DefersFollow'
  <2> SUFFICES ASSUME DefersFollow, [Next]_vars PROVE DefersFollow'
    OBVIOUS
  <2> USE DEF DefersFollow, Unlistened, Awaiting, Unstarted, Started
  <2>1. ASSUME NEW i \in 1..Len(Preparation), Prepare(i) PROVE DefersFollow'
    BY <2>1, PreparedNext, StackSteps DEF Prepare, Defer, Stacks
  <2>2. ASSUME NEW i \in 1..Len(Preparation), PreparationFails(i)
        PROVE  DefersFollow'
    BY <2>2 DEF PreparationFails
  <2>3. CASE ExpectMode \/ AcceptFails \/ RefusePeer \/ WindowCloses \/ RelayEnds
    BY <2>3 DEF ExpectMode, AcceptFails, RefusePeer, WindowCloses, RelayEnds
  <2>4. CASE TakeConnection
    BY <2>4, StackSteps DEF TakeConnection, Defer, Stacks
  <2>5. CASE Authenticate \/ GateReturns \/ Resize
    BY <2>5 DEF Authenticate, GateReturns, Resize
  <2>6. CASE StartPTY
    BY <2>6, StackSteps DEF StartPTY, Defer, Stacks
  <2>7. CASE ClosePTY \/ CloseConn \/ CloseListener
    <3>1. phase = "return" /\ phase' = "return" /\ deferred' \in Stacks
      BY <2>7, CallsInTurn, Zenon DEF ClosePTY, CloseConn, CloseListener, Calls
    <3> QED BY <3>1
  <2>8. CASE Exit
    BY <2>8 DEF Exit
  <2>9. CASE UNCHANGED <<phase, deferred>>
    BY <2>9
  <2>10. AcceptReturns \/ ProgramEnds \/ Tick \/ Finished \/ UNCHANGED vars
           => UNCHANGED <<phase, deferred>>
    BY DEF AcceptReturns, ProgramEnds, Tick, Finished, vars
  <2>11. ASSUME NEW p \in Peers, Connect(p) \/ SendFirst(p) \/ HangUp(p)
         PROVE  UNCHANGED <<phase, deferred>>
    BY <2>11 DEF Connect, SendFirst, HangUp
  <2> QED
    BY <2>1, <2>2, <2>3, <2>4, <2>5, <2>6, <2>7, <2>8, <2>9, <2>10, <2>11
       DEF Next, Accepting
<1> QED BY <1>1, <1>2, PTL DEF Spec

-----------------------------------------------------------------------------
(* The kernel's queue.  TypeOK bounds it by the number of peers, which holds *)
(* because each of them waits in it at most once.                            *)

QueuedOnce ==
  /\ \A i \in 1..Len(backlog) : link[backlog[i]] = "queued"
  /\ \A i, j \in 1..Len(backlog) : backlog[i] = backlog[j] => i = j
  /\ accepted # Nobody => link[accepted] \in {"accepted", "closed"}
  /\ conn # Nobody => conn = accepted

LEMMA ShortQueue ==
  ASSUME NEW q \in Seq(Peers),
         \A i, j \in 1..Len(q) : q[i] = q[j] => i = j
  PROVE  Len(q) <= Cardinality(Peers)
<1>1. q \in [1..Len(q) -> Peers] /\ Len(q) \in Nat
  BY LenProperties
<1>2. ASSUME NEW n \in Nat
      PROVE  IsFiniteSet(1..n) /\ Cardinality(1..n) = n
  <2>1. IsFiniteSet(1..n) /\ Cardinality(1..n) = IF 1 > n THEN 0 ELSE n - 1 + 1
    BY FS_Interval
  <2> QED BY <2>1
<1>3. Cardinality(Peers) \in Nat
  BY FS_CardinalityType
<1>4. ~ (Cardinality(Peers) < Len(q))
  BY <1>1, <1>2, FS_PigeonHole
<1> QED BY <1>1, <1>3, <1>4

(* Everything TypeOK says but that bound and the deferred calls. *)
Types ==
  /\ phase \in Phases
  /\ listener \in {"closed", "open"}
  /\ clock \in 0..AcceptWindow
  /\ link \in [Peers -> {"none", "queued", "accepted", "closed"}]
  /\ backlog \in Seq(Peers)
  /\ accepted \in Peers \cup {Nobody}
  /\ conn \in {Nobody, Frontend}
  /\ frame \in [Peers -> {"none", "token", "other"}]
  /\ hungUp \in SUBSET Peers
  /\ gate \in BOOLEAN
  /\ program \in {"none", "running", "over"}

LEMMA TypesAndQueue == Spec => [](Types /\ QueuedOnce)
<1>1. Init => Types /\ QueuedOnce
  <2> SUFFICES ASSUME Init PROVE Types /\ QueuedOnce
    OBVIOUS
  <2>1. Types
    <3>1. <<>> \in Seq(Peers) /\ Preparation[1] = "root"
      BY EmptySeq DEF Preparation
    <3>2. phase \in Phases
      BY <3>1, AllPhases DEF Init
    <3>3. /\ link \in [Peers -> {"none", "queued", "accepted", "closed"}]
          /\ frame \in [Peers -> {"none", "token", "other"}]
      BY DEF Init
    <3>4. clock \in 0..AcceptWindow /\ backlog \in Seq(Peers)
      BY <3>1 DEF Init
    <3>5. hungUp \in SUBSET Peers /\ gate \in BOOLEAN
      BY DEF Init
    <3> QED BY <3>2, <3>3, <3>4, <3>5 DEF Init, Types
  <2>2. QueuedOnce
    BY DEF Init, QueuedOnce
  <2> QED BY <2>1, <2>2
<1>2. Types /\ QueuedOnce /\ [Next]_vars => Types' /\ QueuedOnce'
  <2> SUFFICES ASSUME Types, QueuedOnce, [Next]_vars
               PROVE  Types' /\ QueuedOnce'
    OBVIOUS
  <2> USE AllPhases DEF Types, QueuedOnce, peerVars, netVars, gateVars
  <2>1. ASSUME NEW i \in 1..Len(Preparation), Prepare(i) \/ PreparationFails(i)
        PROVE  Types' /\ QueuedOnce'
    BY <2>1, Prepared DEF Prepare, PreparationFails
  <2>2. CASE ExpectMode \/ AcceptFails
    BY <2>2 DEF ExpectMode, AcceptFails
  <2>3. CASE AcceptReturns
    <3>1. /\ Head(backlog) \in Peers /\ Tail(backlog) \in Seq(Peers)
          /\ Len(Tail(backlog)) = Len(backlog) - 1 /\ Len(backlog) \in Nat \ {0}
          /\ \A i \in 1..Len(Tail(backlog)) : Tail(backlog)[i] = backlog[i + 1]
          /\ Head(backlog) = backlog[1]
      BY <2>3, HeadTailProperties, EmptySeq DEF AcceptReturns
    <3>2. Types'
      BY <2>3, <3>1 DEF AcceptReturns
    <3>3. \A i \in 1..Len(Tail(backlog)) :
             /\ Tail(backlog)[i] # Head(backlog)
             /\ Tail(backlog)[i] \in Peers
             /\ link[Tail(backlog)[i]] = "queued"
      BY <3>1, ElementOfSeq
    <3>4. QueuedOnce'
      BY <2>3, <3>1, <3>3 DEF AcceptReturns
    <3> QED BY <3>2, <3>4
  <2>4. CASE TakeConnection
    BY <2>4 DEF TakeConnection
  <2>5. CASE RefusePeer
    <3>1. Types'
      BY <2>5 DEF RefusePeer
    <3>2. \A i \in 1..Len(backlog) :
            backlog[i] # accepted /\ backlog[i] \in Peers
      BY <2>5, ElementOfSeq DEF RefusePeer
    <3>3. QueuedOnce'
      BY <2>5, <3>2 DEF RefusePeer
    <3> QED BY <3>1, <3>3
  <2>6. CASE WindowCloses
    BY <2>6 DEF WindowCloses
  <2>7. CASE Authenticate
    BY <2>7 DEF Authenticate
  <2>8. CASE GateReturns
    BY <2>8 DEF GateReturns
  <2>9. CASE StartPTY
    BY <2>9 DEF StartPTY
  <2>10. CASE Resize
    BY <2>10 DEF Resize
  <2>11. CASE RelayEnds
    BY <2>11 DEF RelayEnds
  <2>12. CASE ClosePTY
    BY <2>12 DEF ClosePTY
  <2>13. CASE CloseConn
    <3>1. Types'
      BY <2>13 DEF CloseConn
    <3>2. \A i \in 1..Len(backlog) : backlog[i] # conn /\ backlog[i] \in Peers
      BY <2>13, ElementOfSeq
    <3>3. QueuedOnce'
      BY <2>13, <3>2 DEF CloseConn
    <3> QED BY <3>1, <3>3
  <2>14. CASE CloseListener \/ Exit
    <3>1. /\ backlog' = <<>> /\ UNCHANGED <<accepted, conn>>
          /\ backlog' \in Seq(Peers)
          /\ phase' \in Phases /\ listener' \in {"closed", "open"}
      <4>1. /\ backlog' = <<>> /\ UNCHANGED <<accepted, conn>>
            /\ phase' = phase \/ phase' = "gone"
            /\ listener' = "closed"
        BY <2>14, Zenon DEF CloseListener, Exit, Calls
      <4>2. <<>> \in Seq(Peers)
        BY EmptySeq
      <4>3. phase' \in Phases
        BY <4>1
      <4> QED BY <4>1, <4>2, <4>3
    <3>4. link' \in [Peers -> {"none", "queued", "accepted", "closed"}]
      <4>1. link \in [Peers -> {"none", "queued", "accepted", "closed"}]
        OBVIOUS
      <4>2. CASE CloseListener
        <5>1. link' = [p \in Peers |-> IF link[p] = "queued" THEN "closed"
                                       ELSE link[p]]
          BY <4>2 DEF CloseListener
        <5> HIDE DEF Types, QueuedOnce
        <5> QED BY <4>1, <5>1
      <4>3. CASE Exit
        <5>1. link' = [p \in Peers |-> IF link[p] = "none" THEN "none" ELSE "closed"]
          BY <4>3 DEF Exit
        <5> HIDE DEF Types, QueuedOnce
        <5> QED BY <5>1
      <4> QED BY <2>14, <4>2, <4>3
    <3>5. UNCHANGED <<clock, frame, hungUp, gate, program>>
      BY <2>14 DEF CloseListener, Exit
    <3>6. Types'
      BY <3>1, <3>4, <3>5
    <3>2. accepted # Nobody => link'[accepted] \in {"accepted", "closed"}
      BY <2>14 DEF CloseListener, Exit
    <3>3. 1..Len(backlog') = {}
      BY <3>1
    <3> QED BY <3>1, <3>2, <3>3, <3>6
  <2>15. ASSUME NEW p \in Peers, Connect(p) PROVE Types' /\ QueuedOnce'
    <3>1. /\ backlog' \in Seq(Peers) /\ Len(backlog') = Len(backlog) + 1
          /\ \A i \in 1..Len(backlog) : backlog'[i] = backlog[i]
          /\ backlog'[Len(backlog) + 1] = p
          /\ Len(backlog) \in Nat
      BY <2>15, AppendProperties, LenProperties DEF Connect
    <3>2. Types'
      BY <2>15, <3>1 DEF Connect
    <3>3. \A i \in 1..Len(backlog) : backlog[i] # p /\ backlog[i] \in Peers
      BY <2>15, ElementOfSeq DEF Connect
    <3>4. 1..Len(backlog') = 1..Len(backlog) \cup {Len(backlog) + 1}
      BY <3>1
    <3>5. \A i \in 1..Len(backlog) : link'[backlog'[i]] = "queued"
      BY <2>15, <3>1, <3>3 DEF Connect
    <3>6. link'[p] = "queued" /\ accepted' # p /\ accepted' = accepted
      BY <2>15 DEF Connect
    <3>7. QueuedOnce'
      BY <2>15, <3>1, <3>3, <3>4, <3>5, <3>6 DEF Connect
    <3> QED BY <3>2, <3>7
  <2>16. ASSUME NEW p \in Peers, SendFirst(p) PROVE Types' /\ QueuedOnce'
    BY <2>16 DEF SendFirst
  <2>17. ASSUME NEW p \in Peers, HangUp(p) PROVE Types' /\ QueuedOnce'
    BY <2>17 DEF HangUp
  <2>18. CASE ProgramEnds
    BY <2>18 DEF ProgramEnds
  <2>19. CASE Tick
    BY <2>19 DEF Tick
  <2>20. CASE Finished \/ UNCHANGED vars
    BY <2>20 DEF Finished, vars
  <2> QED
    BY <2>1, <2>2, <2>3, <2>4, <2>5, <2>6, <2>7, <2>8, <2>9, <2>10, <2>11,
       <2>12, <2>13, <2>14, <2>15, <2>16, <2>17, <2>18, <2>19, <2>20
       DEF Next, Accepting
<1> QED BY <1>1, <1>2, PTL DEF Spec

(* The variables keep their types, and the kernel queues no more connections
   than there are peers (main.go:197-226). *)
THEOREM TypeCorrect == Spec => []TypeOK
<1>1. Types /\ QueuedOnce /\ DefersFollow => TypeOK
  BY ShortQueue DEF Types, QueuedOnce, TypeOK, DefersFollow, Stacks
<1> QED BY <1>1, TypesAndQueue, DefersInvariant, PTL

-----------------------------------------------------------------------------
(* What every phase has behind it: the checks of run() in their order.       *)

Served == {"authenticate", "gate", "start", "resize", "relay"}
Authenticated == {"gate", "start", "resize", "relay"}
PastGate == {"start", "resize", "relay"}

ChecksPassed ==
  /\ conn # Nobody => conn = Frontend /\ accepted = Frontend
  /\ phase \in Served => conn = Frontend
  /\ phase \in Authenticated => frame[Frontend] = "token"
  /\ phase \in PastGate => gate
  /\ ProgramNeedsAllGates

(* The program is started for no one but the frontend, behind its token and
   the gate, in whatever order any number of hosts connect, send and hang up
   (main.go:132-165, 197-244). *)
THEOREM ProgramIsGuarded == Spec => []ProgramNeedsAllGates
<1>1. Init => ChecksPassed
  BY DEF Init, ChecksPassed, ProgramNeedsAllGates, Served, Authenticated,
         PastGate, Preparation
<1>2. Types /\ ChecksPassed /\ [Next]_vars => ChecksPassed'
  <2> SUFFICES ASSUME Types, ChecksPassed, [Next]_vars PROVE ChecksPassed'
    OBVIOUS
  <2> USE DEF Types, ChecksPassed, ProgramNeedsAllGates, Served,
              Authenticated, PastGate, peerVars, netVars, gateVars
  <2>1. ASSUME NEW i \in 1..Len(Preparation), Prepare(i) \/ PreparationFails(i)
        PROVE  ChecksPassed'
    BY <2>1, Prepared DEF Prepare, PreparationFails
  <2>2. CASE ExpectMode
    BY <2>2 DEF ExpectMode
  <2>3. CASE AcceptReturns
    BY <2>3 DEF AcceptReturns
  <2>4. CASE TakeConnection
    BY <2>4 DEF TakeConnection
  <2>5. CASE RefusePeer \/ WindowCloses \/ AcceptFails
    BY <2>5 DEF RefusePeer, WindowCloses, AcceptFails
  <2>6. CASE Authenticate
    BY <2>6 DEF Authenticate
  <2>7. CASE GateReturns
    BY <2>7 DEF GateReturns
  <2>8. CASE StartPTY
    BY <2>8 DEF StartPTY
  <2>9. CASE Resize \/ RelayEnds \/ ClosePTY \/ CloseConn \/ CloseListener \/ Exit
    BY <2>9 DEF Resize, RelayEnds, ClosePTY, CloseConn, CloseListener, Exit, Calls
  <2>10. ASSUME NEW p \in Peers, Connect(p) \/ HangUp(p) PROVE ChecksPassed'
    BY <2>10 DEF Connect, HangUp
  <2>11. ASSUME NEW p \in Peers, SendFirst(p) PROVE ChecksPassed'
    (* a first frame is not taken back *)
    <3>1. frame[Frontend] # "none" => frame'[Frontend] = frame[Frontend]
      BY <2>11 DEF SendFirst
    <3> QED BY <2>11, <3>1 DEF SendFirst
  <2>12. CASE ProgramEnds \/ Tick \/ Finished \/ UNCHANGED vars
    BY <2>12 DEF ProgramEnds, Tick, Finished, vars
  <2> QED
    BY <2>1, <2>2, <2>3, <2>4, <2>5, <2>6, <2>7, <2>8, <2>9, <2>10, <2>11,
       <2>12 DEF Next, Accepting
<1>3. ChecksPassed => ProgramNeedsAllGates
  BY DEF ChecksPassed
<1> QED BY <1>1, <1>2, <1>3, TypesAndQueue, PTL DEF Spec

-----------------------------------------------------------------------------
(* What is open, has its deferred call.                                      *)

Unaccepted == {"root", "config", "keys", "listen", "report", "expect"}

(* The port and the queue behind it. *)
ListenerFollows ==
  /\ listener = "open" => deferred # <<>>
  /\ \A p \in Peers : link[p] = "queued" => listener = "open"

(* The session's connection, and the one that came too late to be it. *)
ConnFollows ==
  /\ phase \in Unaccepted => accepted = Nobody
  /\ phase \in Unaccepted \cup {"accept"} => conn = Nobody
  /\ phase \in Unstarted \cup Started => conn # Nobody
  /\ \A p \in Peers : link[p] = "accepted" => p = accepted
  /\ phase = "accept" /\ accepted # Nobody => link[accepted] = "accepted"
  /\ conn # Nobody =>
       (link[conn] = "closed" <=> deferred \in {<<>>, <<"ln.Close">>})
  /\ phase = "return" /\ conn = Nobody =>
       \A p \in Peers : link[p] = "accepted" => clock >= AcceptWindow

ProgramFollows ==
  program = "running" => deferred = <<"pty.Close", "conn.Close", "ln.Close">>

OpenedInv == ListenerFollows /\ ConnFollows /\ ProgramFollows

LEMMA OpenedStep ==
  ASSUME Types, QueuedOnce, DefersFollow, OpenedInv, [Next]_vars
  PROVE  OpenedInv'
<1> USE DEF Types, DefersFollow, Unlistened, Awaiting, Unstarted, Started,
            OpenedInv, ListenerFollows, ConnFollows, ProgramFollows,
            Unaccepted, peerVars, netVars, gateVars
<1>1. ASSUME NEW i \in 1..Len(Preparation), Prepare(i) PROVE OpenedInv'
  <2>1. /\ phase \in Unaccepted \ {"expect"}
        /\ phase' \in {"config", "keys", "listen", "report", "accept"}
        /\ UNCHANGED <<link, accepted, conn, program>>
        /\ UNCHANGED listener \/ deferred' # <<>>
        /\ listener = "open" => deferred' # <<>> /\ listener' = "open"
    BY <1>1, PreparedNext, StackSteps, StacksDiffer DEF Prepare, Defer
  <2>2. program # "running"
    BY <2>1, StacksDiffer
  <2> QED BY <2>1, <2>2
<1>2. ASSUME NEW i \in 1..Len(Preparation), PreparationFails(i)
      PROVE  OpenedInv'
  <2>1. phase \in Unaccepted
    BY <1>2, Prepared DEF PreparationFails
  <2> QED BY <1>2, <2>1 DEF PreparationFails, QueuedOnce
<1>3. CASE ExpectMode
  BY <1>3 DEF ExpectMode
<1>4. CASE AcceptReturns
  <2>1. /\ Head(backlog) \in Peers /\ Head(backlog) = backlog[1]
        /\ Len(backlog) \in Nat \ {0}
    BY <1>4, HeadTailProperties, EmptySeq DEF AcceptReturns
  <2>2. link[Head(backlog)] = "queued" /\ conn = Nobody
    BY <1>4, <2>1, SessionAssumption DEF QueuedOnce, AcceptReturns
  <2> QED BY <1>4, <2>1, <2>2 DEF AcceptReturns
<1>5. CASE AcceptFails
  BY <1>5 DEF AcceptFails
<1>6. CASE TakeConnection
  <2>1. /\ deferred' = <<"conn.Close", "ln.Close">> /\ program # "running"
        /\ conn' = accepted /\ accepted \in Peers /\ link[accepted] # "closed"
    BY <1>6, StackSteps, StacksDiffer DEF TakeConnection, Defer, QueuedOnce
  <2> QED BY <1>6, <2>1, StacksDiffer DEF TakeConnection
<1>7. CASE RefusePeer
  <2>1. /\ deferred = <<"ln.Close">> /\ conn = Nobody
        /\ UNCHANGED <<listener, accepted, conn, deferred, program>>
        /\ phase' = "return" /\ accepted \in Peers
    BY <1>7 DEF RefusePeer
  <2>2. \A p \in Peers : link'[p] = IF p = accepted THEN "closed" ELSE link[p]
    BY <1>7, <2>1 DEF RefusePeer
  <2> QED BY <2>1, <2>2, StacksDiffer
<1>8. CASE WindowCloses
  <2>1. /\ clock \in Nat /\ clock' = clock /\ clock >= AcceptWindow
        /\ UNCHANGED <<netVars, conn, deferred, program>>
        /\ phase' = "return" /\ conn = Nobody
    BY <1>8 DEF WindowCloses
  <2> QED BY <2>1
<1>9. CASE Authenticate \/ GateReturns \/ RelayEnds \/ Resize
  BY <1>9, StacksDiffer DEF Authenticate, GateReturns, RelayEnds, Resize
<1>10. CASE StartPTY
  BY <1>10, StackSteps, StacksDiffer DEF StartPTY, Defer
<1>11. CASE ClosePTY
  BY <1>11, CallsInTurn, StacksDiffer DEF ClosePTY, Calls
<1>12. CASE CloseConn
  <2>1. /\ deferred = <<"conn.Close", "ln.Close">> /\ deferred' = <<"ln.Close">>
        /\ phase = "return" /\ phase' = "return"
    BY <1>12, CallsInTurn DEF CloseConn, Calls
  <2>2. program # "running" /\ (conn # Nobody => conn \in Peers)
    BY <2>1, StacksDiffer, SessionAssumption
  <2>3. UNCHANGED <<listener, clock, accepted, conn, program>>
    BY <1>12 DEF CloseConn
  <2>4. \A p \in Peers : link'[p] = IF p = conn THEN "closed" ELSE link[p]
    BY <1>12 DEF CloseConn
  <2> QED BY <2>1, <2>2, <2>3, <2>4, StacksDiffer
<1>13. CASE CloseListener
  BY <1>13, CallsInTurn, StacksDiffer DEF CloseListener, Calls, QueuedOnce
<1>14. CASE Exit
  BY <1>14, StacksDiffer DEF Exit, QueuedOnce
<1>15. ASSUME NEW p \in Peers, Connect(p) \/ SendFirst(p) \/ HangUp(p)
       PROVE  OpenedInv'
  <2>1. CASE Connect(p)
    BY <1>15, <2>1 DEF Connect, QueuedOnce
  <2>2. CASE SendFirst(p) \/ HangUp(p)
    BY <1>15, <2>2 DEF SendFirst, HangUp
  <2> QED BY <1>15, <2>1, <2>2
<1>16. CASE ProgramEnds \/ Tick \/ Finished \/ UNCHANGED vars
  BY <1>16 DEF ProgramEnds, Tick, Finished, vars
<1> QED
  BY <1>1, <1>2, <1>3, <1>4, <1>5, <1>6, <1>7, <1>8, <1>9, <1>10, <1>11,
     <1>12, <1>13, <1>14, <1>15, <1>16 DEF Next, Accepting

LEMMA Opened ==
  Spec => [](Types /\ QueuedOnce /\ DefersFollow /\ OpenedInv)
<1>1. Init => OpenedInv
  BY DEF Init, OpenedInv, ListenerFollows, ConnFollows, ProgramFollows,
         Unaccepted, Unstarted, Started, Preparation
<1>2. Types /\ QueuedOnce /\ DefersFollow /\ OpenedInv /\ [Next]_vars => OpenedInv'
  BY OpenedStep
<1> QED BY <1>1, <1>2, TypesAndQueue, DefersInvariant, PTL DEF Spec

(* Whichever call fails, run() closes on its way out whatever it had opened by
   then, and leaves to the kernel a late connection at most (main.go:8-13, 125,
   136, 165, 197-226). *)
THEOREM DefersCloseAll == Spec => []NothingLeftOpen
<1>1. Types /\ QueuedOnce /\ DefersFollow /\ OpenedInv => NothingLeftOpen
  BY StacksDiffer
     DEF Types, QueuedOnce, DefersFollow, Unlistened, OpenedInv, ListenerFollows, ConnFollows,
         ProgramFollows, NothingLeftOpen
<1> QED BY <1>1, Opened, PTL

(* The process closes the frontend's connection only when its program is gone
   (main.go:136, 165, 184-191). *)
THEOREM ProgramGoneFirst == Spec => []ProgramEndsFirst
<1>1. OpenedInv => ProgramEndsFirst
  BY StacksDiffer DEF OpenedInv, ConnFollows, ProgramFollows,
                       ProgramEndsFirst
<1> QED BY <1>1, Opened, PTL

=============================================================================
