----------------------------- MODULE Relay_proofs -----------------------------
(***************************************************************************)
(* The watchdog of Relay, for timeouts, inboxes and bursts of any size: it *)
(* ends a session only after silence, and soon after the frontend has hung *)
(* up.  Both come from where its timer can stand in relation to the clock  *)
(* and to the activity that is still to be signalled.                      *)
(***************************************************************************)
EXTENDS Relay, SequenceTheorems, TLAPS

-----------------------------------------------------------------------------
(* The inductive invariant. *)

(* No second passes with the timer expired. *)
Timer ==
  /\ clock <= idleAt
  /\ idleAt <= clock + IdleTimeout

(* A token is as old as the clock; without one the timer has been restarted
   since the last activity. *)
Signals ==
  /\ lastActivity => lastTraffic = clock
  /\ ~lastActivity => lastTraffic + IdleTimeout <= idleAt

(* Where the timer will stand once a pending token is taken. *)
Deadline == IF lastActivity THEN clock + IdleTimeout ELSE idleAt

(* How often activity can still be signalled once the frontend has closed: for
   each unread frame, and for each chunk of output until one is refused. *)
Chunks ==
  IF outgoing = "returned" THEN 0
  ELSE (IF outgoing = "reading" THEN 1 ELSE 0) + (IF conn = "reset" THEN 0 ELSE 1)

Due == Len(inbox) + Chunks

Awake ==
  conn \in {"closed", "reset"} =>
    Deadline + IdleTimeout * Due <= closedAt + IdleTimeout * (InboxCapacity + 3)

RelayInv ==
  /\ TypeOK
  /\ Timer
  /\ Signals
  /\ Awake

-----------------------------------------------------------------------------
(* Types. *)

LEMMA PumpMayReturn ==
  ASSUME TypeOK, clock' = clock, PumpReturns \/ UNCHANGED deadAt
  PROVE  deadAt' \in -1..clock
BY DEF TypeOK, PumpReturns

LEMMA TypesInitially == Init => TypeOK
<1> SUFFICES ASSUME Init PROVE TypeOK
  OBVIOUS
<1> USE RelayAssumption
<1>1. <<>> \in Seq({"good", "bad"}) /\ Len(<<>>) = 0
  BY EmptySeq
<1>2. /\ clock \in 0..MaxTimeout /\ idleAt \in 0..(MaxTimeout + IdleTimeout)
      /\ lastTraffic \in 0..clock /\ closedAt \in 0..clock /\ deadAt \in -1..clock
      /\ budget \in 0..Burst /\ Len(inbox) <= InboxCapacity
  BY <1>1 DEF Init
<1>3. output \in BOOLEAN /\ lastActivity \in BOOLEAN
  BY DEF Init
<1> QED BY <1>1, <1>2, <1>3 DEF Init, TypeOK

LEMMA PumpKeepsTypes ==
  ASSUME TypeOK, Pump
  PROVE  TypeOK'
<1> USE DEF timeVars, programVars, frontendVars, activityVars, watchVars, mainVars
<1>1. CASE ReadOutput
  <2>1. output' \in BOOLEAN
    BY <1>1 DEF ReadOutput
  <2>2. lastActivity' \in BOOLEAN /\ lastTraffic' \in 0..clock
    BY <1>1 DEF ReadOutput, SignalActivity, TypeOK
  <2> QED BY <1>1, <2>1, <2>2 DEF ReadOutput, TypeOK
<1>2. CASE SendOutput
  <2>1. deadAt' \in -1..clock
    BY <1>2, PumpMayReturn DEF SendOutput
  <2>2. conn' \in {"open", "half", "closed", "reset"} /\ outgoing' \in {"reading", "returned"}
    BY <1>2 DEF SendOutput, TypeOK
  <2> QED BY <1>2, <2>1, <2>2 DEF SendOutput, TypeOK
<1>3. CASE OutputEnds
  <2>1. deadAt' \in -1..clock
    BY <1>3, PumpMayReturn DEF OutputEnds
  <2> QED BY <1>3, <2>1 DEF OutputEnds, TypeOK
<1>4. CASE ReadInput
  <2>1. lastActivity' \in BOOLEAN /\ lastTraffic' \in 0..clock
    BY <1>4 DEF ReadInput, SignalActivity, TypeOK
  <2>2. inbox' \in Seq({"good", "bad"}) /\ Len(inbox') <= InboxCapacity
    <3>1. /\ inbox \in Seq({"good", "bad"}) /\ inbox # <<>> /\ inbox' = Tail(inbox)
          /\ Len(inbox) \in Nat /\ Len(inbox) <= InboxCapacity
      BY <1>4, LenProperties DEF ReadInput, TypeOK
    <3>2. inbox' \in Seq({"good", "bad"}) /\ Len(inbox') = Len(inbox) - 1
      BY <3>1, HeadTailProperties
    <3> QED BY <3>1, <3>2, RelayAssumption
  <2> QED BY <1>4, <2>1, <2>2 DEF ReadInput, TypeOK
<1>5. CASE WriteInput
  <2>1. deadAt' \in -1..clock
    BY <1>5, PumpMayReturn DEF WriteInput
  <2>2. incoming' \in {"reading", "returned"}
    BY <1>5 DEF WriteInput
  <2> QED BY <1>5, <2>1, <2>2 DEF WriteInput, TypeOK
<1>6. CASE InputEnds
  <2>1. deadAt' \in -1..clock
    BY <1>6, PumpMayReturn DEF InputEnds
  <2> QED BY <1>6, <2>1 DEF InputEnds, TypeOK
<1> QED BY <1>1, <1>2, <1>3, <1>4, <1>5, <1>6 DEF Pump

LEMMA ProcessKeepsTypes ==
  ASSUME TypeOK, Watch \/ Select \/ ClosePTY \/ Exit \/ Reap
  PROVE  TypeOK'
<1> USE DEF timeVars, programVars, frontendVars, activityVars, pumpVars, watchVars, mainVars
<1>1. CASE Refresh
  <2>1. lastActivity' \in BOOLEAN
    BY <1>1 DEF Refresh
  <2>2. idleAt' \in 0..(MaxTimeout + IdleTimeout)
    BY <1>1, RelayAssumption DEF Refresh, TypeOK
  <2> QED BY <1>1, <2>1, <2>2 DEF Refresh, TypeOK
<1>2. CASE IdleExpires
  BY <1>2 DEF IdleExpires, TypeOK
<1>3. CASE Select
  BY <1>3 DEF Select, TypeOK
<1>4. CASE ClosePTY
  BY <1>4 DEF ClosePTY, TypeOK
<1>5. CASE Exit
  BY <1>5 DEF Exit, TypeOK
<1>6. CASE Reap
  BY <1>6 DEF Reap, TypeOK
<1> QED BY <1>1, <1>2, <1>3, <1>4, <1>5, <1>6 DEF Watch

LEMMA EnvironmentKeepsTypes ==
  ASSUME TypeOK, Environment
  PROVE  TypeOK'
<1> USE DEF timeVars, programVars, frontendVars, activityVars, pumpVars, watchVars, mainVars
<1>1. CASE Produce
  <2>1. output' \in BOOLEAN
    BY <1>1 DEF Produce
  <2>2. budget' \in 0..Burst
    BY <1>1, RelayAssumption DEF Produce, TypeOK
  <2> QED BY <1>1, <2>1, <2>2 DEF Produce, TypeOK
<1>2. CASE ProgramExits
  BY <1>2 DEF ProgramExits, TypeOK
<1>3. CASE CloseTerminal
  BY <1>3 DEF CloseTerminal, TypeOK
<1>4. CASE FrontendSends
  <2>1. budget' \in 0..Burst
    BY <1>4, RelayAssumption DEF FrontendSends, TypeOK
  <2>2. inbox' \in Seq({"good", "bad"}) /\ Len(inbox') <= InboxCapacity
    <3>1. PICK frame \in {"good", "bad"} : inbox' = Append(inbox, frame)
      BY <1>4 DEF FrontendSends
    <3>2. inbox \in Seq({"good", "bad"}) /\ Len(inbox) \in Nat /\ Len(inbox) < InboxCapacity
      BY <1>4, LenProperties DEF FrontendSends, TypeOK
    <3>3. inbox' \in Seq({"good", "bad"}) /\ Len(inbox') = Len(inbox) + 1
      BY <3>1, <3>2, AppendProperties
    <3> QED BY <3>2, <3>3, RelayAssumption
  <2> QED BY <1>4, <2>1, <2>2 DEF FrontendSends, TypeOK
<1>5. CASE FrontendCloses
  <2>1. conn' \in {"open", "half", "closed", "reset"}
    BY <1>5 DEF FrontendCloses
  <2>2. closedAt' \in 0..clock
    BY <1>5 DEF FrontendCloses, TypeOK
  <2> QED BY <1>5, <2>1, <2>2 DEF FrontendCloses, TypeOK
<1>6. CASE Tick
  <2>1. ~(clock >= MaxTimeout)
    BY <1>6, Zenon DEF Tick, Quiet, Ready
  <2>2. /\ clock' \in 0..MaxTimeout /\ budget' \in 0..Burst
        /\ lastTraffic \in 0..clock' /\ closedAt \in 0..clock' /\ deadAt \in -1..clock'
    BY <1>6, <2>1, RelayAssumption DEF Tick, TypeOK
  <2> QED BY <1>6, <2>2 DEF Tick, TypeOK
<1> QED BY <1>1, <1>2, <1>3, <1>4, <1>5, <1>6 DEF Environment

-----------------------------------------------------------------------------
(* The timer and what may still restart it. *)

LEMMA Times ==
  ASSUME NEW b \in Nat, NEW c \in Nat
  PROVE  /\ IdleTimeout * b \in Nat
         /\ IdleTimeout * (b + 1) = IdleTimeout * b + IdleTimeout
         /\ b <= c => IdleTimeout * b <= IdleTimeout * c
BY RelayAssumption

Counted ==
  /\ clock \in Nat /\ idleAt \in Nat /\ lastTraffic \in Nat /\ closedAt \in Nat
  /\ Len(inbox) \in Nat /\ Len(inbox) <= InboxCapacity
  /\ Chunks \in 0..2 /\ Due \in Nat /\ Due <= InboxCapacity + 2
  /\ lastActivity \in BOOLEAN

LEMMA Numbers == TypeOK => Counted
<1> SUFFICES ASSUME TypeOK PROVE Counted
  OBVIOUS
<1>1. /\ clock \in Nat /\ idleAt \in Nat /\ closedAt \in Nat
      /\ IdleTimeout \in Nat /\ IdleTimeout > 0 /\ InboxCapacity \in Nat
      /\ lastActivity \in BOOLEAN
  BY RelayAssumption DEF TypeOK
<1>2. lastTraffic \in Nat
  BY <1>1 DEF TypeOK
<1>3. Len(inbox) \in Nat /\ Len(inbox) <= InboxCapacity
  BY LenProperties DEF TypeOK
<1>4. Chunks \in 0..2
  BY DEF Chunks
<1>5. Due \in Nat /\ Due <= InboxCapacity + 2
  BY <1>1, <1>3, <1>4 DEF Due
<1> QED BY <1>1, <1>2, <1>3, <1>4, <1>5 DEF Counted

LEMMA NumbersNext == TypeOK' => Counted'
BY Numbers, PTL

LEMMA Limits ==
  /\ IdleTimeout \in Nat /\ IdleTimeout > 0 /\ InboxCapacity \in Nat
  /\ InboxCapacity + 2 \in Nat /\ InboxCapacity + 3 \in Nat
  /\ IdleTimeout * (InboxCapacity + 3) \in Nat
<1>1. IdleTimeout \in Nat /\ IdleTimeout > 0 /\ InboxCapacity \in Nat
  BY RelayAssumption
<1>2. InboxCapacity + 2 \in Nat /\ InboxCapacity + 3 \in Nat
  BY <1>1
<1> QED BY <1>1, <1>2, Times

(* What leaves clock, timer, token, connection and output pump alone. *)
LEMMA OthersKeepTimer ==
  ASSUME RelayInv,
         UNCHANGED <<clock, idleAt, lastActivity, lastTraffic, conn, inbox, outgoing, closedAt>>
  PROVE  Timer' /\ Signals' /\ Awake'
<1>1. Deadline' = Deadline /\ Due' = Due
  BY DEF Deadline, Due, Chunks
<1> QED BY <1>1 DEF RelayInv, Timer, Signals, Awake

(* Activity is signalled for a frame or a chunk that is then no longer due. *)
LEMMA SignalKeepsTimer ==
  ASSUME RelayInv, TypeOK', SignalActivity, Due' + 1 = Due,
         UNCHANGED <<clock, idleAt, conn, closedAt>>
  PROVE  Timer' /\ Signals' /\ Awake'
<1>1. Timer' /\ Signals'
  BY DEF RelayInv, Timer, Signals, SignalActivity
<1>2. Awake'
  <2> SUFFICES ASSUME conn \in {"closed", "reset"}
               PROVE  Deadline' + IdleTimeout * Due' <= closedAt + IdleTimeout * (InboxCapacity + 3)
    BY DEF Awake
  <2>1. Deadline + IdleTimeout * Due <= closedAt + IdleTimeout * (InboxCapacity + 3)
    BY DEF RelayInv, Awake
  <2>2. /\ clock \in Nat /\ idleAt \in Nat /\ closedAt \in Nat /\ IdleTimeout \in Nat
        /\ Due \in Nat /\ Due' \in Nat /\ InboxCapacity + 3 \in Nat
    <3>1. Due' \in Nat
      BY NumbersNext DEF Counted
    <3> QED BY <3>1, Numbers, Limits DEF RelayInv, Counted
  <2>3. Deadline \in Nat /\ clock <= Deadline /\ Deadline' = clock + IdleTimeout
    BY <2>2 DEF RelayInv, Timer, Deadline, SignalActivity
  <2>4. IdleTimeout * Due = IdleTimeout * Due' + IdleTimeout /\ IdleTimeout * Due' \in Nat
    BY <2>2, Times
  <2>5. PICK x \in Nat, limit \in Nat :
          x = IdleTimeout * Due' /\ limit = IdleTimeout * (InboxCapacity + 3)
    BY <2>4, Limits
  <2>6. Deadline + (x + IdleTimeout) <= closedAt + limit
    BY <2>1, <2>4, <2>5
  <2>7. clock + IdleTimeout + x <= closedAt + limit
    BY <2>2, <2>3, <2>6
  <2> QED BY <2>3, <2>5, <2>7
<1> QED BY <1>1, <1>2

LEMMA PumpKeepsTimer ==
  ASSUME RelayInv, TypeOK', Pump
  PROVE  Timer' /\ Signals' /\ Awake'
<1> USE DEF timeVars, frontendVars, activityVars, watchVars
<1>0. TypeOK
  BY DEF RelayInv
<1>1. CASE ReadOutput
  <2>1. /\ SignalActivity
        /\ UNCHANGED <<clock, idleAt, conn, closedAt, inbox>>
        /\ outgoing = "reading" /\ outgoing' = "sending"
    BY <1>1 DEF ReadOutput
  <2>2. Due' + 1 = Due
    <3>1. PICK l \in Nat : l = Len(inbox)
      BY <1>0, Numbers DEF Counted
    <3>2. PICK m \in Nat : Chunks = m + 1 /\ Chunks' = m
      <4>1. CASE conn = "reset"
        BY <2>1, <4>1 DEF Chunks
      <4>2. CASE conn # "reset"
        BY <2>1, <4>2 DEF Chunks
      <4> QED BY <4>1, <4>2
    <3>3. Due = l + (m + 1) /\ Due' = l + m
      BY <2>1, <3>1, <3>2 DEF Due
    <3>4. (l + m) + 1 = l + (m + 1)
      OBVIOUS
    <3> QED BY <3>3, <3>4
  <2> QED BY <2>1, <2>2, SignalKeepsTimer
<1>2. CASE SendOutput
  <2>1. UNCHANGED <<clock, idleAt, lastActivity, lastTraffic, inbox, closedAt>>
    BY <1>2 DEF SendOutput
  <2>2. Timer' /\ Signals'
    BY <2>1 DEF RelayInv, Timer, Signals
  <2>3. CASE conn \in {"closed", "reset"}
    <3>1. Chunks' <= Chunks
      BY <1>2, <2>3 DEF SendOutput, Chunks
    <3>2. Due \in Nat /\ Due' \in Nat /\ Due' <= Due
      <4>1. Due' \in Nat /\ Chunks' \in 0..2
        BY NumbersNext DEF Counted
      <4>2. Due \in Nat /\ Chunks \in 0..2 /\ Len(inbox) \in Nat
        BY <1>0, Numbers DEF Counted
      <4> QED BY <2>1, <3>1, <4>1, <4>2 DEF Due
    <3>3. /\ IdleTimeout * Due' <= IdleTimeout * Due
          /\ IdleTimeout * Due \in Nat /\ IdleTimeout * Due' \in Nat
      BY <3>2, Times
    <3>4. Deadline' = Deadline /\ Deadline \in Nat /\ closedAt \in Nat
      BY <1>0, <2>1, Numbers, Limits DEF Deadline, Counted
    <3>5. IdleTimeout * (InboxCapacity + 3) \in Nat
      BY Limits
    <3>6. Deadline + IdleTimeout * Due <= closedAt + IdleTimeout * (InboxCapacity + 3)
      BY <2>3 DEF RelayInv, Awake
    <3>7. Deadline' + IdleTimeout * Due' <= closedAt + IdleTimeout * (InboxCapacity + 3)
      BY <3>3, <3>4, <3>5, <3>6
    <3> QED BY <2>1, <2>2, <3>7 DEF Awake
  <2>4. CASE conn \notin {"closed", "reset"}
    BY <1>2, <2>2, <2>4 DEF SendOutput, Awake
  <2> QED BY <2>3, <2>4
<1>3. CASE OutputEnds
  <2>1. UNCHANGED <<clock, idleAt, lastActivity, lastTraffic, conn, inbox, closedAt>>
    BY <1>3 DEF OutputEnds
  <2>2. Timer' /\ Signals'
    BY <2>1 DEF RelayInv, Timer, Signals
  <2>3. Due \in Nat /\ Due' \in Nat /\ Due' <= Due
    <3>1. Due' \in Nat /\ Chunks' = 0
      BY <1>3, NumbersNext DEF OutputEnds, Chunks, Counted
    <3>2. Due \in Nat /\ Chunks \in 0..2 /\ Len(inbox) \in Nat
      BY <1>0, Numbers DEF Counted
    <3> QED BY <2>1, <3>1, <3>2 DEF Due
  <2>4. /\ IdleTimeout * Due' <= IdleTimeout * Due
        /\ IdleTimeout * Due \in Nat /\ IdleTimeout * Due' \in Nat
    BY <2>3, Times
  <2>5. Deadline' = Deadline /\ Deadline \in Nat /\ closedAt \in Nat
    BY <1>0, <2>1, Numbers, Limits DEF Deadline, Counted
  <2>6. IdleTimeout * (InboxCapacity + 3) \in Nat
    BY Limits
  <2>7. ASSUME conn \in {"closed", "reset"}
        PROVE  Deadline' + IdleTimeout * Due' <= closedAt + IdleTimeout * (InboxCapacity + 3)
    <3>1. Deadline + IdleTimeout * Due <= closedAt + IdleTimeout * (InboxCapacity + 3)
      BY <2>7 DEF RelayInv, Awake
    <3> QED BY <2>4, <2>5, <2>6, <3>1
  <2> QED BY <2>1, <2>2, <2>7 DEF Awake
<1>4. CASE ReadInput
  <2>1. /\ SignalActivity
        /\ UNCHANGED <<clock, idleAt, conn, closedAt, outgoing>>
        /\ inbox # <<>> /\ inbox' = Tail(inbox)
    BY <1>4 DEF ReadInput
  <2>2. Due' + 1 = Due
    <3>1. Len(inbox) \in Nat /\ Len(inbox') + 1 = Len(inbox) /\ Len(inbox') \in Nat
      <4>1. inbox \in Seq({"good", "bad"}) /\ Len(inbox) \in Nat
        BY LenProperties DEF RelayInv, TypeOK
      <4>2. Len(inbox') = Len(inbox) - 1
        BY <2>1, <4>1, HeadTailProperties
      <4>3. Len(inbox') \in Nat
        BY NumbersNext DEF Counted
      <4> QED BY <4>1, <4>2, <4>3
    <3>2. Chunks \in 0..2 /\ Chunks' = Chunks
      BY <2>1 DEF Chunks
    <3> QED BY <3>1, <3>2 DEF Due
  <2> QED BY <2>1, <2>2, SignalKeepsTimer
<1>5. CASE WriteInput \/ InputEnds
  BY <1>5, OthersKeepTimer DEF WriteInput, InputEnds
<1> QED BY <1>1, <1>2, <1>3, <1>4, <1>5 DEF Pump

LEMMA ProcessKeepsTimer ==
  ASSUME RelayInv, Watch \/ Select \/ ClosePTY \/ Exit \/ Reap
  PROVE  Timer' /\ Signals' /\ Awake'
<1> USE DEF timeVars, frontendVars, activityVars, pumpVars, watchVars
<1>1. CASE Refresh
  <2>1. /\ UNCHANGED <<clock, lastTraffic, conn, inbox, outgoing, closedAt>>
        /\ lastActivity /\ lastActivity' = FALSE /\ idleAt' = clock + IdleTimeout
    BY <1>1 DEF Refresh
  <2>2. clock \in Nat /\ IdleTimeout \in Nat /\ lastTraffic = clock
    BY <2>1, Numbers, Limits DEF RelayInv, Signals, Counted
  <2>3. Timer' /\ Signals'
    BY <2>1, <2>2 DEF Timer, Signals
  <2>4. Deadline' = Deadline /\ Due' = Due
    BY <2>1 DEF Deadline, Due, Chunks
  <2> QED BY <2>1, <2>3, <2>4 DEF RelayInv, Awake
<1>2. CASE IdleExpires \/ Select \/ ClosePTY \/ Exit \/ Reap
  <2>1. UNCHANGED <<clock, idleAt, lastActivity, lastTraffic, conn, inbox, outgoing, closedAt>>
    BY <1>2 DEF IdleExpires, Select, ClosePTY, Exit, Reap
  <2> QED BY <2>1, OthersKeepTimer
<1> QED BY <1>1, <1>2 DEF Watch

LEMMA EnvironmentKeepsTimer ==
  ASSUME RelayInv, TypeOK', Environment
  PROVE  Timer' /\ Signals' /\ Awake'
<1> USE DEF timeVars, programVars, frontendVars, activityVars, pumpVars, watchVars
<1>0. TypeOK
  BY DEF RelayInv
<1>1. CASE Produce \/ ProgramExits \/ CloseTerminal
  <2>1. UNCHANGED <<clock, idleAt, lastActivity, lastTraffic, conn, inbox, outgoing, closedAt>>
    BY <1>1 DEF Produce, ProgramExits, CloseTerminal
  <2> QED BY <2>1, OthersKeepTimer
<1>2. CASE FrontendSends
  <2>1. /\ UNCHANGED <<clock, idleAt, lastActivity, lastTraffic>>
        /\ conn = "open" /\ conn' = "open"
    BY <1>2 DEF FrontendSends
  <2> QED BY <2>1 DEF RelayInv, Timer, Signals, Awake
<1>3. CASE FrontendCloses
  <2>1. /\ UNCHANGED <<clock, idleAt, lastActivity, lastTraffic>>
        /\ conn' = "half" \/ (conn' = "closed" /\ closedAt' = clock)
    BY <1>3 DEF FrontendCloses
  <2>2. Timer' /\ Signals'
    BY <2>1 DEF RelayInv, Timer, Signals
  <2>3. ASSUME conn' = "closed"
        PROVE  Deadline' + IdleTimeout * Due' <= closedAt' + IdleTimeout * (InboxCapacity + 3)
    <3>1. closedAt' = clock /\ clock \in Nat /\ idleAt \in Nat /\ IdleTimeout \in Nat
      BY <1>0, <2>1, <2>3, Numbers, Limits DEF Counted
    <3>2. Deadline' \in Nat /\ Deadline' <= clock + IdleTimeout
      BY <2>1, <3>1 DEF Deadline, RelayInv, Timer
    <3>3. Due' \in Nat /\ Due' <= InboxCapacity + 2 /\ InboxCapacity \in Nat
      BY NumbersNext, Limits DEF Counted
    <3>4. /\ IdleTimeout * Due' <= IdleTimeout * (InboxCapacity + 2)
          /\ IdleTimeout * (InboxCapacity + 2) \in Nat /\ IdleTimeout * Due' \in Nat
          /\ IdleTimeout * ((InboxCapacity + 2) + 1)
               = IdleTimeout * (InboxCapacity + 2) + IdleTimeout
      <4>1. InboxCapacity + 2 \in Nat
        BY <3>3
      <4> QED BY <3>3, <4>1, Times
    <3>5. (InboxCapacity + 2) + 1 = InboxCapacity + 3
      BY <3>3
    <3> QED BY <3>1, <3>2, <3>4, <3>5
  <2> QED BY <2>1, <2>2, <2>3 DEF Awake
<1>4. CASE Tick
  <2>1. /\ UNCHANGED <<idleAt, lastActivity, lastTraffic, conn, inbox, outgoing, closedAt>>
        /\ clock' = clock + 1 /\ ~lastActivity /\ clock < idleAt
    BY <1>4 DEF Tick, Quiet
  <2>2. clock \in Nat /\ idleAt \in Nat /\ IdleTimeout \in Nat
    BY <1>0, Numbers, Limits DEF Counted
  <2>3. Timer' /\ Signals'
    BY <2>1, <2>2 DEF RelayInv, Timer, Signals
  <2>4. Deadline' = Deadline /\ Due' = Due
    BY <2>1 DEF Deadline, Due, Chunks
  <2> QED BY <2>1, <2>3, <2>4 DEF RelayInv, Awake
<1> QED BY <1>1, <1>2, <1>3, <1>4 DEF Environment

LEMMA RelayInvariant == Spec => []RelayInv
<1>1. Init => RelayInv
  <2> SUFFICES ASSUME Init PROVE RelayInv
    OBVIOUS
  <2>1. TypeOK
    BY TypesInitially
  <2>2. Timer /\ Signals /\ Awake
    BY RelayAssumption DEF Init, Timer, Signals, Awake
  <2> QED BY <2>1, <2>2 DEF RelayInv
<1>2. RelayInv /\ [Next]_vars => RelayInv'
  <2> SUFFICES ASSUME RelayInv, [Next]_vars PROVE RelayInv'
    OBVIOUS
  <2>0. TypeOK
    BY DEF RelayInv
  <2>1. CASE Pump
    BY <2>0, <2>1, PumpKeepsTypes, PumpKeepsTimer DEF RelayInv
  <2>2. CASE Watch \/ Select \/ ClosePTY \/ Exit \/ Reap
    BY <2>0, <2>2, ProcessKeepsTypes, ProcessKeepsTimer DEF RelayInv
  <2>3. CASE Environment
    BY <2>0, <2>3, EnvironmentKeepsTypes, EnvironmentKeepsTimer DEF RelayInv
  <2>4. CASE Gone \/ UNCHANGED vars
    <3>1. UNCHANGED vars
      BY <2>4 DEF Gone
    <3>2. TypeOK'
      BY <2>0, <3>1 DEF vars, TypeOK
    <3>3. Timer' /\ Signals' /\ Awake'
      BY <3>1, OthersKeepTimer DEF vars
    <3> QED BY <3>2, <3>3 DEF RelayInv
  <2> QED BY <2>1, <2>2, <2>3, <2>4 DEF Next
<1> QED BY <1>1, <1>2, PTL DEF Spec

-----------------------------------------------------------------------------

(* The relay's goroutines, its timer and its connection stay within what they
   can be, and the clock within the maximum duration (main.go:177-316). *)
THEOREM TypeCorrect == Spec => []TypeOK
<1>1. RelayInv => TypeOK
  BY DEF RelayInv
<1> QED BY <1>1, RelayInvariant, PTL

(* The watchdog never mistakes a busy session for an idle one, whatever the
   interleaving of the pumps' signals with its timer (main.go:261-267,
   300-315). *)
THEOREM OnlySilenceEnds == Spec => IdleMeansSilence
<1> DEFINE Silent == clock - lastTraffic >= IdleTimeout \/ lastTraffic = clock
<1>1. RelayInv /\ [Next]_vars => [watchdog' # watchdog => Silent]_vars
  <2> SUFFICES ASSUME RelayInv, [Next]_vars, watchdog' # watchdog PROVE Silent
    BY DEF vars
  <2> USE DEF watchVars
  <2>1. CASE IdleExpires
    <3>1. clock >= idleAt
      BY <2>1 DEF IdleExpires
    <3>2. CASE lastActivity
      BY <3>2 DEF RelayInv, Signals
    <3>3. CASE ~lastActivity
      <4>1. /\ lastTraffic + IdleTimeout <= idleAt
            /\ clock \in Nat /\ idleAt \in Nat /\ lastTraffic \in Nat /\ IdleTimeout \in Nat
        BY <3>3, Numbers, Limits DEF RelayInv, Signals, Counted
      <4> QED BY <3>1, <4>1
    <3> QED BY <3>2, <3>3
  <2>2. CASE Pump
    BY <2>2 DEF Pump, ReadOutput, SendOutput, OutputEnds, ReadInput, WriteInput, InputEnds
  <2>3. CASE Refresh \/ Select \/ ClosePTY \/ Exit \/ Reap
    BY <2>3 DEF Refresh, Select, ClosePTY, Exit, Reap
  <2>4. CASE Environment
    BY <2>4 DEF Environment, Produce, ProgramExits, CloseTerminal, FrontendSends,
                FrontendCloses, Tick
  <2>5. CASE Gone \/ UNCHANGED vars
    BY <2>5 DEF Gone, vars
  <2> QED BY <2>1, <2>2, <2>3, <2>4, <2>5 DEF Next, Watch
<1> QED BY <1>1, RelayInvariant, PTL DEF Spec, IdleMeansSilence

(* A frontend that hangs up is noticed within a time that depends only on what
   was under way: no interleaving of reads, resets and refreshed timers keeps
   the session for longer (main.go:246-316). *)
THEOREM HangUpEndsRelay == Spec => []HangUpIsNoticed
<1>1. RelayInv => HangUpIsNoticed
  <2> SUFFICES ASSUME RelayInv, conn \in {"closed", "reset"}
               PROVE  clock <= closedAt + IdleTimeout * (InboxCapacity + 3)
    BY DEF HangUpIsNoticed
  <2>1. /\ clock \in Nat /\ idleAt \in Nat /\ closedAt \in Nat /\ IdleTimeout \in Nat
        /\ Due \in Nat /\ InboxCapacity + 3 \in Nat
    BY Numbers, Limits DEF RelayInv, Counted
  <2>2. Deadline + IdleTimeout * Due <= closedAt + IdleTimeout * (InboxCapacity + 3)
    BY DEF RelayInv, Awake
  <2>3. Deadline \in Nat /\ clock <= Deadline
    BY <2>1 DEF RelayInv, Timer, Deadline
  <2>4. IdleTimeout * Due \in Nat /\ IdleTimeout * (InboxCapacity + 3) \in Nat
    BY <2>1, Times
  <2> QED BY <2>1, <2>2, <2>3, <2>4
<1> QED BY <1>1, RelayInvariant, PTL

===============================================================================
