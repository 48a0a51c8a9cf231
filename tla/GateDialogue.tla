----------------------------- MODULE GateDialogue -----------------------------
(***************************************************************************)
(* What the password gate and the frontend say to each other: the gate     *)
(* loop of auth.go, verifyOSAccount with the PAM callback of auth_unix.go  *)
(* or the single question of auth_windows.go, and a frontend that talks as *)
(* testclient/main.go does.  Both sides share one connection, on which the *)
(* terminal follows the gate without a mark of its own: the frame "ok" is  *)
(* where the gate's messages end and the program's output begins, and the  *)
(* frame after the last answer is the program's input.                     *)
(*                                                                         *)
(* The lockout files are those of PasswordGate: locked or not, here.       *)
(***************************************************************************)
EXTENDS Integers, Sequences, FiniteSets

CONSTANTS
  Platforms,    \* among "pam" and "windows"
  MaxAttempts,  \* lockoutMaxAttempts
  MaxCalls,     \* bound: callbacks of the PAM stack in one attempt
  MaxBatch,     \* bound: messages in one callback
  MaxOnTheWay   \* bound: output and input frames on the way

ASSUME DialogueAssumption ==
  /\ Platforms \subseteq {"pam", "windows"}
  /\ MaxAttempts \in Nat \ {0}
  /\ MaxCalls \in Nat /\ MaxBatch \in Nat /\ MaxOnTheWay \in Nat

VARIABLES
  platform,
  pc,         \* where the gate stands
  attempt,    \* the loop variable of runPasswordGate
  stage,      \* the PAM call that is running
  err,        \* does verifyOSAccount return an error?
  convNextID, \* the last handle given out
  convRegistry, \* the handles that stand for a conversation
  calls,      \* callbacks in this attempt
  call,       \* the messages of the callback
  slots,      \* the responses so far: the question and what was read for it
  leaked,     \* C copies of answers that nobody will free
  question,   \* prompts sent so far
  toFrontend, \* frames on the way to the frontend
  toGate,     \* frames on the way to the process
  mode,       \* the frontend: in the "gate", "raw", or it has "left"
  connected   \* does it hold the connection?

vars == <<platform, pc, attempt, stage, err, convNextID,
          convRegistry, calls, call, slots, leaked, question, toFrontend, toGate,
          mode, connected>>

pamVars == <<stage, err, convNextID, convRegistry, calls>>
convVars == <<call, slots, leaked>>
wireVars == <<question, toFrontend, toGate>>
frontendVars == <<mode, connected>>

(* PAM_PROMPT_ECHO_OFF and _ON, PAM_TEXT_INFO and PAM_ERROR_MSG, the rest. *)
Styles == {"prompt", "text", "unknown"}

(* Frames to the frontend; a prompt has a number.  Frames to the process: the
   number of the prompt that is answered, or Keys, or damage. *)
Message(type) == [type |-> type, n |-> 0]
Question(n) == [type |-> "prompt", n |-> n]
Keys == 0
Unopenable == -1    \* authentication fails; the next frame is whole again
OutOfBounds == -2   \* a bad length: no boundary is found from here on
Damage == {Unopenable, OutOfBounds}

NoAnswer == [asked |-> 0, got |-> 0]

Init ==
  /\ platform \in Platforms
  /\ pc = "banner" /\ attempt = 1
  /\ stage = "none" /\ err = FALSE
  /\ convNextID = 0 /\ convRegistry = {} /\ calls = 0
  /\ call = <<>> /\ slots = <<>> /\ leaked = 0
  /\ question = 0 /\ toFrontend = <<>> /\ toGate = <<>>
  /\ mode = "gate" /\ connected = TRUE

-----------------------------------------------------------------------------
(* WriteFrame: after a hang-up a frame may still be accepted and is lost, or
   the write fails. *)
Send(frame) ==
  toFrontend' = IF connected THEN Append(toFrontend, frame) ELSE toFrontend

SendFails == ~connected /\ UNCHANGED toFrontend

Try(frame) == Send(frame) \/ SendFails   \* _ = w.WriteFrame(...)

(* runPasswordGate. *)

SendBanner ==
  /\ pc = "banner"
  /\ \/ Send(Message("info")) /\ pc' = "check"
     \/ SendFails /\ pc' = "ended"
  /\ UNCHANGED <<platform, attempt, pamVars, convVars, question, toGate,
                 frontendVars>>

CheckLockout ==
  /\ pc = "check"
  /\ \/ pc' = "verify" /\ UNCHANGED toFrontend
     \/ Try(Message("locked")) /\ pc' = "ended"
  /\ UNCHANGED <<platform, attempt, pamVars, convVars, question, toGate,
                 frontendVars>>

(* lockoutReset, then the frame whose error the gate returns. *)
ReplyOk ==
  /\ pc = "reset"
  /\ \/ Send(Message("ok")) /\ pc' = "passed"
     \/ SendFails /\ pc' = "ended"
  /\ UNCHANGED <<platform, attempt, pamVars, convVars, question, toGate,
                 frontendVars>>

(* Mutant: remaining < 0. *)
LastAttemptLate == attempt > MaxAttempts

(* remaining <= 0 *)
LastAttempt == attempt >= MaxAttempts

(* lockoutRecordFailure, then the countdown or the end; neither message need
   arrive. *)
RecordFailure ==
  /\ pc = "record"
  /\ \/ ~LastAttempt /\ Try(Message("info"))
        /\ attempt' = attempt + 1 /\ pc' = "check"
     \/ LastAttempt /\ Try(Message("denied"))
        /\ pc' = "ended" /\ UNCHANGED attempt
  /\ UNCHANGED <<platform, pamVars, convVars, question, toGate, frontendVars>>

-----------------------------------------------------------------------------
(* verifyOSAccount of auth_unix.go. *)

Register ==
  /\ pc = "verify" /\ platform = "pam"
  /\ convNextID' = convNextID + 1
  /\ convRegistry' = convRegistry \cup {convNextID + 1}
  /\ pc' = "start" /\ err' = FALSE /\ calls' = 0
  /\ UNCHANGED <<platform, attempt, stage, convVars, wireVars, frontendVars>>

(* Without a handle there is nothing to end. *)
PamStart ==
  /\ pc = "start"
  /\ \/ pc' = "pam" /\ stage' = "authenticate" /\ UNCHANGED err
     \/ pc' = "unregister" /\ err' = TRUE /\ UNCHANGED stage
  /\ UNCHANGED <<platform, attempt, convNextID, convRegistry, calls,
                 convVars, wireVars, frontendVars>>

(* pam_authenticate, pam_acct_mgmt and the deferred pam_end.  The stack
   decides as it likes, whatever its callbacks returned. *)
PamReturns ==
  /\ pc = "pam"
  /\ \/ /\ stage # "end"
        /\ stage' = IF stage = "authenticate" THEN "account" ELSE "end"
        /\ UNCHANGED <<pc, err>>
     \/ /\ stage # "end"
        /\ err' = TRUE /\ stage' = "end"
        /\ UNCHANGED pc
     \/ /\ stage = "end"
        /\ pc' = "unregister" /\ stage' = "none"
        /\ UNCHANGED err
  /\ UNCHANGED <<platform, attempt, convNextID, convRegistry, calls, convVars,
                 wireVars, frontendVars>>

(* Mutant: the handle is never given back. *)
UnregisterForgotten ==
  /\ pc = "unregister"
  /\ pc' = IF err THEN "record" ELSE "reset"
  /\ UNCHANGED <<platform, attempt, pamVars, convVars, wireVars, frontendVars>>

(* The deferred unregisterConv runs last. *)
Unregister ==
  /\ pc = "unregister"
  /\ convRegistry' = convRegistry \ {convNextID}
  /\ pc' = IF err THEN "record" ELSE "reset"
  /\ UNCHANGED <<platform, attempt, stage, err, convNextID, calls,
                 convVars, wireVars, frontendVars>>

-----------------------------------------------------------------------------
(* cs_console_pam_conv, called by the PAM stack in any of its calls. *)

(* The handle is unknown, there are no messages, or calloc fails: nothing has
   been allocated yet. *)
CallbackFails ==
  /\ pc = "pam" /\ calls < MaxCalls
  /\ calls' = calls + 1
  /\ UNCHANGED <<platform, pc, attempt, stage, err, convNextID,
                 convRegistry, convVars, wireVars, frontendVars>>

CallbackBegins ==
  /\ pc = "pam" /\ calls < MaxCalls /\ convNextID \in convRegistry
  /\ calls' = calls + 1
  /\ \E n \in 1..MaxBatch : call' \in [1..n -> Styles]
  /\ slots' = <<>>
  /\ pc' = "message"
  /\ UNCHANGED <<platform, attempt, stage, err, convNextID,
                 convRegistry, leaked, wireVars, frontendVars>>

(* verifyOSAccount of auth_windows.go asks one question of its own. *)
AskPassword ==
  /\ pc = "verify" /\ platform = "windows"
  /\ call' = <<"prompt">> /\ slots' = <<>>
  /\ pc' = "message" /\ err' = FALSE
  /\ UNCHANGED <<platform, attempt, stage, convNextID, convRegistry,
                 calls, leaked, wireVars, frontendVars>>

AllHandled == Len(slots) = Len(call)

NextMessage(style) ==
  pc = "message" /\ ~AllHandled /\ call[Len(slots) + 1] = style

Answered(i) == slots[i] # NoAnswer

(* The callback frees its array and returns PAM_CONV_ERR: the copies the array
   points to are C's, and nothing points to them any more.  On Windows, where
   there is no array, the error of Prompt is the verdict. *)
GiveUp ==
  /\ pc' = IF platform = "pam" THEN "pam" ELSE "record"
  /\ leaked' = leaked + Cardinality({i \in 1..Len(slots) : Answered(i)})
  /\ slots' = <<>>
  /\ err' = (platform = "windows" \/ err)

(* Mutant: a callback takes one prompt, and a second one for an error. *)
SendPromptOnce ==
  /\ NextMessage("prompt")
  /\ \/ /\ \A i \in 1..Len(slots) : ~Answered(i)
        /\ Send(Question(question + 1))
        /\ question' = question + 1
        /\ pc' = "await"
        /\ UNCHANGED <<slots, leaked, err>>
     \/ /\ SendFails \/ UNCHANGED toFrontend
        /\ GiveUp /\ UNCHANGED question
  /\ UNCHANGED <<platform, attempt, stage, convNextID, convRegistry,
                 calls, call, toGate, frontendVars>>

(* Prompt: one frame out, one frame in. *)
SendPrompt ==
  /\ NextMessage("prompt")
  /\ \/ /\ Send(Question(question + 1))
        /\ question' = question + 1
        /\ pc' = "await"
        /\ UNCHANGED <<slots, leaked, err>>
     \/ SendFails /\ GiveUp /\ UNCHANGED question
  /\ UNCHANGED <<platform, attempt, stage, convNextID, convRegistry,
                 calls, call, toGate, frontendVars>>

Damaged == toGate # <<>> /\ Head(toGate) \in Damage

(* Mutant: the read gets a deadline, and the answer may come after it. *)
ReadFailsOrTimesOut == TRUE

(* A closed connection, or a frame that cannot be opened; there is no
   deadline. *)
ReadFails == ~connected \/ Damaged

(* What the frontend had sent is read first, or a reset has thrown it all away.
   Behind a bad length every read finds no frame, or waits for more of it. *)
ReadAnswer ==
  /\ pc = "await"
  /\ \/ /\ toGate # <<>> /\ ~Damaged
        /\ slots' = Append(slots, [asked |-> question, got |-> Head(toGate)])
        /\ toGate' = Tail(toGate)
        /\ pc' = "message"
        /\ UNCHANGED <<leaked, err>>
     \/ /\ ReadFails /\ GiveUp
        /\ toGate' = IF ~connected THEN <<>>
                     ELSE IF Damaged /\ Head(toGate) = Unopenable THEN Tail(toGate)
                     ELSE toGate
  /\ UNCHANGED <<platform, attempt, stage, convNextID, convRegistry,
                 calls, call, question, toFrontend, frontendVars>>

(* Mutant: a text is followed by a read, like a prompt. *)
RelayTextAwaiting ==
  /\ NextMessage("text")
  /\ Try(Message("info"))
  /\ pc' = "await"
  /\ UNCHANGED <<platform, attempt, pamVars, convVars, question, toGate,
                 frontendVars>>

(* Info, whose error is ignored, and which has no answer. *)
RelayText ==
  /\ NextMessage("text")
  /\ Try(Message("info"))
  /\ slots' = Append(slots, NoAnswer)
  /\ UNCHANGED <<platform, pc, attempt, pamVars, call, leaked, question,
                 toGate, frontendVars>>

RefuseStyle ==
  /\ NextMessage("unknown")
  /\ GiveUp
  /\ UNCHANGED <<platform, attempt, stage, convNextID, convRegistry,
                 calls, call, wireVars, frontendVars>>

(* *resp = respArray: from here on the array and its copies are PAM's to
   free. *)
HandOver ==
  /\ pc = "message" /\ AllHandled /\ platform = "pam"
  /\ pc' = "pam"
  /\ UNCHANGED <<platform, attempt, pamVars, convVars, wireVars, frontendVars>>

LogonUser ==
  /\ pc = "message" /\ AllHandled /\ platform = "windows"
  /\ err' \in BOOLEAN
  /\ pc' = IF err' THEN "record" ELSE "reset"
  /\ UNCHANGED <<platform, attempt, stage, convNextID, convRegistry,
                 calls, convVars, wireVars, frontendVars>>

-----------------------------------------------------------------------------
(* The terminal that follows, see Relay: its writes and reads.               *)

StartRelay ==
  /\ pc = "passed"
  /\ pc' \in {"relay", "ended"}
  /\ UNCHANGED <<platform, attempt, pamVars, convVars, wireVars, frontendVars>>

WriteOutput ==
  /\ pc = "relay" /\ Len(toFrontend) < MaxOnTheWay
  /\ Send(Message("output"))
  /\ UNCHANGED <<platform, pc, attempt, pamVars, convVars, question, toGate,
                 frontendVars>>

(* At a frame it cannot open the pump ends, and reads no more. *)
ReadInput ==
  /\ pc = "relay" /\ toGate # <<>> /\ ~Damaged
  /\ toGate' = Tail(toGate)
  /\ UNCHANGED <<platform, pc, attempt, pamVars, convVars, question,
                 toFrontend, frontendVars>>

RelayEnds ==
  /\ pc = "relay"
  /\ pc' = "ended"
  /\ UNCHANGED <<platform, attempt, pamVars, convVars, wireVars, frontendVars>>

Process ==
  \/ SendBanner
  \/ CheckLockout
  \/ ReplyOk
  \/ RecordFailure
  \/ Register
  \/ PamStart
  \/ PamReturns
  \/ Unregister
  \/ CallbackFails
  \/ CallbackBegins
  \/ AskPassword
  \/ SendPrompt
  \/ ReadAnswer
  \/ RelayText
  \/ RefuseStyle
  \/ HandOver
  \/ LogonUser
  \/ StartRelay

-----------------------------------------------------------------------------
(* The frontend: main of testclient. *)

Leave == mode' = "left" /\ connected' = FALSE

(* Behind a bad length nothing is a frame any more. *)
Broken == toGate # <<>> /\ toGate[Len(toGate)] = OutOfBounds

(* A frame reaches the process as it was sent, or damaged. *)
Reply(frame) ==
  IF Broken THEN UNCHANGED toGate
  ELSE \E f \in {frame} \cup Damage : toGate' = Append(toGate, f)

FrontendReadsGate ==
  /\ mode = "gate" /\ toFrontend # <<>>
  /\ toFrontend' = Tail(toFrontend)
  /\ LET m == Head(toFrontend)
     IN  \/ /\ m.type = "info"
            /\ UNCHANGED <<toGate, frontendVars>>
         \/ /\ m.type = "prompt"
            /\ Reply(m.n)
            /\ UNCHANGED frontendVars
         \/ /\ m.type \in {"locked", "denied"}
            /\ Leave /\ UNCHANGED toGate
         \/ /\ m.type = "ok"
            /\ mode' = "raw" /\ UNCHANGED <<toGate, connected>>
  /\ UNCHANGED <<platform, pc, attempt, pamVars, convVars, question>>

FrontendReadsOutput ==
  /\ mode = "raw" /\ toFrontend # <<>>
  /\ toFrontend' = Tail(toFrontend)
  /\ UNCHANGED <<platform, pc, attempt, pamVars, convVars, question, toGate,
                 frontendVars>>

FrontendTypes ==
  /\ mode = "raw" /\ Len(toGate) < MaxOnTheWay
  /\ Reply(Keys)
  /\ UNCHANGED <<platform, pc, attempt, pamVars, convVars, question,
                 toFrontend, frontendVars>>

(* The end of the stream once the process is gone, its read deadline, or the
   operator. *)
FrontendLeaves ==
  /\ mode # "left"
  /\ Leave
  /\ toFrontend' = <<>>
  /\ UNCHANGED <<platform, pc, attempt, pamVars, convVars, question, toGate>>

Over == pc = "ended" /\ mode = "left" /\ UNCHANGED vars

Next ==
  \/ Process
  \/ WriteOutput
  \/ ReadInput
  \/ RelayEnds
  \/ FrontendReadsGate
  \/ FrontendReadsOutput
  \/ FrontendTypes
  \/ FrontendLeaves
  \/ Over

Spec == Init /\ [][Next]_vars

(* The process runs, PAM and LogonUser return, and the frontend reads what it
   is sent and answers what it is asked. *)
FairSpec == Spec /\ WF_vars(Process) /\ WF_vars(FrontendReadsGate)

-----------------------------------------------------------------------------

TypeOK ==
  /\ platform \in Platforms
  /\ pc \in {"banner", "check", "verify", "start", "pam", "message", "await",
             "unregister", "record", "reset", "passed", "relay", "ended"}
  /\ attempt \in 1..MaxAttempts
  /\ stage \in {"none", "authenticate", "account", "end"}
  /\ err \in BOOLEAN
  /\ convNextID \in 0..MaxAttempts
  /\ convRegistry \subseteq 1..MaxAttempts
  /\ calls \in 0..MaxCalls
  /\ Len(call) <= MaxBatch \/ platform = "windows"
  /\ Len(slots) <= Len(call)
  /\ question \in Nat
  /\ leaked \in Nat
  /\ \A i \in 1..Len(toFrontend) :
       toFrontend[i].type \in
         {"info", "prompt", "locked", "denied", "ok", "output"}
  /\ \A i \in 1..Len(toGate) : toGate[i] \in Damage \cup Nat
  /\ mode \in {"gate", "raw", "left"}
  /\ connected \in BOOLEAN

(* Every answer goes to the very prompt it was typed for, through failed
   callbacks, texts in between and further attempts (auth.go:68-77,
   auth_unix.go:167-183). *)
AnswersMatch == \A i \in 1..Len(slots) : slots[i].asked = slots[i].got

(* Both sides change from messages to the terminal at the same place: no output
   is taken for a message, no message for output, and no answer reaches the
   program, damaged frames or not (auth.go:46-54, 160; main.go:153-182;
   testclient/main.go:105-149). *)
NoCrossTalk ==
  /\ toFrontend # <<>> /\ mode = "gate" => Head(toFrontend).type # "output"
  /\ toFrontend # <<>> /\ mode = "raw" => Head(toFrontend).type = "output"
  /\ pc = "relay" => \A i \in 1..Len(toGate) : toGate[i] \notin 1..question

(* The copies that are lost are those of a callback that answered a prompt and
   then could not go on: the frontend has gone, the next answer arrived damaged,
   or the next message has an unknown style.  A whole exchange with a frontend
   that stays loses none, however many prompts it has (auth_unix.go:163-185). *)
CopiesLostWithExchange ==
  [][ leaked' # leaked =>
        /\ platform = "pam" /\ Len(slots) < Len(call)
        /\ \E i \in 1..Len(slots) : call[i] = "prompt"
        /\ \/ ~connected
           \/ call[Len(slots) + 1] = "prompt" /\ Damaged
           \/ call[Len(slots) + 1] = "unknown"
    ]_vars

Verifying == {"start", "pam", "message", "await", "unregister"}

(* As long as PAM may call back, pam_end included, the callback finds the
   conversation of this attempt and no other, and afterwards none is left
   (auth_unix.go:117-130, 195-227). *)
CallbackFindsConversation ==
  convRegistry = IF platform = "pam" /\ pc \in Verifying THEN {convNextID}
                 ELSE {}

(* A frontend that answers what it is asked sees the gate through: the two
   sides never wait for each other, unless the gate waits for the rest of a
   frame whose length is damaged (auth.go:68-77, 118-190). *)
DialogueEnds == <>(pc \in {"passed", "ended"} \/ Broken)

=============================================================================
