-------------------------- MODULE GateDialogue_proofs --------------------------
(***************************************************************************)
(* The safety properties of GateDialogue, proved for every number of       *)
(* attempts, callbacks, messages in a callback and frames on the way.      *)
(***************************************************************************)
EXTENDS GateDialogue, SequenceTheorems, FiniteSetTheorems, TLAPS

USE DialogueAssumption

-----------------------------------------------------------------------------
(* Frames in order on the way to the frontend. *)

Frames ==
  [type : {"info", "prompt", "locked", "denied", "ok", "output"}, n : Nat]

Answers == [asked : Nat, got : Nat]

(* Frames on the way to the gate: answers, keys, and what was damaged. *)
Arrivals == Damage \cup Nat

(* The messages after which the gate says nothing more. *)
LastWords == {Message("locked"), Message("denied"), Message("ok")}

(* What the gate says before them; behind a bad length it may ask again while
   its last question is unread. *)
Infos == {Message("info")}
Talk == {m \in Frames : m.type \in {"info", "prompt"}}
Voices == {Infos, Talk}

Only(s, voice) == \A i \in 1..Len(s) : s[i] \in voice

OnlyOutput(s) == \A i \in 1..Len(s) : s[i] = Message("output")

OnlyKeys(s) == \A i \in 1..Len(s) : s[i] \in Damage \cup {Keys}

(* Nothing to read, now or ever. *)
Quiet == {<<>>, <<OutOfBounds>>}

(* Nothing follows a prompt. *)
EndsWithQuestion(s, q) ==
  \A i \in 1..Len(s) : s[i] = Message("info") \/ (i = Len(s) /\ s[i] = Question(q))

(* One last word separates the messages from the output. *)
Parted(s, voice) ==
  \E k \in 1..Len(s) :
    /\ s[k] \in LastWords
    /\ \A i \in 1..Len(s) : i < k => s[i] \in voice
    /\ \A i \in 1..Len(s) : i > k => s[i] = Message("output")

LEMMA Pieces ==
  ASSUME NEW S, NEW s \in Seq(S)
  PROVE  /\ Len(s) \in Nat
         /\ \A x \in S : /\ Append(s, x) \in Seq(S)
                        /\ Len(Append(s, x)) = Len(s) + 1
                        /\ \A i \in 1..Len(s) : Append(s, x)[i] = s[i]
                        /\ Append(s, x)[Len(s) + 1] = x
         /\ 1..(Len(s) + 1) = 1..Len(s) \cup {Len(s) + 1}
         /\ s # <<>> => /\ Head(s) = s[1] /\ Head(s) \in S
                        /\ 1 \in 1..Len(s)
                        /\ Tail(s) \in Seq(S)
                        /\ Len(Tail(s)) = Len(s) - 1
                        /\ \A i \in 1..Len(Tail(s)) : Tail(s)[i] = s[i + 1]
<1>1. Len(s) \in Nat
  BY LenProperties
<1>2. \A x \in S : /\ Append(s, x) \in Seq(S)
                  /\ Len(Append(s, x)) = Len(s) + 1
                  /\ \A i \in 1..Len(s) : Append(s, x)[i] = s[i]
                  /\ Append(s, x)[Len(s) + 1] = x
  BY AppendProperties
<1>3. ASSUME s # <<>>
      PROVE  /\ Head(s) = s[1] /\ Head(s) \in S
             /\ 1 \in 1..Len(s)
             /\ Tail(s) \in Seq(S)
             /\ Len(Tail(s)) = Len(s) - 1
             /\ \A i \in 1..Len(Tail(s)) : Tail(s)[i] = s[i + 1]
  BY <1>3, HeadTailProperties, EmptySeq
<1>4. 1..(Len(s) + 1) = 1..Len(s) \cup {Len(s) + 1}
  BY <1>1
<1> QED BY <1>1, <1>2, <1>3, <1>4

LEMMA MessagesDiffer ==
  /\ \A m \in Frames : m.type \in {"info", "prompt", "locked", "denied", "ok", "output"}
  /\ \A c \in {"info", "locked", "denied", "ok", "output"} :
       Message(c) \in Frames /\ Message(c).type = c
  /\ \A q \in Nat : Question(q) \in Frames /\ Question(q).type = "prompt" /\ Question(q).n = q
BY DEF Frames, Message, Question

LEMMA VoicesDiffer ==
  /\ \A v \in Voices : Message("info") \in v /\ v \subseteq Talk
  /\ Infos \in Voices /\ Talk \in Voices /\ Infos \subseteq Talk
  /\ \A m \in Infos : m.type = "info"
  /\ \A m \in Talk : m \in Frames /\ m.type \in {"info", "prompt"}
  /\ \A q \in Nat : Question(q) \in Talk
BY MessagesDiffer DEF Voices, Infos, Talk

LEMMA Empty ==
  /\ <<>> \in Seq(Frames) /\ <<>> \in Seq(Arrivals) /\ <<>> \in Seq(Styles)
  /\ <<>> \in Seq(Answers) /\ Len(<<>>) = 0
  /\ \A v : Only(<<>>, v)
  /\ OnlyOutput(<<>>) /\ OnlyKeys(<<>>)
BY EmptySeq DEF Only, OnlyOutput, OnlyKeys

LEMMA Singles ==
  \A f \in Arrivals :
    /\ <<f>> \in Seq(Arrivals) /\ <<f>> # <<>>
    /\ Len(<<f>>) = 1 /\ <<f>>[1] = f
    /\ Head(<<f>>) = f /\ Tail(<<f>>) = <<>>
    /\ Append(<<>>, f) = <<f>>
OBVIOUS

LEMMA DamageIsNoNumber ==
  /\ Damage \subseteq Arrivals /\ Nat \subseteq Arrivals /\ Keys \in Nat
  /\ Unopenable \in Damage /\ OutOfBounds \in Damage
  /\ Unopenable # OutOfBounds
  /\ \A n \in Nat : n \notin Damage
BY DEF Arrivals, Damage, Unopenable, OutOfBounds, Keys

(* What a quiet wire holds: nothing to read, and no answer. *)
LEMMA QuietWire ==
  \A s \in Quiet :
    /\ s \in Seq(Arrivals) /\ OnlyKeys(s)
    /\ s # <<>> => Head(s) = OutOfBounds /\ s[Len(s)] = OutOfBounds
<1>1. <<OutOfBounds>> \in Seq(Arrivals) /\ Len(<<OutOfBounds>>) = 1
      /\ Head(<<OutOfBounds>>) = OutOfBounds /\ <<OutOfBounds>>[1] = OutOfBounds
  BY Singles, DamageIsNoNumber
<1>2. OnlyKeys(<<OutOfBounds>>)
  BY <1>1, DamageIsNoNumber DEF OnlyKeys
<1> QED BY <1>1, <1>2, Empty DEF Quiet

(* What the gate and the relay may append. *)
LEMMA Appending ==
  ASSUME NEW s \in Seq(Frames), NEW v \in Voices
  PROVE  /\ Only(s, v) => Only(Append(s, Message("info")), v)
         /\ Only(s, v) => \A m \in LastWords : Parted(Append(s, m), v)
         /\ Only(s, Talk) => \A q \in Nat : Only(Append(s, Question(q)), Talk)
         /\ Only(s, Infos) => \A q \in Nat : EndsWithQuestion(Append(s, Question(q)), q)
         /\ OnlyOutput(s) => OnlyOutput(Append(s, Message("output")))
         /\ Parted(s, v) => Parted(Append(s, Message("output")), v)
<1>1. ASSUME Only(s, v) PROVE Only(Append(s, Message("info")), v)
  BY <1>1, Pieces, MessagesDiffer, VoicesDiffer DEF Only
<1>2. ASSUME Only(s, v), NEW m \in LastWords PROVE Parted(Append(s, m), v)
  <2>1. m \in Frames
    BY MessagesDiffer DEF LastWords
  <2>2. /\ Len(s) \in Nat /\ Len(s) + 1 \in 1..Len(Append(s, m))
        /\ Append(s, m)[Len(s) + 1] = m
        /\ Len(Append(s, m)) = Len(s) + 1
        /\ \A i \in 1..Len(s) : Append(s, m)[i] \in v
    BY <1>2, <2>1, Pieces DEF Only
  <2> QED BY <2>2 DEF Parted
<1>3. ASSUME Only(s, Infos), NEW q \in Nat
      PROVE  EndsWithQuestion(Append(s, Question(q)), q)
  BY <1>3, Pieces, MessagesDiffer DEF Only, Infos, EndsWithQuestion
<1>4. ASSUME OnlyOutput(s) PROVE OnlyOutput(Append(s, Message("output")))
  BY <1>4, Pieces, MessagesDiffer DEF OnlyOutput
<1>5. ASSUME Parted(s, v) PROVE Parted(Append(s, Message("output")), v)
  <2> DEFINE r == Append(s, Message("output"))
  <2>1. /\ Len(s) \in Nat /\ Len(r) = Len(s) + 1
        /\ \A i \in 1..Len(s) : r[i] = s[i]
        /\ r[Len(s) + 1] = Message("output")
    BY Pieces, MessagesDiffer
  <2>2. PICK k \in 1..Len(s) :
          /\ s[k] \in LastWords
          /\ \A i \in 1..Len(s) : i < k => s[i] \in v
          /\ \A i \in 1..Len(s) : i > k => s[i] = Message("output")
    BY <1>5 DEF Parted
  <2> HIDE DEF r
  <2>3. /\ k \in 1..Len(r) /\ r[k] \in LastWords
        /\ \A i \in 1..Len(r) : i < k => r[i] \in v
        /\ \A i \in 1..Len(r) : i > k => r[i] = Message("output")
    BY <2>1, <2>2
  <2> QED BY <2>3 DEF Parted, r
<1>6. ASSUME Only(s, Talk), NEW q \in Nat
      PROVE  Only(Append(s, Question(q)), Talk)
  BY <1>6, Pieces, MessagesDiffer, VoicesDiffer DEF Only
<1> QED BY <1>1, <1>2, <1>3, <1>4, <1>5, <1>6

(* What the frontend finds at the head, and what it leaves. *)
LEMMA Reading ==
  ASSUME NEW s \in Seq(Frames), s # <<>>, NEW v \in Voices
  PROVE  /\ Only(s, v) => Head(s) \in v /\ Only(Tail(s), v)
         /\ OnlyOutput(s) => Head(s) = Message("output") /\ OnlyOutput(Tail(s))
         /\ \A q \in Nat : EndsWithQuestion(s, q) =>
              \/ Head(s) = Message("info") /\ EndsWithQuestion(Tail(s), q)
              \/ Head(s) = Question(q) /\ Only(Tail(s), Infos)
         /\ Parted(s, v) =>
              \/ Head(s) \in v /\ Parted(Tail(s), v)
              \/ Head(s) \in LastWords /\ OnlyOutput(Tail(s))
<1> DEFINE r == Tail(s)
<1>1. /\ Head(s) = s[1] /\ 1 \in 1..Len(s) /\ Len(s) \in Nat
      /\ Len(r) = Len(s) - 1
      /\ \A i \in 1..Len(r) : i + 1 \in 1..Len(s) /\ r[i] = s[i + 1]
  BY Pieces
<1> HIDE DEF r
<1>2. ASSUME Only(s, v) PROVE Head(s) \in v /\ Only(r, v)
  BY <1>1, <1>2 DEF Only
<1>3. ASSUME OnlyOutput(s) PROVE Head(s) = Message("output") /\ OnlyOutput(r)
  BY <1>1, <1>3 DEF OnlyOutput
<1>4. ASSUME NEW q \in Nat, EndsWithQuestion(s, q)
      PROVE  \/ Head(s) = Message("info") /\ EndsWithQuestion(r, q)
             \/ Head(s) = Question(q) /\ Only(r, Infos)
  <2>1. CASE s[1] = Message("info")
    <3>1. ASSUME NEW i \in 1..Len(r)
          PROVE  r[i] = Message("info") \/ (i = Len(r) /\ r[i] = Question(q))
      <4>1. s[i + 1] = Message("info") \/ (i + 1 = Len(s) /\ s[i + 1] = Question(q))
        BY <1>1, <1>4 DEF EndsWithQuestion
      <4> QED BY <1>1, <4>1
    <3> QED BY <1>1, <2>1, <3>1 DEF EndsWithQuestion
  <2>2. CASE 1 = Len(s) /\ s[1] = Question(q)
    <3>1. Len(s) = 1 /\ Len(r) = Len(s) - 1
      BY <1>1, <2>2
    <3>2. Len(r) = 0
      BY <3>1
    <3>3. Only(r, Infos)
      BY <3>2 DEF Only
    <3> QED BY <1>1, <2>2, <3>3
  <2> QED BY <1>1, <1>4, <2>1, <2>2 DEF EndsWithQuestion
<1>5. ASSUME Parted(s, v)
      PROVE  \/ Head(s) \in v /\ Parted(r, v)
             \/ Head(s) \in LastWords /\ OnlyOutput(r)
  <2>1. PICK k \in 1..Len(s) :
          /\ s[k] \in LastWords
          /\ \A i \in 1..Len(s) : i < k => s[i] \in v
          /\ \A i \in 1..Len(s) : i > k => s[i] = Message("output")
    BY <1>5 DEF Parted
  <2>2. CASE k = 1
    BY <1>1, <2>1, <2>2 DEF OnlyOutput
  <2>3. CASE k # 1
    <3>1. /\ k - 1 \in 1..Len(r) /\ r[k - 1] \in LastWords
          /\ \A i \in 1..Len(r) : i < k - 1 => r[i] \in v
          /\ \A i \in 1..Len(r) : i > k - 1 => r[i] = Message("output")
      <4>1. k \in Nat /\ k > 1 /\ k - 1 \in 1..Len(r) /\ (k - 1) + 1 = k
        BY <1>1, <2>3
      <4>2. r[k - 1] = s[k]
        BY <1>1, <4>1
      <4>3. ASSUME NEW i \in 1..Len(r)
            PROVE  /\ i < k - 1 => r[i] \in v
                   /\ i > k - 1 => r[i] = Message("output")
        <5>1. i + 1 \in 1..Len(s) /\ r[i] = s[i + 1] /\ i \in Nat
          BY <1>1
        <5>2. (i < k - 1 => i + 1 < k) /\ (i > k - 1 => i + 1 > k)
          BY <4>1, <5>1
        <5> QED BY <2>1, <5>1, <5>2
      <4> QED BY <2>1, <4>1, <4>2, <4>3
    <3>2. Parted(r, v)
      BY <3>1 DEF Parted
    <3> QED BY <1>1, <2>1, <2>3, <3>2
  <2> QED BY <2>2, <2>3
<1> QED BY <1>2, <1>3, <1>4, <1>5 DEF r

-----------------------------------------------------------------------------
(* The inductive invariant. *)

(* Where the gate still has something to say and waits for nothing. *)
Speaking ==
  {"banner", "check", "verify", "start", "pam", "message", "unregister",
   "record", "reset"}

Scalars ==
  /\ platform \in Platforms
  /\ pc \in Speaking \cup {"await", "passed", "relay", "ended"}
  /\ attempt \in 1..MaxAttempts
  /\ stage \in {"none", "authenticate", "account", "end"}
  /\ err \in BOOLEAN
  /\ convNextID \in 0..MaxAttempts
  /\ calls \in 0..MaxCalls
  /\ question \in Nat
  /\ mode \in {"gate", "raw", "left"}
  /\ connected \in BOOLEAN

SequencesTyped ==
  /\ call \in Seq(Styles)
  /\ slots \in Seq(Answers)
  /\ IF platform = "windows" THEN Len(call) <= 1 ELSE Len(call) <= MaxBatch
  /\ Len(slots) <= Len(call)
  /\ pc = "await" => Len(slots) < Len(call) /\ call[Len(slots) + 1] = "prompt"
  /\ toFrontend \in Seq(Frames)
  /\ toGate \in Seq(Arrivals)

(* One handle per attempt. *)
Handles ==
  /\ convNextID <= attempt
  /\ pc \in {"banner", "check", "verify"} => convNextID < attempt
  /\ pc \in {"start", "pam", "unregister"} => platform = "pam"
  /\ platform = "pam" /\ pc \in Verifying => convNextID >= 1
  /\ CallbackFindsConversation

(* A response answers the message of its place, and a text has none. *)
Aligned ==
  /\ leaked \in Nat
  /\ \A i \in 1..Len(slots) : Answered(i) => call[i] = "prompt"

(* At most one prompt is unanswered, and nothing else is on the way to the
   gate before its last word, unless a bad length lies there for good. *)
Cut == toGate = <<OutOfBounds>>

Voice == IF Cut THEN Talk ELSE Infos

Wire ==
  /\ connected <=> mode # "left"
  /\ pc \in Speaking \cup {"await"} => mode # "raw"
  /\ pc \in Speaking /\ mode = "gate" => Only(toFrontend, Voice)
  /\ pc = "await" =>
       \/ /\ toGate = <<>>
          /\ mode = "gate" => EndsWithQuestion(toFrontend, question)
       \/ /\ toGate \in {<<question>>, <<Unopenable>>, <<OutOfBounds>>}
          /\ mode = "gate" => Only(toFrontend, Voice)
  /\ pc \in {"passed", "relay", "ended"} =>
       /\ mode = "gate" => Parted(toFrontend, Voice)
       /\ mode = "raw" => OnlyOutput(toFrontend)
  /\ pc \in Speaking \/ (pc # "await" /\ mode = "gate") => toGate \in Quiet
  /\ pc \in {"passed", "relay"} => OnlyKeys(toGate)

GateInv ==
  /\ Scalars
  /\ SequencesTyped
  /\ Handles
  /\ Aligned
  /\ AnswersMatch
  /\ Wire

LEMMA TypesFollow ==
  ASSUME Scalars, SequencesTyped, Handles, Aligned
  PROVE  TypeOK
<1>1. \A i \in 1..Len(toFrontend) : toFrontend[i].type \in
        {"info", "prompt", "locked", "denied", "ok", "output"}
  BY ElementOfSeq, MessagesDiffer DEF SequencesTyped
<1>2. \A i \in 1..Len(toGate) : toGate[i] \in Damage \cup Nat
  BY ElementOfSeq DEF SequencesTyped, Arrivals
<1>3. convRegistry \subseteq 1..MaxAttempts
  <2>1. CASE platform = "pam" /\ pc \in Verifying
    BY <2>1 DEF Handles, CallbackFindsConversation, Scalars
  <2>2. CASE ~(platform = "pam" /\ pc \in Verifying)
    BY <2>2 DEF Handles, CallbackFindsConversation
  <2> QED BY <2>1, <2>2
<1> QED BY <1>1, <1>2, <1>3 DEF TypeOK, Scalars, SequencesTyped, Aligned, Speaking

LEMMA Initially == Init => GateInv
<1> SUFFICES ASSUME Init PROVE GateInv
  OBVIOUS
<1>1. Scalars
  <2>1. /\ attempt \in 1..MaxAttempts /\ convNextID \in 0..MaxAttempts
        /\ calls \in 0..MaxCalls
    BY DEF Init
  <2> QED BY <2>1 DEF Init, Scalars, Speaking
<1>2. SequencesTyped /\ Aligned /\ AnswersMatch
  BY Empty DEF Init, SequencesTyped, Aligned, AnswersMatch
<1>3. Handles
  BY DEF Init, Handles, CallbackFindsConversation, Verifying
<1>4. Wire
  BY Empty DEF Init, Wire, Quiet, Speaking
<1> QED BY <1>1, <1>2, <1>3, <1>4 DEF GateInv

(* A frame sent is appended, or lost if the frontend has left. *)
LEMMA Sent ==
  ASSUME SequencesTyped, Wire, pc \in Speaking, NEW m \in Frames, Try(m)
  PROVE  /\ toFrontend' \in Seq(Frames)
         /\ mode = "gate" =>
              /\ m = Message("info") => Only(toFrontend', Voice)
              /\ m \in LastWords => Parted(toFrontend', Voice)
              /\ \A q \in Nat : m = Question(q) =>
                   IF Cut THEN Only(toFrontend', Voice)
                   ELSE EndsWithQuestion(toFrontend', q)
<1>1. Append(toFrontend, m) \in Seq(Frames) /\ toFrontend \in Seq(Frames)
  BY Pieces DEF SequencesTyped
<1>2. toFrontend' \in Seq(Frames)
  BY <1>1 DEF Try, Send, SendFails
<1>3. ASSUME mode = "gate"
      PROVE  toFrontend' = Append(toFrontend, m) /\ Only(toFrontend, Voice)
  BY <1>3 DEF Wire, Try, Send, SendFails
<1>4. Voice \in Voices /\ (Cut => Voice = Talk) /\ (~Cut => Voice = Infos)
  BY VoicesDiffer DEF Voice
<1> QED BY <1>1, <1>2, <1>3, <1>4, Appending

(* A response is added for the message at hand. *)
LEMMA Responding ==
  ASSUME SequencesTyped, AnswersMatch, Aligned,
         NEW r \in Answers, r.asked = r.got,
         r # NoAnswer => call[Len(slots) + 1] = "prompt",
         slots' = Append(slots, r), UNCHANGED <<call, leaked>>
  PROVE  /\ slots' \in Seq(Answers) /\ Len(slots') = Len(slots) + 1
         /\ AnswersMatch' /\ Aligned'
<1>1. /\ slots' \in Seq(Answers) /\ Len(slots') = Len(slots) + 1
      /\ Len(slots) \in Nat
      /\ \A i \in 1..Len(slots) : slots'[i] = slots[i]
      /\ slots'[Len(slots) + 1] = r
      /\ 1..(Len(slots) + 1) = 1..Len(slots) \cup {Len(slots) + 1}
  BY Pieces DEF SequencesTyped
<1>2. AnswersMatch'
  BY <1>1 DEF AnswersMatch
<1>3. Aligned'
  <2>1. ASSUME NEW i \in 1..Len(slots'), slots'[i] # NoAnswer
        PROVE  call[i] = "prompt"
    <3>1. CASE i \in 1..Len(slots)
      BY <1>1, <2>1, <3>1 DEF Aligned, Answered
    <3>2. CASE i = Len(slots) + 1
      BY <1>1, <2>1, <3>2
    <3> QED BY <1>1, <3>1, <3>2
  <2> QED BY <2>1 DEF Aligned, Answered
<1> QED BY <1>1, <1>2, <1>3

(* Only answers are lost when the callback gives up. *)
LEMMA GivingUp ==
  ASSUME SequencesTyped, Aligned, GiveUp
  PROVE  /\ slots' = <<>> /\ slots' \in Seq(Answers) /\ Len(slots') = 0
         /\ AnswersMatch' /\ Aligned'
         /\ leaked' # leaked => \E i \in 1..Len(slots) : call[i] = "prompt"
<1> DEFINE lost == {i \in 1..Len(slots) : Answered(i)}
<1>1. slots' = <<>> /\ leaked' = leaked + Cardinality(lost)
  BY DEF GiveUp
<1>2. IsFiniteSet(1..Len(slots))
  BY LenProperties, FS_Interval DEF SequencesTyped
<1>3. lost \in SUBSET (1..Len(slots))
  OBVIOUS
<1> HIDE DEF lost
<1>4. IsFiniteSet(lost) /\ Cardinality(lost) \in Nat
  BY <1>2, <1>3, FS_Subset, FS_CardinalityType
<1>5. Len(slots') = 0 /\ slots' \in Seq(Answers)
  BY <1>1, Empty
<1>6. AnswersMatch'
  BY <1>5 DEF AnswersMatch
<1>7. leaked' \in Nat
  BY <1>1, <1>4 DEF Aligned
<1>8. Aligned'
  BY <1>5, <1>7 DEF Aligned
<1>9. ASSUME leaked' # leaked PROVE \E i \in 1..Len(slots) : call[i] = "prompt"
  <2>1. lost # {}
    BY <1>1, <1>9, FS_EmptySet DEF Aligned
  <2> QED BY <2>1 DEF lost, Aligned
<1> QED BY <1>1, <1>5, <1>6, <1>8, <1>9

LEMMA GateLoopKeepsInvariant ==
  ASSUME GateInv, SendBanner \/ CheckLockout \/ ReplyOk \/ RecordFailure
  PROVE  GateInv'
<1> USE DEF GateInv, pamVars, convVars, wireVars, frontendVars
<1>1. CASE SendBanner
  <2>0. /\ toFrontend' \in Seq(Frames)
        /\ mode = "gate" => Only(toFrontend', Voice)
        /\ pc' = "ended" => ~connected
    <3>1. /\ Try(Message("info")) /\ pc \in Speaking
          /\ pc' = "ended" => ~connected
      BY <1>1 DEF SendBanner, Try, SendFails, Speaking
    <3> QED BY <3>1, Sent, MessagesDiffer
  <2>1. Scalars'
    BY <1>1, <2>0 DEF Scalars, Handles, Speaking, SequencesTyped, Wire, SendBanner
  <2>2. SequencesTyped'
    BY <1>1, <2>0 DEF SequencesTyped, AllHandled, SendBanner
  <2>3. Handles'
    BY <1>1, <2>0 DEF Handles, CallbackFindsConversation, Verifying, Scalars, Speaking, SendBanner
  <2>4. Aligned'
    BY <1>1, <2>0 DEF Aligned, Answered, SendBanner
  <2>5. AnswersMatch'
    BY <1>1, <2>0 DEF AnswersMatch, SendBanner
  <2>6. Wire'
    BY <1>1, <2>0 DEF Wire, Cut, Voice, Speaking, Scalars, SendBanner
  <2> QED BY <2>1, <2>2, <2>3, <2>4, <2>5, <2>6
<1>2. CASE CheckLockout
  <2>0. /\ toFrontend' \in Seq(Frames)
        /\ mode = "gate" => IF pc' = "ended" THEN Parted(toFrontend', Voice)
                            ELSE Only(toFrontend', Voice)
    <3>1. pc = "check" /\ pc \in Speaking
      BY <1>2 DEF CheckLockout, Speaking
    <3>2. CASE Try(Message("locked")) /\ pc' = "ended"
      BY <3>1, <3>2, Sent, MessagesDiffer DEF LastWords
    <3>3. CASE pc' = "verify" /\ UNCHANGED toFrontend
      BY <3>1, <3>3 DEF SequencesTyped, Wire
    <3> QED BY <1>2, <3>2, <3>3 DEF CheckLockout
  <2>1. Scalars'
    BY <1>2, <2>0 DEF Scalars, Handles, Speaking, SequencesTyped, Wire, CheckLockout
  <2>2. SequencesTyped'
    BY <1>2, <2>0 DEF SequencesTyped, AllHandled, CheckLockout
  <2>3. Handles'
    BY <1>2, <2>0 DEF Handles, CallbackFindsConversation, Verifying, Scalars, Speaking, CheckLockout
  <2>4. Aligned'
    BY <1>2, <2>0 DEF Aligned, Answered, CheckLockout
  <2>5. AnswersMatch'
    BY <1>2, <2>0 DEF AnswersMatch, CheckLockout
  <2>6. Wire'
    BY <1>2, <2>0 DEF Wire, Cut, Voice, Speaking, Scalars, CheckLockout
  <2> QED BY <2>1, <2>2, <2>3, <2>4, <2>5, <2>6
<1>3. CASE ReplyOk
  <2>0. toFrontend' \in Seq(Frames) /\ (mode = "gate" => Parted(toFrontend', Voice))
    <3>1. Try(Message("ok")) /\ pc \in Speaking
      BY <1>3 DEF ReplyOk, Try, Speaking
    <3> QED BY <3>1, Sent, MessagesDiffer DEF LastWords
  <2>1. Scalars'
    BY <1>3, <2>0 DEF Scalars, Handles, Speaking, SequencesTyped, Wire, ReplyOk
  <2>2. SequencesTyped'
    BY <1>3, <2>0 DEF SequencesTyped, AllHandled, ReplyOk
  <2>3. Handles'
    BY <1>3, <2>0 DEF Handles, CallbackFindsConversation, Verifying, Scalars, Speaking, ReplyOk
  <2>4. Aligned'
    BY <1>3, <2>0 DEF Aligned, Answered, ReplyOk
  <2>5. AnswersMatch'
    BY <1>3, <2>0 DEF AnswersMatch, ReplyOk
  <2>6. Wire'
    BY <1>3, <2>0, QuietWire DEF Wire, Cut, Voice, Speaking, Scalars, ReplyOk
  <2> QED BY <2>1, <2>2, <2>3, <2>4, <2>5, <2>6
<1>4. CASE RecordFailure
  <2>0. /\ toFrontend' \in Seq(Frames)
        /\ mode = "gate" => IF pc' = "ended" THEN Parted(toFrontend', Voice)
                            ELSE Only(toFrontend', Voice)
    <3>1. pc = "record" /\ pc \in Speaking
      BY <1>4 DEF RecordFailure, Speaking
    <3>2. CASE Try(Message("denied")) /\ pc' = "ended"
      BY <3>1, <3>2, Sent, MessagesDiffer DEF LastWords
    <3>3. CASE pc' = "check" /\ Try(Message("info"))
      BY <3>1, <3>3, Sent, MessagesDiffer
    <3> QED BY <1>4, <3>2, <3>3 DEF RecordFailure
  <2>1. Scalars'
    BY <1>4, <2>0 DEF Scalars, Handles, Speaking, SequencesTyped, Wire, RecordFailure, LastAttempt
  <2>2. SequencesTyped'
    BY <1>4, <2>0 DEF SequencesTyped, AllHandled, RecordFailure, LastAttempt
  <2>3. Handles'
    BY <1>4, <2>0 DEF Handles, CallbackFindsConversation, Verifying, Scalars, Speaking, RecordFailure, LastAttempt
  <2>4. Aligned'
    BY <1>4, <2>0 DEF Aligned, Answered, RecordFailure, LastAttempt
  <2>5. AnswersMatch'
    BY <1>4, <2>0 DEF AnswersMatch, RecordFailure, LastAttempt
  <2>6. Wire'
    BY <1>4, <2>0 DEF Wire, Cut, Voice, Speaking, Scalars, RecordFailure, LastAttempt
  <2> QED BY <2>1, <2>2, <2>3, <2>4, <2>5, <2>6
<1> QED BY <1>1, <1>2, <1>3, <1>4

LEMMA AccountKeepsInvariant ==
  ASSUME GateInv, Register \/ PamStart \/ PamReturns \/ Unregister
  PROVE  GateInv'
<1> USE DEF GateInv, pamVars, convVars, wireVars, frontendVars
<1>1. CASE Register
  <2>1. Scalars'
    <3>1. convNextID' \in 0..MaxAttempts /\ calls' \in 0..MaxCalls
      BY <1>1 DEF Register, Scalars, Handles
    <3> QED BY <1>1, <3>1 DEF Register, Scalars, Speaking
  <2>2. SequencesTyped'
    BY <1>1 DEF SequencesTyped, AllHandled, Register
  <2>3. Handles'
    BY <1>1 DEF Handles, CallbackFindsConversation, Verifying, Scalars, Speaking, Register
  <2>4. Aligned'
    BY <1>1 DEF Aligned, Answered, Register
  <2>5. AnswersMatch'
    BY <1>1 DEF AnswersMatch, Register
  <2>6. Wire'
    BY <1>1 DEF Wire, Cut, Voice, Speaking, Scalars, Register
  <2> QED BY <2>1, <2>2, <2>3, <2>4, <2>5, <2>6
<1>2. CASE PamStart
  <2>1. Scalars'
    BY <1>2 DEF Scalars, Handles, Speaking, SequencesTyped, Wire, PamStart
  <2>2. SequencesTyped'
    BY <1>2 DEF SequencesTyped, AllHandled, PamStart
  <2>3. Handles'
    BY <1>2 DEF Handles, CallbackFindsConversation, Verifying, Scalars, Speaking, PamStart
  <2>4. Aligned'
    BY <1>2 DEF Aligned, Answered, PamStart
  <2>5. AnswersMatch'
    BY <1>2 DEF AnswersMatch, PamStart
  <2>6. Wire'
    BY <1>2 DEF Wire, Cut, Voice, Speaking, Scalars, PamStart
  <2> QED BY <2>1, <2>2, <2>3, <2>4, <2>5, <2>6
<1>3. CASE PamReturns
  <2>1. Scalars'
    BY <1>3 DEF Scalars, Handles, Speaking, SequencesTyped, Wire, PamReturns
  <2>2. SequencesTyped'
    BY <1>3 DEF SequencesTyped, AllHandled, PamReturns
  <2>3. Handles'
    BY <1>3 DEF Handles, CallbackFindsConversation, Verifying, Scalars, Speaking, PamReturns
  <2>4. Aligned'
    BY <1>3 DEF Aligned, Answered, PamReturns
  <2>5. AnswersMatch'
    BY <1>3 DEF AnswersMatch, PamReturns
  <2>6. Wire'
    BY <1>3 DEF Wire, Cut, Voice, Speaking, Scalars, PamReturns
  <2> QED BY <2>1, <2>2, <2>3, <2>4, <2>5, <2>6
<1>4. CASE Unregister
  <2>1. Scalars'
    BY <1>4 DEF Scalars, Handles, Speaking, SequencesTyped, Wire, Unregister
  <2>2. SequencesTyped'
    BY <1>4 DEF SequencesTyped, AllHandled, Unregister
  <2>3. Handles'
    BY <1>4 DEF Handles, CallbackFindsConversation, Verifying, Scalars, Speaking, Unregister
  <2>4. Aligned'
    BY <1>4 DEF Aligned, Answered, Unregister
  <2>5. AnswersMatch'
    BY <1>4 DEF AnswersMatch, Unregister
  <2>6. Wire'
    BY <1>4 DEF Wire, Cut, Voice, Speaking, Scalars, Unregister
  <2> QED BY <2>1, <2>2, <2>3, <2>4, <2>5, <2>6
<1> QED BY <1>1, <1>2, <1>3, <1>4

LEMMA ConversationKeepsInvariant ==
  ASSUME GateInv, CallbackFails \/ CallbackBegins \/ AskPassword \/ SendPrompt
          \/ ReadAnswer \/ RelayText \/ RefuseStyle
          \/ HandOver \/ LogonUser
  PROVE  GateInv'
<1> USE DEF GateInv, pamVars, convVars, wireVars, frontendVars
<1>1. CASE CallbackFails
  <2>1. Scalars'
    BY <1>1 DEF Scalars, Handles, Speaking, SequencesTyped, Wire, CallbackFails
  <2>2. SequencesTyped'
    BY <1>1 DEF SequencesTyped, AllHandled, CallbackFails
  <2>3. Handles'
    BY <1>1 DEF Handles, CallbackFindsConversation, Verifying, Scalars, Speaking, CallbackFails
  <2>4. Aligned'
    BY <1>1 DEF Aligned, Answered, CallbackFails
  <2>5. AnswersMatch'
    BY <1>1 DEF AnswersMatch, CallbackFails
  <2>6. Wire'
    BY <1>1 DEF Wire, Cut, Voice, Speaking, Scalars, CallbackFails
  <2> QED BY <2>1, <2>2, <2>3, <2>4, <2>5, <2>6
<1>2. CASE CallbackBegins
  <2>1. Scalars'
    BY <1>2 DEF Scalars, Handles, Speaking, SequencesTyped, Wire, CallbackBegins
  <2>2. SequencesTyped'
    <3>1. PICK n \in 1..MaxBatch : call' \in [1..n -> Styles]
      BY <1>2 DEF CallbackBegins
    <3>2. call' \in Seq(Styles) /\ Len(call') = n /\ n \in Nat /\ n <= MaxBatch
      BY <3>1
    <3>3. platform = "pam" /\ UNCHANGED platform /\ pc' = "message" /\ slots' = <<>>
      BY <1>2 DEF CallbackBegins, Handles
    <3>4. UNCHANGED <<toFrontend, toGate>>
      BY <1>2 DEF CallbackBegins
    <3> QED BY <3>2, <3>3, <3>4, Empty DEF SequencesTyped
  <2>3. Handles'
    BY <1>2 DEF Handles, CallbackFindsConversation, Verifying, Scalars, Speaking, CallbackBegins
  <2>4. Aligned'
    BY <1>2, Empty DEF Aligned, CallbackBegins
  <2>5. AnswersMatch'
    BY <1>2 DEF AnswersMatch, CallbackBegins
  <2>6. Wire'
    BY <1>2 DEF Wire, Cut, Voice, Speaking, Scalars, CallbackBegins
  <2> QED BY <2>1, <2>2, <2>3, <2>4, <2>5, <2>6
<1>3. CASE AskPassword
  <2>1. Scalars'
    BY <1>3 DEF Scalars, Handles, Speaking, SequencesTyped, Wire, AskPassword
  <2>2. SequencesTyped'
    <3>1. call' \in Seq(Styles) /\ Len(call') = 1
      BY <1>3 DEF AskPassword, Styles
    <3> QED BY <1>3, <3>1, Empty DEF AskPassword, SequencesTyped
  <2>3. Handles'
    BY <1>3 DEF Handles, CallbackFindsConversation, Verifying, Scalars, Speaking, AskPassword
  <2>4. Aligned'
    BY <1>3, Empty DEF Aligned, AskPassword
  <2>5. AnswersMatch'
    BY <1>3 DEF AnswersMatch, AskPassword
  <2>6. Wire'
    BY <1>3 DEF Wire, Cut, Voice, Speaking, Scalars, AskPassword
  <2> QED BY <2>1, <2>2, <2>3, <2>4, <2>5, <2>6
<1>4. CASE SendPrompt
  <2>0. /\ toFrontend' \in Seq(Frames)
        /\ mode = "gate" /\ pc' = "await" =>
             IF Cut THEN Only(toFrontend', Voice)
             ELSE EndsWithQuestion(toFrontend', question')
        /\ pc' # "await" => ~connected
    <3>1. /\ Try(Question(question + 1)) /\ pc \in Speaking
          /\ pc' = "await" => question' = question + 1
          /\ pc' # "await" => ~connected
      BY <1>4 DEF SendPrompt, NextMessage, Speaking, Try, SendFails, GiveUp
    <3>2. question + 1 \in Nat
      BY DEF Scalars
    <3> QED BY <3>1, <3>2, Sent, MessagesDiffer
  <2>7. /\ UNCHANGED <<slots, leaked>> /\ pc' = "await"
           /\ Len(slots) < Len(call) /\ call[Len(slots) + 1] = "prompt"
        \/ /\ slots' = <<>> /\ slots' \in Seq(Answers) /\ Len(slots') = 0
           /\ AnswersMatch' /\ Aligned' /\ pc' # "await"
    <3>1. Len(slots) \in Nat /\ Len(call) \in Nat
      BY LenProperties DEF SequencesTyped
    <3>2. Len(slots) < Len(call) /\ call[Len(slots) + 1] = "prompt"
      BY <1>4, <3>1 DEF SendPrompt, NextMessage, AllHandled, SequencesTyped
    <3>3. ASSUME GiveUp PROVE pc' # "await"
      BY <3>3 DEF GiveUp
    <3> QED BY <1>4, <3>2, <3>3, GivingUp DEF SendPrompt
  <2>1. Scalars'
    <3>1. err' \in BOOLEAN
          /\ pc' \in {"await", "pam", "record"}
      BY <1>4, <2>0 DEF Scalars, SendPrompt, GiveUp
    <3>2. question' \in Nat
      BY <1>4, <2>0 DEF Scalars, SendPrompt
    <3> QED BY <1>4, <2>0, <3>1, <3>2 DEF Scalars, Speaking, SendPrompt
  <2>2. SequencesTyped'
    <3>1. Len(call) \in Nat /\ UNCHANGED <<platform, call, toGate>>
      BY <1>4, LenProperties DEF SequencesTyped, SendPrompt
    <3> QED BY <2>0, <2>7, <3>1 DEF SequencesTyped
  <2>3. Handles'
    BY <1>4, <2>0 DEF Handles, CallbackFindsConversation, Verifying, Scalars, Speaking, SendPrompt, GiveUp, NextMessage
  <2>4. Aligned'
    BY <1>4, <2>7 DEF Aligned, Answered, SendPrompt
  <2>5. AnswersMatch'
    BY <2>7 DEF AnswersMatch
  <2>6. Wire'
    <3>1. /\ pc \in Speaking /\ toGate \in Quiet /\ UNCHANGED <<mode, connected, toGate>>
          /\ pc' \in Speaking \cup {"await"} /\ mode # "raw"
          /\ connected <=> mode # "left"
      BY <1>4, <2>0 DEF Wire, Scalars, Speaking, SendPrompt, GiveUp, NextMessage
    <3>2. CASE pc' = "await"
      BY <2>0, <3>1, <3>2 DEF Wire, Cut, Voice, Quiet, Speaking
    <3>3. CASE pc' # "await"
      BY <2>0, <3>1, <3>3 DEF Wire, Cut, Voice, Speaking
    <3> QED BY <3>2, <3>3
  <2> QED BY <2>1, <2>2, <2>3, <2>4, <2>5, <2>6
<1>5. CASE ReadAnswer
  <2>0. \/ /\ toGate = <<question>> /\ toGate' = <<>>
           /\ slots' = Append(slots, [asked |-> question, got |-> question])
           /\ pc' = "message" /\ UNCHANGED <<leaked, err>>
        \/ /\ GiveUp /\ toGate' = <<>>
           /\ connected => toGate = <<Unopenable>>
        \/ GiveUp /\ toGate = <<OutOfBounds>> /\ toGate' = <<OutOfBounds>>
    <3>1. /\ question \in Arrivals /\ question \notin Damage
          /\ Unopenable \in Arrivals /\ OutOfBounds \in Arrivals
          /\ Unopenable \in Damage /\ OutOfBounds \in Damage
          /\ Unopenable # OutOfBounds
      BY DamageIsNoNumber DEF Scalars
    <3>2. \/ toGate = <<>> \/ toGate = <<question>> \/ toGate = <<Unopenable>>
          \/ toGate = <<OutOfBounds>>
      BY <1>5 DEF ReadAnswer, Wire
    <3>3. CASE toGate # <<>> /\ ~Damaged /\ toGate' = Tail(toGate)
               /\ slots' = Append(slots, [asked |-> question, got |-> Head(toGate)])
               /\ pc' = "message" /\ UNCHANGED <<leaked, err>>
      BY <3>1, <3>2, <3>3, Singles DEF Damaged
    <3>4. CASE ~connected /\ GiveUp /\ toGate' = <<>>
      BY <3>4
    <3>5. CASE connected /\ Damaged /\ GiveUp
               /\ toGate' = IF Head(toGate) = Unopenable THEN Tail(toGate) ELSE toGate
      BY <3>1, <3>2, <3>5, Singles DEF Damaged
    <3>6. ReadAnswer =>
            \/ toGate # <<>> /\ ~Damaged /\ toGate' = Tail(toGate)
               /\ slots' = Append(slots, [asked |-> question, got |-> Head(toGate)])
               /\ pc' = "message" /\ UNCHANGED <<leaked, err>>
            \/ ~connected /\ GiveUp /\ toGate' = <<>>
            \/ connected /\ Damaged /\ GiveUp
               /\ toGate' = IF Head(toGate) = Unopenable THEN Tail(toGate) ELSE toGate
      BY DEF ReadAnswer, ReadFails
    <3> QED BY <1>5, <3>3, <3>4, <3>5, <3>6
  <2>7. /\ pc = "await" /\ pc' \in {"message", "pam", "record"}
        /\ UNCHANGED <<call, platform, toFrontend, mode, connected, question>>
    BY <1>5, <2>0 DEF ReadAnswer, GiveUp
  <2>8. [asked |-> question, got |-> question] \in Answers
    BY DEF Answers, Scalars
  <2>9. /\ slots' \in Seq(Answers) /\ Len(slots') <= Len(call)
        /\ AnswersMatch' /\ Aligned'
    <3>1. Len(slots) \in Nat /\ Len(call) \in Nat /\ Len(slots) < Len(call)
      BY <2>7, LenProperties DEF SequencesTyped
    <3>2. CASE GiveUp
      BY <3>1, <3>2, GivingUp
    <3>3. CASE slots' = Append(slots, [asked |-> question, got |-> question])
                 /\ UNCHANGED leaked
      <4>1. call[Len(slots) + 1] = "prompt"
        BY <2>7, <3>1 DEF SequencesTyped
      <4> QED BY <2>7, <2>8, <3>1, <3>3, <4>1, Responding
    <3> QED BY <2>0, <3>2, <3>3
  <2>1. Scalars'
    BY <1>5, <2>0 DEF Scalars, Speaking, ReadAnswer, GiveUp
  <2>2. SequencesTyped'
    <3>1. toGate' \in Seq(Arrivals)
      BY <2>0, Empty, Singles, DamageIsNoNumber
    <3> QED BY <2>7, <2>9, <3>1 DEF SequencesTyped
  <2>3. Handles'
    BY <1>5, <2>0 DEF Handles, CallbackFindsConversation, Verifying, Scalars, Speaking, ReadAnswer, GiveUp
  <2>4. Aligned' /\ AnswersMatch'
    BY <2>9
  <2>6. Wire'
    <3>1. toGate' \in Quiet /\ pc' \in Speaking
      BY <2>0, <2>7 DEF Quiet, Speaking
    <3>2. ASSUME mode = "gate" PROVE Only(toFrontend, Voice')
      <4>1. connected /\ question \notin Damage
        BY <3>2, DamageIsNoNumber DEF Wire, Scalars
      <4>2. toGate # <<>> /\ Only(toFrontend, Voice)
        BY <2>0, <2>7, <3>2, <4>1, Singles, DamageIsNoNumber DEF Wire
      <4>3. Voice' = Voice
        BY <2>0, <4>1, Singles, DamageIsNoNumber DEF Voice, Cut
      <4> QED BY <4>2, <4>3
    <3> QED BY <2>7, <3>1, <3>2 DEF Wire, Speaking
  <2> QED BY <2>1, <2>2, <2>3, <2>4, <2>6
<1>6. CASE RelayText
  <2>0. /\ toFrontend' \in Seq(Frames)
        /\ mode = "gate" => Only(toFrontend', Voice)
        /\ slots' \in Seq(Answers) /\ Len(slots') = Len(slots) + 1
        /\ AnswersMatch' /\ Aligned' /\ Len(slots') <= Len(call)
    <3>1. Try(Message("info")) /\ pc \in Speaking
      BY <1>6 DEF RelayText, NextMessage, Speaking
    <3>2. /\ toFrontend' \in Seq(Frames)
          /\ mode = "gate" => Only(toFrontend', Voice)
      BY <3>1, Sent, MessagesDiffer
    <3>3. NoAnswer \in Answers /\ NoAnswer.asked = NoAnswer.got
      BY DEF NoAnswer, Answers
    <3>4. /\ slots' \in Seq(Answers) /\ Len(slots') = Len(slots) + 1
          /\ AnswersMatch' /\ Aligned'
      BY <1>6, <3>3, Responding DEF RelayText
    <3>5. Len(slots') <= Len(call)
      BY <1>6, <3>4, LenProperties DEF RelayText, NextMessage, AllHandled, SequencesTyped
    <3> QED BY <3>2, <3>4, <3>5
  <2>1. Scalars'
    BY <1>6, <2>0 DEF Scalars, Handles, Speaking, SequencesTyped, Wire, RelayText, NextMessage
  <2>2. SequencesTyped'
    BY <1>6, <2>0 DEF SequencesTyped, AllHandled, RelayText, NextMessage
  <2>3. Handles'
    BY <1>6, <2>0 DEF Handles, CallbackFindsConversation, Verifying, Scalars, Speaking, RelayText, NextMessage
  <2>4. Aligned'
    BY <2>0
  <2>5. AnswersMatch'
    BY <2>0
  <2>6. Wire'
    BY <1>6, <2>0 DEF Wire, Cut, Voice, Speaking, Scalars, RelayText, NextMessage
  <2> QED BY <2>1, <2>2, <2>3, <2>4, <2>5, <2>6
<1>7. CASE RefuseStyle
  <2>0. /\ slots' = <<>> /\ slots' \in Seq(Answers) /\ Len(slots') = 0
        /\ AnswersMatch' /\ Aligned'
    BY <1>7, GivingUp DEF RefuseStyle
  <2>1. Scalars'
    BY <1>7 DEF Scalars, Handles, Speaking, SequencesTyped, Wire, RefuseStyle, GiveUp, NextMessage
  <2>2. SequencesTyped'
    <3>1. Len(call) \in Nat
      BY LenProperties DEF SequencesTyped
    <3> QED BY <1>7, <2>0, <3>1 DEF SequencesTyped, RefuseStyle, GiveUp
  <2>3. Handles'
    BY <1>7 DEF Handles, CallbackFindsConversation, Verifying, Scalars, Speaking, RefuseStyle, GiveUp, NextMessage
  <2>4. Aligned'
    BY <2>0
  <2>5. AnswersMatch'
    BY <2>0
  <2>6. Wire'
    BY <1>7 DEF Wire, Cut, Voice, Speaking, Scalars, RefuseStyle, GiveUp, NextMessage
  <2> QED BY <2>1, <2>2, <2>3, <2>4, <2>5, <2>6
<1>8. CASE HandOver
  <2>1. Scalars'
    BY <1>8 DEF Scalars, Handles, Speaking, SequencesTyped, Wire, HandOver, AllHandled
  <2>2. SequencesTyped'
    BY <1>8 DEF SequencesTyped, AllHandled, HandOver
  <2>3. Handles'
    BY <1>8 DEF Handles, CallbackFindsConversation, Verifying, Scalars, Speaking, HandOver, AllHandled
  <2>4. Aligned'
    BY <1>8 DEF Aligned, Answered, HandOver
  <2>5. AnswersMatch'
    BY <1>8 DEF AnswersMatch, HandOver, AllHandled
  <2>6. Wire'
    BY <1>8 DEF Wire, Cut, Voice, Speaking, Scalars, HandOver, AllHandled
  <2> QED BY <2>1, <2>2, <2>3, <2>4, <2>5, <2>6
<1>9. CASE LogonUser
  <2>1. Scalars'
    BY <1>9 DEF Scalars, Handles, Speaking, SequencesTyped, Wire, LogonUser, AllHandled
  <2>2. SequencesTyped'
    BY <1>9 DEF SequencesTyped, AllHandled, LogonUser
  <2>3. Handles'
    BY <1>9 DEF Handles, CallbackFindsConversation, Verifying, Scalars, Speaking, LogonUser, AllHandled
  <2>4. Aligned'
    BY <1>9 DEF Aligned, Answered, LogonUser
  <2>5. AnswersMatch'
    BY <1>9 DEF AnswersMatch, LogonUser, AllHandled
  <2>6. Wire'
    BY <1>9 DEF Wire, Cut, Voice, Speaking, Scalars, LogonUser, AllHandled
  <2> QED BY <2>1, <2>2, <2>3, <2>4, <2>5, <2>6
<1> QED BY <1>1, <1>2, <1>3, <1>4, <1>5, <1>6, <1>7, <1>8, <1>9

LEMMA TerminalKeepsInvariant ==
  ASSUME GateInv, StartRelay \/ WriteOutput \/ ReadInput \/ RelayEnds
  PROVE  GateInv'
<1> USE DEF GateInv, pamVars, convVars, wireVars, frontendVars
<1>1. CASE StartRelay
  <2>1. Scalars'
    BY <1>1 DEF Scalars, Handles, Speaking, SequencesTyped, Wire, StartRelay
  <2>2. SequencesTyped'
    BY <1>1 DEF SequencesTyped, AllHandled, StartRelay
  <2>3. Handles'
    BY <1>1 DEF Handles, CallbackFindsConversation, Verifying, Scalars, Speaking, StartRelay
  <2>4. Aligned'
    BY <1>1 DEF Aligned, Answered, StartRelay
  <2>5. AnswersMatch'
    BY <1>1 DEF AnswersMatch, StartRelay
  <2>6. Wire'
    BY <1>1 DEF Wire, Cut, Voice, Speaking, Scalars, StartRelay
  <2> QED BY <2>1, <2>2, <2>3, <2>4, <2>5, <2>6
<1>2. CASE WriteOutput
  <2>0. /\ toFrontend' \in Seq(Frames)
        /\ mode = "gate" => Parted(toFrontend', Voice)
        /\ mode = "raw" => OnlyOutput(toFrontend')
    <3>1. /\ toFrontend' = Append(toFrontend, Message("output")) \/ toFrontend' = toFrontend
          /\ toFrontend \in Seq(Frames) /\ Message("output") \in Frames
          /\ mode = "gate" => Parted(toFrontend, Voice)
          /\ mode = "raw" => OnlyOutput(toFrontend)
      BY <1>2, MessagesDiffer DEF WriteOutput, Send, Wire, SequencesTyped
    <3>2. Append(toFrontend, Message("output")) \in Seq(Frames)
      BY <3>1, Pieces
    <3>3. Voice \in Voices
      BY VoicesDiffer DEF Voice
    <3> QED BY <3>1, <3>2, <3>3, Appending
  <2>1. Scalars'
    BY <1>2, <2>0 DEF Scalars, Handles, Speaking, SequencesTyped, Wire, WriteOutput
  <2>2. SequencesTyped'
    BY <1>2, <2>0 DEF SequencesTyped, AllHandled, WriteOutput
  <2>3. Handles'
    BY <1>2, <2>0 DEF Handles, CallbackFindsConversation, Verifying, Scalars, Speaking, WriteOutput
  <2>4. Aligned'
    BY <1>2, <2>0 DEF Aligned, Answered, WriteOutput
  <2>5. AnswersMatch'
    BY <1>2, <2>0 DEF AnswersMatch, WriteOutput
  <2>6. Wire'
    BY <1>2, <2>0 DEF Wire, Cut, Voice, Speaking, Scalars, WriteOutput
  <2> QED BY <2>1, <2>2, <2>3, <2>4, <2>5, <2>6
<1>3. CASE ReadInput
  <2>0. toGate' \in Seq(Arrivals) /\ OnlyKeys(toGate')
    BY <1>3, Pieces DEF ReadInput, SequencesTyped, Wire, OnlyKeys
  <2>7. mode # "gate"
    BY <1>3, QuietWire, DamageIsNoNumber DEF ReadInput, Damaged, Wire, Speaking
  <2>1. Scalars'
    BY <1>3, <2>0 DEF Scalars, Handles, Speaking, SequencesTyped, Wire, ReadInput
  <2>2. SequencesTyped'
    BY <1>3, <2>0 DEF SequencesTyped, AllHandled, ReadInput
  <2>3. Handles'
    BY <1>3, <2>0 DEF Handles, CallbackFindsConversation, Verifying, Scalars, Speaking, ReadInput
  <2>4. Aligned'
    BY <1>3, <2>0 DEF Aligned, Answered, ReadInput
  <2>5. AnswersMatch'
    BY <1>3, <2>0 DEF AnswersMatch, ReadInput
  <2>6. Wire'
    BY <1>3, <2>0, <2>7 DEF Wire, Speaking, Scalars, ReadInput
  <2> QED BY <2>1, <2>2, <2>3, <2>4, <2>5, <2>6
<1>4. CASE RelayEnds
  <2>1. Scalars'
    BY <1>4 DEF Scalars, Handles, Speaking, SequencesTyped, Wire, RelayEnds
  <2>2. SequencesTyped'
    BY <1>4 DEF SequencesTyped, AllHandled, RelayEnds
  <2>3. Handles'
    BY <1>4 DEF Handles, CallbackFindsConversation, Verifying, Scalars, Speaking, RelayEnds
  <2>4. Aligned'
    BY <1>4 DEF Aligned, Answered, RelayEnds
  <2>5. AnswersMatch'
    BY <1>4 DEF AnswersMatch, RelayEnds
  <2>6. Wire'
    BY <1>4 DEF Wire, Cut, Voice, Speaking, Scalars, RelayEnds
  <2> QED BY <2>1, <2>2, <2>3, <2>4, <2>5, <2>6
<1> QED BY <1>1, <1>2, <1>3, <1>4

LEMMA FrontendKeepsInvariant ==
  ASSUME GateInv, FrontendReadsGate \/ FrontendReadsOutput \/ FrontendTypes
          \/ FrontendLeaves
  PROVE  GateInv'
<1> USE DEF GateInv, pamVars, convVars, wireVars, frontendVars
<1>1. CASE FrontendReadsGate
  <2>0. /\ Head(toFrontend) \in Frames /\ toFrontend' \in Seq(Frames)
        /\ toFrontend \in Seq(Frames) /\ toFrontend # <<>>
        /\ toFrontend' = Tail(toFrontend)
    BY <1>1, Pieces DEF FrontendReadsGate, SequencesTyped
  <2>7. /\ mode = "gate" /\ UNCHANGED <<platform, pc, attempt, pamVars, convVars, question>>
        /\ IF Head(toFrontend).type \in {"locked", "denied"}
           THEN mode' = "left" /\ connected' = FALSE
           ELSE /\ UNCHANGED connected
                /\ mode' = IF Head(toFrontend).type = "ok" THEN "raw" ELSE mode
        /\ IF Head(toFrontend).type = "prompt" THEN Reply(Head(toFrontend).n)
           ELSE UNCHANGED toGate
    BY <1>1 DEF FrontendReadsGate, Leave
  <2>9. /\ Voice \in Voices /\ question \in Nat
        /\ (Cut => Voice = Talk) /\ (~Cut => Voice = Infos)
    BY VoicesDiffer DEF Voice, Scalars
  <2>8. Head(toFrontend).type = "prompt" =>
          /\ pc # "await" => Cut
          /\ ~Cut => /\ toGate = <<>> /\ EndsWithQuestion(toFrontend, question)
                     /\ Head(toFrontend).n = question
                     /\ Only(toFrontend', Infos)
          /\ Cut => UNCHANGED toGate
    <3>1. ASSUME Head(toFrontend).type = "prompt", ~Cut
          PROVE  /\ pc = "await" /\ toGate = <<>>
                 /\ EndsWithQuestion(toFrontend, question)
      <4>1. Head(toFrontend) \notin Infos /\ Head(toFrontend) \notin LastWords
        BY <3>1, VoicesDiffer, MessagesDiffer DEF LastWords
      <4>2. ~Only(toFrontend, Voice) /\ ~Parted(toFrontend, Voice)
        BY <2>0, <2>9, <3>1, <4>1, Reading
      <4> QED BY <2>7, <4>2 DEF Wire, Scalars
    <3>2. ASSUME Head(toFrontend).type = "prompt", ~Cut
          PROVE  Head(toFrontend).n = question /\ Only(toFrontend', Infos)
      <4>1. Head(toFrontend) \notin Infos
        BY <3>2, VoicesDiffer
      <4>2. Head(toFrontend) = Question(question) /\ Only(Tail(toFrontend), Infos)
        BY <2>0, <2>9, <3>1, <3>2, <4>1, Reading, VoicesDiffer, MessagesDiffer
      <4> QED BY <2>0, <2>9, <4>2, MessagesDiffer
    <3>3. ASSUME Head(toFrontend).type = "prompt", Cut PROVE UNCHANGED toGate
      <4>1. Broken
        BY <3>3, Singles, DamageIsNoNumber DEF Cut, Broken
      <4> QED BY <2>7, <3>3, <4>1 DEF Reply
    <3> QED BY <3>1, <3>2, <3>3
  <2>10. ~Cut /\ Head(toFrontend).type = "prompt" =>
           toGate' \in {<<question>>, <<Unopenable>>, <<OutOfBounds>>}
    <3> SUFFICES ASSUME ~Cut, Head(toFrontend).type = "prompt"
        PROVE  toGate' \in {<<question>>, <<Unopenable>>, <<OutOfBounds>>}
      OBVIOUS
    <3>1. toGate = <<>> /\ Reply(question) /\ ~Broken
      BY <2>7, <2>8 DEF Broken
    <3>2. PICK f \in {question} \cup Damage : toGate' = Append(<<>>, f)
      BY <3>1 DEF Reply
    <3>3. toGate' = <<f>>
      BY <2>9, <3>2, Singles, DamageIsNoNumber
    <3> QED BY <3>3 DEF Damage
  <2>1. Scalars'
    BY <2>7 DEF Scalars
  <2>2. SequencesTyped'
    <3>1. CASE UNCHANGED toGate
      BY <2>0, <2>7, <3>1 DEF SequencesTyped
    <3>2. CASE toGate' \in {<<question>>, <<Unopenable>>, <<OutOfBounds>>}
      <4>1. toGate' \in Seq(Arrivals)
        BY <2>9, <3>2, Singles, DamageIsNoNumber
      <4> QED BY <2>0, <2>7, <4>1 DEF SequencesTyped
    <3> QED BY <2>7, <2>8, <2>10, <3>1, <3>2
  <2>3. Handles'
    BY <1>1, <2>0 DEF Handles, CallbackFindsConversation, Verifying, Scalars, Speaking, FrontendReadsGate, Leave
  <2>4. Aligned'
    BY <1>1, <2>0 DEF Aligned, Answered, FrontendReadsGate, Leave
  <2>5. AnswersMatch'
    BY <1>1, <2>0 DEF AnswersMatch, FrontendReadsGate, Leave
  <2>6. Wire'
    <3>1. CASE Head(toFrontend).type = "prompt" /\ ~Cut
      <4>1. pc = "await" /\ mode' = mode /\ UNCHANGED <<pc, connected, question>>
        BY <2>7, <2>8, <3>1
      <4>2. Only(toFrontend', Voice')
        <5>1. \A v \in Voices : Only(toFrontend', v)
          BY <2>8, <3>1, VoicesDiffer DEF Only, Voices
        <5>2. Voice' \in Voices
          BY VoicesDiffer DEF Voice
        <5> QED BY <5>1, <5>2
      <4> QED BY <2>7, <2>10, <3>1, <4>1, <4>2 DEF Wire, Speaking
    <3>2. CASE ~(Head(toFrontend).type = "prompt" /\ ~Cut)
      <4>1. toGate' = toGate /\ Voice' = Voice /\ UNCHANGED <<pc, question>>
        BY <2>7, <2>8, <3>2 DEF Voice, Cut
      <4>2. CASE Only(toFrontend, Voice) /\ pc \in Speaking \cup {"await"}
        <5>1. Head(toFrontend) \in Voice /\ Only(toFrontend', Voice)
          BY <2>0, <2>9, <4>2, Reading
        <5>2. Head(toFrontend).type \in {"info", "prompt"}
          BY <2>9, <5>1, VoicesDiffer
        <5>3. UNCHANGED <<mode, connected>>
          BY <2>7, <5>2
        <5>4. CASE pc = "await"
          <6>1. toGate = <<>> => /\ Only(toFrontend', Infos)
                                /\ EndsWithQuestion(toFrontend', question)
            <7>1. toGate = <<>> => ~Cut
              BY Singles, DamageIsNoNumber DEF Cut
            <7> QED BY <2>9, <5>1, <7>1 DEF Only, EndsWithQuestion, Infos
          <6> QED BY <2>7, <4>1, <5>1, <5>3, <5>4, <6>1 DEF Wire, Speaking
        <5>5. CASE pc \in Speaking
          BY <2>7, <4>1, <5>1, <5>3, <5>5 DEF Wire, Speaking
        <5> QED BY <4>2, <5>4, <5>5
      <4>3. CASE /\ EndsWithQuestion(toFrontend, question)
                 /\ toGate = <<>> /\ pc = "await"
        <5>1. ~Cut
          BY <4>3, Singles, DamageIsNoNumber DEF Cut
        <5>2. Head(toFrontend) \in Infos /\ EndsWithQuestion(toFrontend', question)
          <6>1. Head(toFrontend) # Question(question)
            BY <2>9, <3>2, <5>1, MessagesDiffer
          <6> QED BY <2>0, <2>9, <4>3, <5>1, <6>1, Reading DEF Infos
        <5>3. UNCHANGED <<mode, connected>>
          BY <2>7, <5>2, VoicesDiffer
        <5> QED BY <2>7, <4>1, <4>3, <5>2, <5>3 DEF Wire, Speaking
      <4>4. CASE pc \in {"passed", "relay", "ended"}
        <5>1. Parted(toFrontend, Voice)
          BY <2>7, <4>4 DEF Wire
        <5>2. CASE Head(toFrontend) \in Voice /\ Parted(toFrontend', Voice)
          <6>1. UNCHANGED <<mode, connected>>
            BY <2>7, <2>9, <5>2, VoicesDiffer
          <6> QED BY <2>7, <4>1, <4>4, <5>2, <6>1 DEF Wire, Speaking
        <5>3. CASE Head(toFrontend) \in LastWords /\ OnlyOutput(toFrontend')
          <6>1. /\ mode' \in {"left", "raw"}
                /\ connected' <=> mode' # "left"
            BY <2>7, <5>3, MessagesDiffer DEF LastWords, Wire
          <6> QED BY <2>7, <4>1, <4>4, <5>3, <6>1 DEF Wire, Speaking
        <5> QED BY <2>0, <2>9, <5>1, <5>2, <5>3, Reading
      <4> QED BY <2>7, <4>2, <4>3, <4>4 DEF Wire, Scalars
    <3> QED BY <3>1, <3>2
  <2> QED BY <2>1, <2>2, <2>3, <2>4, <2>5, <2>6
<1>2. CASE FrontendReadsOutput
  <2>0. toFrontend' \in Seq(Frames) /\ (OnlyOutput(toFrontend) => OnlyOutput(toFrontend'))
    BY <1>2, Pieces, Reading, VoicesDiffer DEF FrontendReadsOutput, SequencesTyped
  <2>1. Scalars'
    BY <1>2, <2>0 DEF Scalars, Handles, Speaking, SequencesTyped, Wire, FrontendReadsOutput
  <2>2. SequencesTyped'
    BY <1>2, <2>0 DEF SequencesTyped, AllHandled, FrontendReadsOutput
  <2>3. Handles'
    BY <1>2, <2>0 DEF Handles, CallbackFindsConversation, Verifying, Scalars, Speaking, FrontendReadsOutput
  <2>4. Aligned'
    BY <1>2, <2>0 DEF Aligned, Answered, FrontendReadsOutput
  <2>5. AnswersMatch'
    BY <1>2, <2>0 DEF AnswersMatch, FrontendReadsOutput
  <2>6. Wire'
    BY <1>2, <2>0 DEF Wire, Cut, Voice, Speaking, Scalars, FrontendReadsOutput
  <2> QED BY <2>1, <2>2, <2>3, <2>4, <2>5, <2>6
<1>3. CASE FrontendTypes
  <2>0. /\ toGate' \in Seq(Arrivals) /\ (OnlyKeys(toGate) => OnlyKeys(toGate'))
        /\ mode = "raw"
    <3>1. CASE UNCHANGED toGate
      BY <1>3, <3>1 DEF FrontendTypes, SequencesTyped
    <3>2. CASE \E f \in {Keys} \cup Damage : toGate' = Append(toGate, f)
      <4>1. PICK f \in {Keys} \cup Damage : toGate' = Append(toGate, f)
        BY <3>2
      <4>2. toGate \in Seq(Arrivals) /\ f \in Arrivals
        BY DamageIsNoNumber DEF SequencesTyped
      <4>3. /\ toGate' \in Seq(Arrivals) /\ Len(toGate') = Len(toGate) + 1
            /\ \A i \in 1..Len(toGate) : toGate'[i] = toGate[i]
            /\ toGate'[Len(toGate) + 1] = f
            /\ 1..(Len(toGate) + 1) = 1..Len(toGate) \cup {Len(toGate) + 1}
        BY <4>1, <4>2, Pieces
      <4> QED BY <1>3, <4>3 DEF OnlyKeys, FrontendTypes
    <3> QED BY <1>3, <3>1, <3>2 DEF FrontendTypes, Reply
  <2>1. Scalars'
    BY <1>3, <2>0 DEF Scalars, Handles, Speaking, SequencesTyped, Wire, FrontendTypes
  <2>2. SequencesTyped'
    BY <1>3, <2>0 DEF SequencesTyped, AllHandled, FrontendTypes
  <2>3. Handles'
    BY <1>3, <2>0 DEF Handles, CallbackFindsConversation, Verifying, Scalars, Speaking, FrontendTypes
  <2>4. Aligned'
    BY <1>3, <2>0 DEF Aligned, Answered, FrontendTypes
  <2>5. AnswersMatch'
    BY <1>3, <2>0 DEF AnswersMatch, FrontendTypes
  <2>6. Wire'
    BY <1>3, <2>0 DEF Wire, Speaking, Scalars, FrontendTypes
  <2> QED BY <2>1, <2>2, <2>3, <2>4, <2>5, <2>6
<1>4. CASE FrontendLeaves
  <2>0. toFrontend' \in Seq(Frames) /\ mode' = "left" /\ connected' = FALSE
    BY <1>4, Empty DEF FrontendLeaves, Leave
  <2>1. Scalars'
    BY <1>4, <2>0 DEF Scalars, Handles, Speaking, SequencesTyped, Wire, FrontendLeaves, Leave
  <2>2. SequencesTyped'
    BY <1>4, <2>0 DEF SequencesTyped, AllHandled, FrontendLeaves, Leave
  <2>3. Handles'
    BY <1>4, <2>0 DEF Handles, CallbackFindsConversation, Verifying, Scalars, Speaking, FrontendLeaves, Leave
  <2>4. Aligned'
    BY <1>4, <2>0 DEF Aligned, Answered, FrontendLeaves, Leave
  <2>5. AnswersMatch'
    BY <1>4, <2>0 DEF AnswersMatch, FrontendLeaves, Leave
  <2>6. Wire'
    BY <1>4, <2>0 DEF Wire, Cut, Voice, Speaking, Scalars, FrontendLeaves, Leave
  <2> QED BY <2>1, <2>2, <2>3, <2>4, <2>5, <2>6
<1> QED BY <1>1, <1>2, <1>3, <1>4

LEMMA GateInvariant == Spec => []GateInv
<1>1. Init => GateInv
  BY Initially
<1>2. GateInv /\ [Next]_vars => GateInv'
  <2> SUFFICES ASSUME GateInv, [Next]_vars PROVE GateInv'
    OBVIOUS
  <2>1. CASE UNCHANGED vars
    BY <2>1 DEF vars, GateInv, Scalars, SequencesTyped, Handles, Aligned,
       Answered, AnswersMatch, Wire, Cut, Voice, CallbackFindsConversation, AllHandled
  <2> QED BY <2>1, GateLoopKeepsInvariant, AccountKeepsInvariant,
             ConversationKeepsInvariant, TerminalKeepsInvariant,
             FrontendKeepsInvariant DEF Next, Process, Over
<1> QED BY <1>1, <1>2, PTL DEF Spec

-----------------------------------------------------------------------------

(* The variables of GateDialogue keep their types: never more handles than
   attempts, never more responses than messages (auth.go:118-190,
   auth_unix.go:146-188). *)
THEOREM TypeCorrect == Spec => []TypeOK
<1>1. GateInv => TypeOK
  BY TypesFollow DEF GateInv
<1> QED BY <1>1, GateInvariant, PTL

(* Every answer reaches the prompt it was typed for, in any number of attempts
   and callbacks (auth.go:68-77, auth_unix.go:167-183). *)
THEOREM EveryAnswerMatches == Spec => []AnswersMatch
<1>1. GateInv => AnswersMatch
  BY DEF GateInv
<1> QED BY <1>1, GateInvariant, PTL

(* The messages of the gate and the output of the terminal never mix, and no
   answer is left for the program to read (auth.go:46-54, main.go:153-182). *)
THEOREM NothingCrosses == Spec => []NoCrossTalk
<1>1. GateInv => NoCrossTalk
  <2> SUFFICES ASSUME GateInv PROVE NoCrossTalk
    OBVIOUS
  <2> USE DEF GateInv
  <2>1. pc = "relay" => \A i \in 1..Len(toGate) : toGate[i] \notin 1..question
    <3>1. ASSUME pc = "relay", NEW i \in 1..Len(toGate)
          PROVE  toGate[i] \in Damage \cup {Keys}
      BY <3>1 DEF Wire, OnlyKeys
    <3> QED BY <3>1 DEF Damage, Unopenable, OutOfBounds, Keys
  <2>2. ASSUME toFrontend # <<>>, mode = "raw"
        PROVE  Head(toFrontend).type = "output"
    BY <2>2, Reading, MessagesDiffer, VoicesDiffer DEF Wire, Scalars, SequencesTyped
  <2>3. ASSUME toFrontend # <<>>, mode = "gate"
        PROVE  Head(toFrontend).type # "output"
    <3>1. Voice \in Voices
      BY VoicesDiffer DEF Voice
    <3>2. \/ Only(toFrontend, Voice) \/ Parted(toFrontend, Voice)
          \/ EndsWithQuestion(toFrontend, question)
      BY <2>3 DEF Wire, Scalars
    <3>3. \/ Head(toFrontend) \in Talk \/ Head(toFrontend) \in LastWords
          \/ Head(toFrontend) = Question(question)
      BY <2>3, <3>1, <3>2, Reading, VoicesDiffer DEF SequencesTyped, Scalars
    <3> QED BY <3>3, MessagesDiffer, VoicesDiffer DEF LastWords, Scalars
  <2> QED BY <2>1, <2>2, <2>3 DEF NoCrossTalk
<1> QED BY <1>1, GateInvariant, PTL

(* Copies of answers are lost by a callback that had an answer already and could
   not go on, and only for the causes the property names (auth_unix.go:163-185). *)
THEOREM LossesExplained == Spec => CopiesLostWithExchange
<1>1. ASSUME GateInv, [Next]_vars, leaked' # leaked
      PROVE  /\ platform = "pam" /\ Len(slots) < Len(call)
             /\ \E i \in 1..Len(slots) : call[i] = "prompt"
             /\ \/ ~connected
                \/ call[Len(slots) + 1] = "prompt" /\ Damaged
                \/ call[Len(slots) + 1] = "unknown"
  <2>0. /\ SequencesTyped /\ Aligned
        /\ Len(slots) \in Nat /\ Len(call) \in Nat /\ Len(slots) <= Len(call)
    BY <1>1, LenProperties DEF GateInv, SequencesTyped
  <2>1. SendPrompt \/ ReadAnswer \/ RefuseStyle
    BY <1>1 DEF Next, Process, Over, vars, convVars, SendBanner, CheckLockout,
       ReplyOk, RecordFailure, Register, PamStart, PamReturns, Unregister,
       CallbackFails, CallbackBegins, AskPassword, RelayText, HandOver,
       LogonUser, StartRelay, WriteOutput, ReadInput, RelayEnds,
       FrontendReadsGate, FrontendReadsOutput, FrontendTypes, FrontendLeaves
  <2>2. GiveUp /\ Len(slots) < Len(call)
    <3>1. GiveUp
      BY <1>1, <2>1 DEF SendPrompt, ReadAnswer, RefuseStyle
    <3>2. Len(slots) < Len(call)
      BY <2>0, <2>1 DEF SendPrompt, ReadAnswer, RefuseStyle, NextMessage,
         AllHandled, SequencesTyped
    <3> QED BY <3>1, <3>2
  <2>3. \E i \in 1..Len(slots) : call[i] = "prompt"
    BY <1>1, <2>0, <2>2, GivingUp
  <2>4. platform = "pam"
    <3>1. Len(slots) >= 1
      BY <2>0, <2>3
    <3>2. Len(call) > 1
      BY <2>0, <2>2, <3>1
    <3>3. platform # "windows"
      BY <2>0, <3>2 DEF SequencesTyped
    <3> QED BY <1>1, <3>3 DEF GateInv, Scalars
  <2>5. \/ ~connected
        \/ call[Len(slots) + 1] = "prompt" /\ Damaged
        \/ call[Len(slots) + 1] = "unknown"
    <3>1. CASE SendPrompt
      BY <1>1, <3>1 DEF SendPrompt, SendFails
    <3>2. CASE ReadAnswer
      BY <1>1, <2>0, <3>2 DEF ReadAnswer, ReadFails, SequencesTyped
    <3>3. CASE RefuseStyle
      BY <3>3 DEF RefuseStyle, NextMessage
    <3> QED BY <2>1, <3>1, <3>2, <3>3
  <2> QED BY <2>2, <2>3, <2>4, <2>5
<1>2. GateInv /\ [Next]_vars =>
        [ leaked' # leaked =>
            /\ platform = "pam" /\ Len(slots) < Len(call)
            /\ \E i \in 1..Len(slots) : call[i] = "prompt"
            /\ \/ ~connected
               \/ call[Len(slots) + 1] = "prompt" /\ Damaged
               \/ call[Len(slots) + 1] = "unknown"
        ]_vars
  BY <1>1
<1> QED BY <1>2, GateInvariant, PTL DEF Spec, CopiesLostWithExchange

(* The registry holds the conversation of this attempt while PAM may call back,
   and nothing afterwards (auth_unix.go:117-130, 195-227). *)
THEOREM ConversationFound == Spec => []CallbackFindsConversation
<1>1. GateInv => CallbackFindsConversation
  BY DEF GateInv, Handles
<1> QED BY <1>1, GateInvariant, PTL

=============================================================================
