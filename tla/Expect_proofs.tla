----------------------------- MODULE Expect_proofs -----------------------------
(***************************************************************************)
(* The safety properties of Expect, proved for every selection of actions, *)
(* users and platforms, any amount of output and any size of the buffer.   *)
(***************************************************************************)
EXTENDS Expect, SequenceTheorems, TLAPS

USE ExpectAssumption, ActionsAssumption

-----------------------------------------------------------------------------
(* expectTable *)

Entry(e) ==
  /\ e.prompts \in {1, 2}
  /\ e.successMarker \in BOOLEAN /\ e.failMarkers \in BOOLEAN
  /\ e.dynamic \in BOOLEAN /\ e.post \in BOOLEAN /\ e.verify \in BOOLEAN
  /\ e.dynamic <=> e.verify
  /\ e.post => e.verify
  /\ e.dynamic => ~e.successMarker /\ ~e.failMarkers

LEMMA EveryEntry == \A a \in Actions : Entry(expectTable[a])
<1> SUFFICES ASSUME NEW a \in Actions PROVE Entry(expectTable[a])
  OBVIOUS
<1>1. a \in {"passwd_user", "smbpasswd_user", "ksmbd_user",
            "zfs_create_enc_prompt", "zfs_unlock_enc_prompt"}
  BY DEF expectTable
<1>2. CASE a \in {"passwd_user", "smbpasswd_user", "ksmbd_user"}
  <2>1. CASE a = "passwd_user"
    BY <2>1 DEF Entry, expectTable, PasswordEntry
  <2>2. CASE a = "smbpasswd_user"
    BY <2>2 DEF Entry, expectTable, PasswordEntry
  <2>3. CASE a = "ksmbd_user"
    BY <2>3 DEF Entry, expectTable, PasswordEntry
  <2> QED BY <1>2, <2>1, <2>2, <2>3
<1>3. CASE a = "zfs_create_enc_prompt"
  BY <1>3 DEF Entry, expectTable, KeyEntry
<1>4. CASE a = "zfs_unlock_enc_prompt"
  BY <1>4 DEF Entry, expectTable, KeyEntry
<1> QED BY <1>1, <1>2, <1>3, <1>4

-----------------------------------------------------------------------------
(* Tokens in sequences. *)

Tokens == {Prompt(1), Prompt(2), Complaint, Confirmation, Noise}

In(token, s) == \E i \in 1..Len(s) : s[i] = token

LEMMA TokensDiffer ==
  /\ \A i, j \in Int : Prompt(i) = Prompt(j) => i = j
  /\ \A i \in Int : Prompt(i) \notin {Complaint, Confirmation, Noise}
  /\ Complaint # Confirmation /\ Complaint # Noise /\ Confirmation # Noise
BY DEF Prompt, Complaint, Confirmation, Noise

LEMMA InAppend ==
  ASSUME NEW s \in Seq(Tokens), NEW t \in Tokens
  PROVE  /\ Append(s, t) \in Seq(Tokens)
         /\ \A x : In(x, Append(s, t)) <=> In(x, s) \/ x = t
<1>1. /\ Append(s, t) \in Seq(Tokens)
      /\ Len(Append(s, t)) = Len(s) + 1 /\ Len(s) \in Nat
      /\ \A i \in 1..Len(s) : Append(s, t)[i] = s[i]
      /\ Append(s, t)[Len(s) + 1] = t
  BY AppendProperties, LenProperties
<1>2. 1..(Len(s) + 1) = 1..Len(s) \cup {Len(s) + 1}
  BY <1>1
<1> QED BY <1>1, <1>2 DEF In

LEMMA InTail ==
  ASSUME NEW s \in Seq(Tokens), s # <<>>
  PROVE  /\ Head(s) \in Tokens /\ Tail(s) \in Seq(Tokens)
         /\ \A x : In(x, s) <=> x = Head(s) \/ In(x, Tail(s))
<1>1. /\ Head(s) \in Tokens /\ Tail(s) \in Seq(Tokens)
      /\ Len(Tail(s)) = Len(s) - 1 /\ Len(s) \in Nat \ {0}
      /\ \A i \in 1..Len(Tail(s)) : Tail(s)[i] = s[i + 1]
      /\ Head(s) = s[1]
  BY HeadTailProperties, EmptySeq
<1>2. ASSUME NEW x, In(x, s) PROVE x = Head(s) \/ In(x, Tail(s))
  <2>1. PICK i \in 1..Len(s) : s[i] = x
    BY <1>2 DEF In
  <2>2. CASE i = 1
    BY <1>1, <2>1, <2>2
  <2>3. CASE i # 1
    <3>1. i - 1 \in 1..Len(Tail(s)) /\ Tail(s)[i - 1] = x
      BY <1>1, <2>1, <2>3
    <3> QED BY <3>1 DEF In
  <2> QED BY <2>2, <2>3
<1>3. ASSUME NEW x, x = Head(s) \/ In(x, Tail(s)) PROVE In(x, s)
  <2>1. CASE x = Head(s)
    BY <1>1, <2>1 DEF In
  <2>2. CASE In(x, Tail(s))
    <3>1. PICK i \in 1..Len(Tail(s)) : Tail(s)[i] = x
      BY <2>2 DEF In
    <3>2. i + 1 \in 1..Len(s) /\ s[i + 1] = x
      BY <1>1, <3>1
    <3> QED BY <3>2 DEF In
  <2> QED BY <1>3, <2>1, <2>2
<1> QED BY <1>1, <1>2, <1>3

LEMMA InLast ==
  ASSUME NEW s \in Seq(Tokens), NEW m \in 1..Len(s)
  PROVE  /\ SubSeq(s, m, Len(s)) \in Seq(Tokens)
         /\ Len(SubSeq(s, m, Len(s))) = Len(s) - m + 1
         /\ \A x : In(x, SubSeq(s, m, Len(s))) => In(x, s)
<1>1. Len(s) \in Nat
  BY LenProperties
<1>2. m \in Int /\ Len(s) \in Int /\ m <= Len(s)
  BY <1>1
<1>3. \A i \in m..Len(s) : s[i] \in Tokens
  BY <1>1, ElementOfSeq
<1>4. /\ SubSeq(s, m, Len(s)) \in Seq(Tokens)
      /\ Len(SubSeq(s, m, Len(s))) = Len(s) - m + 1
      /\ \A i \in 1..(Len(s) - m + 1) : SubSeq(s, m, Len(s))[i] = s[m + i - 1]
  BY <1>2, <1>3, SubSeqProperties
<1>5. \A i \in 1..(Len(s) - m + 1) : m + i - 1 \in 1..Len(s)
  BY <1>1
<1> QED BY <1>4, <1>5 DEF In

(* The buffer keeps within its bound and shows nothing that was not written; it
   keeps everything as long as it has room. *)
LEMMA InAppended ==
  ASSUME NEW s \in Seq(Tokens), NEW t \in Tokens, Len(s) <= Capacity
  PROVE  /\ Appended(s, t) \in Seq(Tokens)
         /\ Len(Appended(s, t)) <= Capacity
         /\ \A x : In(x, Appended(s, t)) => In(x, s) \/ x = t
         /\ Len(s) # Capacity => Appended(s, t) = Append(s, t)
<1> DEFINE all == Append(s, t)
<1>1. all \in Seq(Tokens) /\ Len(all) = Len(s) + 1 /\ Len(s) \in Nat
  BY AppendProperties, LenProperties
<1>2. CASE Len(all) > Capacity
  <2> DEFINE m == Len(all) - Keep + 1
  <2> DEFINE rest == SubSeq(all, m, Len(all))
  <2>1. m \in 1..Len(all) /\ Len(all) - m + 1 = Keep /\ Keep <= Capacity
    BY <1>1, <1>2
  <2>2. Appended(s, t) = rest
    BY <1>2 DEF Appended
  <2>3. Len(s) = Capacity
    BY <1>1, <1>2
  <2>4. \A x : In(x, all) => In(x, s) \/ x = t
    BY InAppend
  <2> HIDE DEF all, m
  <2>5. /\ rest \in Seq(Tokens) /\ Len(rest) = Keep
        /\ \A x : In(x, rest) => In(x, all)
    BY <1>1, <2>1, InLast
  <2> HIDE DEF rest
  <2> QED BY <2>1, <2>2, <2>3, <2>4, <2>5
<1>3. CASE ~(Len(all) > Capacity)
  <2>1. Appended(s, t) = all
    BY <1>3 DEF Appended
  <2> QED BY <1>1, <1>3, <2>1, InAppend
<1> QED BY <1>2, <1>3

-----------------------------------------------------------------------------
(* The inductive invariant. *)

Early == {"resolve", "secret", "start"}
Asking == {"check", "answer"}
Verdict == {"judge", "post", "verify"}

BuffersTyped == buffer \in Seq(Tokens) /\ tty \in Seq(Tokens)

(* The answers follow the prompts. *)
Answering ==
  /\ step = typed + 1 /\ typed <= asked /\ asked <= act.prompts
  /\ phase \in Early \cup Asking \cup {"await"} => step <= act.prompts
  /\ phase \in Asking => step <= asked

(* What was printed is true when it is printed, and is not lost on the way
   except by trimming. *)
Output ==
  /\ \A s \in {buffer, tty} : \A k \in 1..2 : In(Prompt(k), s) => k <= asked
  /\ \A s \in {buffer, tty} : In(Confirmation, s) => goal
  /\ complained => In(Complaint, buffer) \/ In(Complaint, tty) \/ dropped

(* The life of the program, its terminal and the reader of it. *)
Lifetimes ==
  /\ phase \in Early => program = "none" /\ reader = "none" /\ ~ttyOpen
  /\ reader = "done" => tty = <<>> /\ ~ttyOpen
  /\ phase = "flush" => program = "reaped"
  /\ phase = "reap" => reader = "done"
  /\ phase \in Verdict \/ result = "ok" => ~Working
  /\ phase # "done" /\ program \in {"exited", "reaped"} /\ code = 0 => goal
  /\ ~act.dynamic /\ backend = "windows" => phase \in Early \cup {"close", "done"}

(* What the verdict rests on once it is reached. *)
Judged ==
  /\ result = "ok" => phase \in {"close", "done"} /\ goal
  /\ result = "ok" => act.dynamic \/ backend # "windows"
  /\ phase = "judge" /\ ~late => tty = <<>>
  /\ phase = "judge" /\ ~waitErr /\ backend # "windows" =>
       program = "reaped" /\ code = 0
  /\ phase \in {"post", "verify"} => act.verify
  /\ (phase \in {"post", "verify"} \/ result = "ok")
       /\ ~act.successMarker /\ backend # "windows" =>
       program = "reaped" /\ code = 0
  /\ act.failMarkers /\ result = "ok" => ~complained \/ dropped \/ late

ExpectInv ==
  /\ TypeOK
  /\ BuffersTyped
  /\ Answering
  /\ Output
  /\ Lifetimes
  /\ Judged

LEMMA Showing ==
  ASSUME BuffersTyped, NEW needle \in Tokens, Has(needle)
  PROVE  In(needle, buffer) \/ (needle = Prompt(1) /\ In(Prompt(2), buffer))
BY DEF Has, Shows, In

LEMMA NotShowing ==
  ASSUME BuffersTyped, NEW needle \in Tokens, ~Has(needle)
  PROVE  ~In(needle, buffer)
BY DEF Has, Shows, In

LEMMA InEmpty == \A x : ~In(x, <<>>)
BY EmptySeq DEF In

LEMMA Initially == Init => ExpectInv
<1> SUFFICES ASSUME Init PROVE ExpectInv
  OBVIOUS
<1>1. Entry(act) /\ <<>> \in Seq(Tokens) /\ Len(<<>>) = 0
  BY EveryEntry, EmptySeq DEF Init, act
<1>2. goal \in BOOLEAN
  BY DEF Init
<1>3. /\ code \in 0..1 /\ asked \in 0..2 /\ printed \in 0..MaxOutput
      /\ step \in 1..3 /\ typed \in 0..2 /\ Len(buffer) <= Capacity
  BY <1>1 DEF Init
<1>7. TypeOK
  BY <1>2, <1>3 DEF Init, TypeOK
<1>4. BuffersTyped /\ Answering
  BY <1>1 DEF Init, BuffersTyped, Answering, Entry, Early, Asking
<1>5. Output
  BY InEmpty DEF Init, Output
<1>6. Lifetimes /\ Judged
  BY DEF Init, Lifetimes, Judged, Early, Verdict, Working
<1> QED BY <1>4, <1>5, <1>6, <1>7 DEF ExpectInv

(* The entry of the action does not change. *)
LEMMA ActionStays ==
  ASSUME ExpectInv, [Next]_vars
  PROVE  /\ id' = id /\ user' = user /\ backend' = backend /\ act' = act
         /\ Entry(act)
<1>1. id' = id /\ user' = user /\ backend' = backend
  BY DEF Next, RunExpect, Program, Finished, vars, process, request, Resolve,
         ReadSecret, Start, PromptSeen, AwaitFails, CheckMarkers, Answer,
         WaitForExit, Flush, AwaitReap, Judge, RunPost, RunVerify, Close,
         PumpPTY, PumpEnds, Reap, Ask, Chatter, Achieve, ProgramExits,
         CloseTerminal
<1> QED BY <1>1, EveryEntry DEF act, ExpectInv, TypeOK

(* The steps of runExpect leave the output alone. *)
LEMMA RunKeepsOutput ==
  ASSUME ExpectInv, RunExpect
  PROVE  BuffersTyped' /\ Output'
<1>1. UNCHANGED <<buffer, tty, dropped, asked, goal, complained>>
  BY DEF RunExpect, io, ptyOut, child, Resolve, ReadSecret, Start, PromptSeen,
         AwaitFails, CheckMarkers, Answer, WaitForExit, Flush, AwaitReap, Judge,
         RunPost, RunVerify, Close
<1> QED BY <1>1 DEF ExpectInv, BuffersTyped, Output

LEMMA RunKeepsInvariant ==
  ASSUME ExpectInv, RunExpect
  PROVE  ExpectInv'
<1>1. BuffersTyped' /\ Output'
  BY RunKeepsOutput
<1>2. Next
  BY DEF Next
<1>3. /\ id' = id /\ user' = user /\ backend' = backend /\ act' = act
      /\ Entry(act)
  BY <1>2, ActionStays
<1> SUFFICES TypeOK' /\ Answering' /\ Lifetimes' /\ Judged'
  BY <1>1 DEF ExpectInv
<1> USE DEF ExpectInv, process, dialog, outcome, ptyOut, io, child
<1>4. CASE Resolve
  <2>1. TypeOK'
    BY <1>3, <1>4 DEF Resolve, TypeOK, Finish, Answering, Entry
  <2>2. Answering'
    BY <1>3, <1>4 DEF Resolve, Answering, Finish, Early, Asking, TypeOK, Entry
  <2>3. Lifetimes'
    BY <1>3, <1>4 DEF Resolve, Lifetimes, Finish, Early, Verdict, Working, TypeOK, Entry, Judged
  <2>4. Judged'
    BY <1>3, <1>4 DEF Resolve, Judged, Lifetimes, Finish, Early, Verdict, Working, TypeOK, Entry
  <2> QED BY <2>1, <2>2, <2>3, <2>4
<1>5. CASE ReadSecret
  <2>1. TypeOK'
    <3>1. secretFile' \in BOOLEAN
      BY <1>5, Zenon DEF ReadSecret, TypeOK
    <3> QED BY <1>3, <1>5, <3>1 DEF ReadSecret, TypeOK, Finish
  <2>2. Answering'
    BY <1>3, <1>5 DEF ReadSecret, Answering, Finish, Early, Asking, TypeOK, Entry
  <2>3. Lifetimes'
    BY <1>3, <1>5 DEF ReadSecret, Lifetimes, Finish, Early, Verdict, Working, TypeOK, Entry, Judged
  <2>4. Judged'
    BY <1>3, <1>5 DEF ReadSecret, Judged, Lifetimes, Finish, Early, Verdict, Working, TypeOK, Entry
  <2> QED BY <2>1, <2>2, <2>3, <2>4
<1>6. CASE Start
  <2>1. TypeOK'
    <3>1. /\ phase' \in {"await", "close"} /\ result' \in {result, "failed"}
          /\ program' \in {program, "running"} /\ reader' \in {reader, "reading"}
      BY <1>6 DEF Start, Finish
    <3>2. ttyOpen' \in BOOLEAN
      BY <1>6, Zenon DEF Start, Finish, TypeOK
    <3>3. UNCHANGED <<process, dialog, ptyOut, tty, code, asked, printed, goal,
                     complained, late, waitErr>>
      BY <1>6 DEF Start
    <3>4. /\ secretFile' \in BOOLEAN /\ goal' \in BOOLEAN /\ complained' \in BOOLEAN
          /\ dropped' \in BOOLEAN /\ late' \in BOOLEAN /\ waitErr' \in BOOLEAN
      BY <3>3, Zenon DEF TypeOK
    <3> QED BY <1>3, <3>1, <3>2, <3>3, <3>4 DEF TypeOK
  <2>2. Answering'
    BY <1>3, <1>6 DEF Start, Answering, Finish, Early, Asking, TypeOK, Entry
  <2>3. Lifetimes'
    BY <1>3, <1>6 DEF Start, Lifetimes, Finish, Early, Verdict, Working, TypeOK, Entry, Judged, Installed
  <2>4. Judged'
    BY <1>3, <1>6 DEF Start, Judged, Lifetimes, Finish, Early, Verdict, Working, TypeOK, Entry, Installed
  <2> QED BY <2>1, <2>2, <2>3, <2>4
<1>7. CASE PromptSeen
  <2>1. TypeOK'
    BY <1>3, <1>7 DEF PromptSeen, TypeOK, Finish, Answering, Entry
  <2>2. Answering'
    <3>1. step \in 1..2 /\ Prompt(step) \in Tokens
      BY <1>3, <1>7 DEF PromptSeen, Answering, Early, Asking, TypeOK, Entry, Tokens
    <3>2. step <= asked
      BY <1>7, <3>1, Showing, TokensDiffer DEF PromptSeen, Output, TypeOK
    <3> QED BY <1>3, <1>7, <3>2 DEF PromptSeen, Answering, Early, Asking
  <2>3. Lifetimes'
    BY <1>3, <1>7 DEF PromptSeen, Lifetimes, Finish, Early, Verdict, Working, TypeOK, Entry, Judged
  <2>4. Judged'
    BY <1>3, <1>7 DEF PromptSeen, Judged, Lifetimes, Finish, Early, Verdict, Working, TypeOK, Entry
  <2> QED BY <2>1, <2>2, <2>3, <2>4
<1>8. CASE AwaitFails
  <2>1. TypeOK'
    BY <1>3, <1>8 DEF AwaitFails, TypeOK, Finish, Answering, Entry
  <2>2. Answering'
    BY <1>3, <1>8 DEF AwaitFails, Answering, Finish, Early, Asking, TypeOK, Entry
  <2>3. Lifetimes'
    BY <1>3, <1>8 DEF AwaitFails, Lifetimes, Finish, Early, Verdict, Working, TypeOK, Entry, Judged
  <2>4. Judged'
    BY <1>3, <1>8 DEF AwaitFails, Judged, Lifetimes, Finish, Early, Verdict, Working, TypeOK, Entry
  <2> QED BY <2>1, <2>2, <2>3, <2>4
<1>9. CASE CheckMarkers
  <2>1. TypeOK'
    BY <1>3, <1>9 DEF CheckMarkers, TypeOK, Finish, Answering, Entry
  <2>2. Answering'
    BY <1>3, <1>9 DEF CheckMarkers, Answering, Finish, Early, Asking, TypeOK, Entry
  <2>3. Lifetimes'
    BY <1>3, <1>9 DEF CheckMarkers, Lifetimes, Finish, Early, Verdict, Working, TypeOK, Entry, Judged
  <2>4. Judged'
    BY <1>3, <1>9 DEF CheckMarkers, Judged, Lifetimes, Finish, Early, Verdict, Working, TypeOK, Entry
  <2> QED BY <2>1, <2>2, <2>3, <2>4
<1>10. CASE Answer
  <2>1. TypeOK'
    <3>1. step' \in 1..3 /\ typed' \in 0..2
      BY <1>3, <1>10 DEF Answer, Answering, Asking, TypeOK, Entry
    <3> QED BY <1>3, <1>10, <3>1 DEF Answer, TypeOK, Finish
  <2>2. Answering'
    BY <1>3, <1>10 DEF Answer, Answering, Finish, Early, Asking, TypeOK, Entry
  <2>3. Lifetimes'
    BY <1>3, <1>10 DEF Answer, Lifetimes, Finish, Early, Verdict, Working, TypeOK, Entry, Judged
  <2>4. Judged'
    BY <1>3, <1>10 DEF Answer, Judged, Lifetimes, Finish, Early, Verdict, Working, TypeOK, Entry
  <2> QED BY <2>1, <2>2, <2>3, <2>4
<1>11. CASE WaitForExit
  <2>1. TypeOK'
    BY <1>3, <1>11 DEF WaitForExit, TypeOK, Finish, Answering, Entry
  <2>2. Answering'
    BY <1>3, <1>11 DEF WaitForExit, Answering, Finish, Early, Asking, TypeOK, Entry
  <2>3. Lifetimes'
    BY <1>3, <1>11 DEF WaitForExit, Lifetimes, Finish, Early, Verdict, Working, TypeOK, Entry, Judged
  <2>4. Judged'
    BY <1>3, <1>11 DEF WaitForExit, Judged, Lifetimes, Finish, Early, Verdict, Working, TypeOK, Entry
  <2> QED BY <2>1, <2>2, <2>3, <2>4
<1>12. CASE Flush
  <2>1. TypeOK'
    <3>1. late' \in BOOLEAN /\ waitErr' \in BOOLEAN
      BY <1>12 DEF Flush, WaitSays, WaitReports
    <3> QED BY <1>3, <1>12, <3>1 DEF Flush, TypeOK
  <2>2. Answering'
    BY <1>3, <1>12 DEF Flush, Answering, Finish, Early, Asking, TypeOK, Entry
  <2>3. Lifetimes'
    BY <1>3, <1>12 DEF Flush, Lifetimes, Finish, Early, Verdict, Working, TypeOK, Entry, Judged, WaitSays, WaitReports
  <2>4. Judged'
    BY <1>3, <1>12 DEF Flush, Judged, Lifetimes, Finish, Early, Verdict, Working, TypeOK, Entry, WaitSays, WaitReports
  <2> QED BY <2>1, <2>2, <2>3, <2>4
<1>13. CASE AwaitReap
  <2>1. TypeOK'
    <3>1. waitErr' \in BOOLEAN
      BY <1>13 DEF AwaitReap, WaitSays, WaitReports
    <3> QED BY <1>3, <1>13, <3>1 DEF AwaitReap, TypeOK
  <2>2. Answering'
    BY <1>3, <1>13 DEF AwaitReap, Answering, Finish, Early, Asking, TypeOK, Entry
  <2>3. Lifetimes'
    BY <1>3, <1>13 DEF AwaitReap, Lifetimes, Finish, Early, Verdict, Working, TypeOK, Entry, Judged, WaitSays, WaitReports
  <2>4. Judged'
    BY <1>3, <1>13 DEF AwaitReap, Judged, Lifetimes, Finish, Early, Verdict, Working, TypeOK, Entry, WaitSays, WaitReports
  <2> QED BY <2>1, <2>2, <2>3, <2>4
<1>14. CASE Judge
  <2>1. TypeOK'
    BY <1>3, <1>14 DEF Judge, TypeOK, Finish, Answering, Entry
  <2>2. Answering'
    BY <1>3, <1>14 DEF Judge, Answering, Finish, Early, Asking, TypeOK, Entry
  <2>3. Lifetimes'
    BY <1>3, <1>14 DEF Judge, Lifetimes, Finish, Early, Verdict, Working, TypeOK, Entry, Judged, Post
  <2>4. Judged'
    <3>1. act.successMarker /\ Convincing => goal
      BY Showing, TokensDiffer DEF Convincing, Output, Tokens
    <3>2. act.failMarkers /\ Convincing => ~complained \/ In(Complaint, tty) \/ dropped
      BY NotShowing DEF Convincing, FailMarkerSeen, Output, Tokens
    <3>3. phase = "judge" /\ ~late => ~In(Complaint, tty)
      BY InEmpty DEF Judged
    <3> QED BY <1>3, <1>14, <3>1, <3>2, <3>3 DEF Judge, Judged, Lifetimes, Finish,
             Early, Verdict, Working, TypeOK, Entry, Post, Convincing
  <2> QED BY <2>1, <2>2, <2>3, <2>4
<1>15. CASE RunPost
  <2>1. TypeOK'
    BY <1>3, <1>15 DEF RunPost, TypeOK, Finish, Answering, Entry
  <2>2. Answering'
    BY <1>3, <1>15 DEF RunPost, Answering, Finish, Early, Asking, TypeOK, Entry
  <2>3. Lifetimes'
    BY <1>3, <1>15 DEF RunPost, Lifetimes, Finish, Early, Verdict, Working, TypeOK, Entry, Judged
  <2>4. Judged'
    BY <1>3, <1>15 DEF RunPost, Judged, Lifetimes, Finish, Early, Verdict, Working, TypeOK, Entry
  <2> QED BY <2>1, <2>2, <2>3, <2>4
<1>16. CASE RunVerify
  <2>1. TypeOK'
    BY <1>3, <1>16 DEF RunVerify, TypeOK, Finish, Answering, Entry
  <2>2. Answering'
    BY <1>3, <1>16 DEF RunVerify, Answering, Finish, Early, Asking, TypeOK, Entry
  <2>3. Lifetimes'
    BY <1>3, <1>16 DEF RunVerify, Lifetimes, Finish, Early, Verdict, Working, TypeOK, Entry, Judged
  <2>4. Judged'
    BY <1>3, <1>16 DEF RunVerify, Judged, Lifetimes, Finish, Early, Verdict, Working, TypeOK, Entry
  <2> QED BY <2>1, <2>2, <2>3, <2>4
<1>17. CASE Close
  <2>1. TypeOK'
    BY <1>3, <1>17 DEF Close, TypeOK, Finish, Answering, Entry
  <2>2. Answering'
    BY <1>3, <1>17 DEF Close, Answering, Finish, Early, Asking, TypeOK, Entry
  <2>3. Lifetimes'
    BY <1>3, <1>17 DEF Close, Lifetimes, Finish, Early, Verdict, Working, TypeOK, Entry, Judged
  <2>4. Judged'
    BY <1>3, <1>17 DEF Close, Judged, Lifetimes, Finish, Early, Verdict, Working, TypeOK, Entry
  <2> QED BY <2>1, <2>2, <2>3, <2>4
<1> QED
  BY <1>4, <1>5, <1>6, <1>7, <1>8, <1>9, <1>10, <1>11, <1>12, <1>13, <1>14, <1>15, <1>16, <1>17 DEF RunExpect

LEMMA PumpKeepsInvariant ==
  ASSUME ExpectInv, PumpPTY
  PROVE  ExpectInv'
<1>1. /\ id' = id /\ user' = user /\ backend' = backend /\ act' = act
      /\ Entry(act)
  <2>1. Next
    BY DEF Next
  <2> QED BY <2>1, ActionStays
<1> USE DEF ExpectInv, PumpPTY, process, dialog, outcome, child
<1>2. /\ Head(tty) \in Tokens /\ Tail(tty) \in Seq(Tokens)
      /\ \A x : In(x, tty) <=> x = Head(tty) \/ In(x, Tail(tty))
  BY InTail DEF BuffersTyped
<1>3. /\ buffer' \in Seq(Tokens) /\ Len(buffer') <= Capacity
      /\ \A x : In(x, buffer') => In(x, buffer) \/ x = Head(tty)
      /\ Len(buffer) # Capacity => buffer' = Append(buffer, Head(tty))
  BY <1>2, InAppended DEF BuffersTyped, TypeOK
<1>4. Len(buffer) # Capacity =>
        \A x : In(x, buffer) \/ x = Head(tty) => In(x, buffer')
  <2>1. \A x : In(x, Append(buffer, Head(tty))) <=> In(x, buffer) \/ x = Head(tty)
    BY <1>2, InAppend DEF BuffersTyped
  <2> HIDE DEF PumpPTY
  <2> QED BY <1>3, <2>1
<1>5. dropped' \in BOOLEAN
  OBVIOUS
<1>6. TypeOK'
  BY <1>1, <1>3, <1>5 DEF TypeOK
<1>7. BuffersTyped'
  BY <1>2, <1>3 DEF BuffersTyped
<1>8. Answering'
  BY <1>1 DEF Answering
<1>9. Output'
  <2>1. \A x : In(x, buffer') \/ In(x, tty') => In(x, buffer) \/ In(x, tty)
    BY <1>2, <1>3
  <2>2. dropped' \/ (\A x : In(x, buffer) \/ In(x, tty) => In(x, buffer') \/ In(x, tty'))
    BY <1>2, <1>4
  <2> HIDE DEF PumpPTY
  <2>3. UNCHANGED <<asked, goal, complained>> /\ (dropped => dropped')
    BY DEF PumpPTY
  <2> QED BY <2>1, <2>2, <2>3 DEF Output
<1>10. Lifetimes'
  BY <1>1 DEF Lifetimes, Working
<1>11. Judged'
  <2>1. dropped => dropped'
    OBVIOUS
  <2> QED BY <1>1, <1>2, <2>1 DEF Judged, Lifetimes, Working
<1> QED BY <1>6, <1>7, <1>8, <1>9, <1>10, <1>11

LEMMA ProgramKeepsInvariant ==
  ASSUME ExpectInv, Program
  PROVE  ExpectInv'
<1>1. /\ id' = id /\ user' = user /\ backend' = backend /\ act' = act
      /\ Entry(act)
  <2>1. Next
    BY DEF Next
  <2> QED BY <2>1, ActionStays
<1> USE DEF ExpectInv, process, dialog, outcome, ptyOut
<1>2. ASSUME NEW t \in Tokens, Prints(t), UNCHANGED <<buffer, dropped>>,
             \A k \in 1..2 : t = Prompt(k) => k <= asked',
             t = Confirmation => goal',
             asked <= asked', goal => goal', asked' \in Nat, asked \in Nat,
             complained' => complained \/ t = Complaint
      PROVE  BuffersTyped' /\ Output'
  <2>1. tty' \in Seq(Tokens) /\ (\A x : In(x, tty') <=> In(x, tty) \/ x = t)
    BY <1>2, InAppend DEF Prints, BuffersTyped
  <2> QED BY <1>2, <2>1 DEF BuffersTyped, Output
<1>3. ASSUME UNCHANGED <<buffer, tty, dropped, asked, complained>>, goal => goal'
      PROVE  BuffersTyped' /\ Output'
  BY <1>3 DEF BuffersTyped, Output
<1>4. CASE Ask
  <2>1. /\ asked + 1 \in 1..2 /\ asked \in Nat
        /\ Prompt(asked + 1) \in Tokens
        /\ \A k \in 1..2 : Prompt(asked + 1) = Prompt(k) => k = asked + 1
        /\ Prompt(asked + 1) # Confirmation
    BY <1>1, <1>4, TokensDiffer DEF Ask, Entry, TypeOK, Tokens
  <2>2. BuffersTyped' /\ Output'
    BY <1>2, <1>4, <2>1 DEF Ask
  <2>3. TypeOK' /\ Answering'
    BY <1>1, <1>4, <2>1 DEF Ask, TypeOK, Answering, Entry, Early, Asking
  <2>4. Lifetimes' /\ Judged'
    BY <1>1, <1>4 DEF Ask, Lifetimes, Judged, Working, Verdict
  <2> QED BY <2>2, <2>3, <2>4
<1>5. CASE Chatter
  <2>1. PICK t \in {Noise, Complaint} :
          Prints(t) /\ complained' = (complained \/ t = Complaint)
    BY <1>5, TokensDiffer DEF Chatter, TypeOK
  <2>2. BuffersTyped' /\ Output'
    BY <1>2, <1>5, <2>1, TokensDiffer DEF Chatter, Tokens, TypeOK
  <2>3. complained' \in BOOLEAN
    BY <2>1
  <2>4. TypeOK' /\ Answering'
    BY <1>1, <1>5, <2>3 DEF Chatter, TypeOK, Answering
  <2>5. Lifetimes' /\ Judged'
    BY <1>1, <1>5 DEF Chatter, Lifetimes, Judged, Working, Verdict
  <2> QED BY <2>2, <2>4, <2>5
<1>6. CASE Achieve
  <2>1. BuffersTyped' /\ Output'
    <3>1. CASE act.successMarker
      BY <1>2, <1>6, <3>1, TokensDiffer DEF Achieve, Tokens, TypeOK
    <3>2. CASE ~act.successMarker
      BY <1>3, <1>6, <3>2 DEF Achieve
    <3> QED BY <3>1, <3>2
  <2>2. TypeOK' /\ Answering'
    BY <1>1, <1>6 DEF Achieve, TypeOK, Answering
  <2>3. Lifetimes' /\ Judged'
    BY <1>1, <1>6 DEF Achieve, Lifetimes, Judged, Working, Verdict
  <2> QED BY <2>1, <2>2, <2>3
<1>7. CASE ProgramExits
  <2>1. BuffersTyped' /\ Output'
    BY <1>3, <1>7 DEF ProgramExits
  <2>2. ttyOpen' \in BOOLEAN /\ (ttyOpen' => ttyOpen) /\ code' \in 0..1
    <3>1. code' \in 0..1 /\ (ttyOpen' = ttyOpen \/ ttyOpen' = FALSE)
      BY <1>7 DEF ProgramExits
    <3>2. ttyOpen \in BOOLEAN
      BY DEF TypeOK
    <3>3. CASE ttyOpen' = FALSE
      BY <3>1, <3>3
    <3>4. CASE ttyOpen' = ttyOpen
      BY <3>1, <3>2, <3>4
    <3> QED BY <3>1, <3>3, <3>4
  <2>5. TypeOK' /\ Answering'
    BY <1>1, <1>7, <2>2 DEF ProgramExits, TypeOK, Answering
  <2>3. Lifetimes'
    BY <1>1, <1>7, <2>2 DEF ProgramExits, Lifetimes, Working, Verdict, Early, TypeOK
  <2>4. Judged'
    BY <1>1, <1>7 DEF ProgramExits, Judged, TypeOK
  <2> QED BY <2>1, <2>3, <2>4, <2>5
<1>8. CASE CloseTerminal
  <2>1. BuffersTyped' /\ Output'
    BY <1>3, <1>8 DEF CloseTerminal, child
  <2>2. TypeOK'
    <3>1. ttyOpen' \in BOOLEAN
      BY <1>8, Zenon DEF CloseTerminal
    <3> QED BY <1>1, <1>8, <3>1 DEF CloseTerminal, TypeOK, child
  <2>4. Answering'
    BY <1>1, <1>8 DEF CloseTerminal, Answering, child
  <2>3. Lifetimes' /\ Judged'
    BY <1>1, <1>8 DEF CloseTerminal, Lifetimes, Judged, Working, child
  <2> QED BY <2>1, <2>2, <2>3, <2>4
<1> QED BY <1>4, <1>5, <1>6, <1>7, <1>8 DEF Program

LEMMA RestKeepsInvariant ==
  ASSUME ExpectInv, PumpEnds \/ Reap \/ UNCHANGED vars
  PROVE  ExpectInv'
<1>1. UNCHANGED <<buffer, tty, dropped, asked, goal, complained, typed, step, phase,
                  id, user, backend, secretFile, code, printed, ttyOpen, late,
                  waitErr, result>>
  BY DEF PumpEnds, Reap, process, request, dialog, outcome, ptyOut, io, child, vars
<1>2. BuffersTyped' /\ Output' /\ Answering'
  BY <1>1 DEF ExpectInv, BuffersTyped, Output, Answering, act
<1>3. CASE PumpEnds
  BY <1>1, <1>2, <1>3 DEF PumpEnds, child, ExpectInv, TypeOK, Lifetimes, Judged,
     Working, act, Early
<1>4. CASE Reap
  BY <1>1, <1>2, <1>4 DEF Reap, io, ExpectInv, TypeOK, Lifetimes, Judged,
     Working, act, Early
<1>5. CASE UNCHANGED vars
  BY <1>1, <1>2, <1>5 DEF vars, ExpectInv, TypeOK, Lifetimes, Judged,
     Working, act
<1> QED BY <1>3, <1>4, <1>5

LEMMA ExpectInvariant == Spec => []ExpectInv
<1>1. Init => ExpectInv
  BY Initially
<1>2. ExpectInv /\ [Next]_vars => ExpectInv'
  BY RunKeepsInvariant, PumpKeepsInvariant, ProgramKeepsInvariant, RestKeepsInvariant
     DEF Next, Finished
<1> QED BY <1>1, <1>2, PTL DEF Spec

-----------------------------------------------------------------------------

(* The variables of Expect keep their types: no more than two prompts are
   counted and ptyOut never holds more than Capacity tokens (expect.go:447-498). *)
THEOREM TypeCorrect == Spec => []TypeOK
<1>1. ExpectInv => TypeOK
  BY DEF ExpectInv
<1> QED BY <1>1, ExpectInvariant, PTL

(* A success that runExpect reports was achieved, whatever the program prints and
   however its exit, the end of its output and the timeouts are ordered
   (expect.go:377-445). *)
THEOREM SuccessIsReal == Spec => []OkMeansAchieved
<1>1. ExpectInv => OkMeansAchieved
  BY DEF ExpectInv, Judged, OkMeansAchieved
<1> QED BY <1>1, ExpectInvariant, PTL

(* No secret is typed before the program has asked for it (expect.go:364-375). *)
THEOREM SecretsFollowPrompts == Spec => []SecretOnlyWhenAsked
<1>1. ExpectInv => SecretOnlyWhenAsked
  BY DEF ExpectInv, Answering, SecretOnlyWhenAsked
<1> QED BY <1>1, ExpectInvariant, PTL

(* A fail marker in the output excludes success, but for trimming and output that
   is read too late (expect.go:369, 388, 402, 479). *)
THEOREM ComplaintsCount == Spec => []FailMarkerFails
<1>1. ExpectInv => FailMarkerFails
  BY DEF ExpectInv, Judged, FailMarkerFails
<1> QED BY <1>1, ExpectInvariant, PTL

(* Without a success marker the exit code decides, where the backend reports it
   (expect.go:45-46, 404-414). *)
THEOREM ExitCodeCounts == Spec => []ExitCodeDecides
<1>1. ExpectInv => ExitCodeDecides
  BY DEF ExpectInv, Judged, ExitCodeDecides
<1> QED BY <1>1, ExpectInvariant, PTL

=============================================================================
