-------------------------------- MODULE Expect --------------------------------
(***************************************************************************)
(* Expect mode: runExpect of expect.go drives one allowlisted program      *)
(* through its prompts with a secret and decides from what the program     *)
(* printed, how it exited and, for ZFS keys, a fresh look at the key       *)
(* whether the action succeeded.                                           *)
(*                                                                         *)
(* Output is a sequence of tokens: the text of a prompt, a fail marker,    *)
(* the success marker, or anything else.  The program prints what it likes *)
(* while it works; it asks its prompts in order, prints the success marker *)
(* only after it has done its work, and exits with code 0 only then.       *)
(***************************************************************************)
EXTENDS Integers, Sequences

CONSTANTS
  Actions,        \* ids of the expectTable entries under study
  Users,          \* values of the user argument
  UidZero,        \* the users that /etc/passwd lists with uid 0
  Backends,       \* among "unix", "solaris" and "windows"
  Capacity,       \* ptyOut drops its head beyond this many tokens ...
  Keep,           \* ... and keeps this many (256K and 64K in the code)
  MaxOutput       \* bound: tokens a program prints besides its prompts

ASSUME ExpectAssumption ==
  /\ UidZero \subseteq Users
  /\ Backends \subseteq {"unix", "solaris", "windows"}
  /\ Capacity \in Nat /\ Keep \in 1..Capacity
  /\ MaxOutput \in Nat

(* expectTable: which argument isPrivilegedTarget is shown, how many prompts,
   whether a success marker and fail markers exist, and the follow-ups. *)
PasswordEntry(args, marker) ==
  [args |-> args, prompts |-> 2, successMarker |-> marker, failMarkers |-> TRUE,
   dynamic |-> FALSE, post |-> FALSE, verify |-> FALSE]

KeyEntry(prompts, post) ==
  [args |-> <<>>, prompts |-> prompts, successMarker |-> FALSE,
   failMarkers |-> FALSE, dynamic |-> TRUE, post |-> post, verify |-> TRUE]

expectTable ==
  [passwd_user    |-> PasswordEntry(<<"{user}">>, TRUE),
   smbpasswd_user |-> PasswordEntry(<<"{user}">>, FALSE),
   ksmbd_user     |-> PasswordEntry(<<"-u", "{user}">>, TRUE),
   zfs_create_enc_prompt |-> KeyEntry(2, FALSE),
   zfs_unlock_enc_prompt |-> KeyEntry(1, TRUE)]

ASSUME ActionsAssumption == Actions \subseteq DOMAIN expectTable

Prompt(i) == <<"prompt", i>>
Complaint == <<"fail marker", 0>>
Confirmation == <<"success marker", 0>>
Noise == <<"noise", 0>>

VARIABLES
  backend,   \* the platform the process runs on
  phase,     \* how far runExpect has come
  secretFile,\* is the file with the secret on disk?
  id, user,  \* the action and its user argument
  step,      \* the prompt being awaited
  typed,     \* secrets written to the PTY
  buffer,    \* ptyOut
  tty,       \* output the program has written and pumpPTY has not read
  ttyOpen,   \* does any process hold the terminal open?
  reader,    \* pumpPTY: "none", "reading", "done"
  program,   \* "none", "running", "exited", "reaped"
  code,      \* its exit code
  asked,     \* prompts it has printed
  printed,   \* other tokens it has printed
  goal,      \* has what the action is for been achieved?
  complained,\* has a fail marker been printed? (history)
  dropped,   \* has ptyOut dropped its head? (history)
  late,      \* was the verdict given with output still unread? (history)
  waitErr,   \* what pty.Wait reported
  result     \* "none", "ok" or "failed"

vars == <<backend, phase, secretFile, id, user, step, typed, buffer, tty,
          ttyOpen, reader, program, code, asked, printed, goal, complained,
          dropped, late, waitErr, result>>

request == <<backend, id, user>>
process == <<request, secretFile>>
dialog == <<step, typed>>
outcome == <<late, waitErr, result>>
ptyOut == <<buffer, dropped>>
io == <<ptyOut, tty, ttyOpen, reader>>
child == <<program, code, asked, printed, goal, complained>>

act == expectTable[id]

Init ==
  /\ backend \in Backends
  /\ phase = "resolve"
  /\ secretFile = TRUE
  /\ id \in Actions
  /\ user \in Users
  /\ step = 1 /\ typed = 0
  /\ buffer = <<>> /\ tty = <<>> /\ ttyOpen = FALSE /\ reader = "none"
  /\ program = "none" /\ code = 0 /\ asked = 0 /\ printed = 0
  /\ goal \in IF id = "zfs_unlock_enc_prompt" THEN BOOLEAN ELSE {FALSE}
  /\ complained = FALSE /\ dropped = FALSE /\ late = FALSE
  /\ waitErr = FALSE /\ result = "none"

-----------------------------------------------------------------------------
(* Mutant: the buffer grows without a bound. *)
AppendedAll(buf, token) == Append(buf, token)

(* ptyOut: an accumulating buffer that keeps its tail, and its searches.     *)

Appended(buf, token) ==
  LET all == Append(buf, token)
  IN  IF Len(all) > Capacity THEN SubSeq(all, Len(all) - Keep + 1, Len(all))
      ELSE all

(* Mutant: the arguments of strings.Contains exchanged. *)
ShowsExchanged(token, needle) ==
  \/ token = needle
  \/ token = Prompt(1) /\ needle = Prompt(2)

(* The text of a second prompt may contain that of the first ("Re-enter new
   Password:"), never the other way round. *)
Shows(token, needle) ==
  \/ token = needle
  \/ token = Prompt(2) /\ needle = Prompt(1)

Has(needle) == \E i \in 1..Len(buffer) : Shows(buffer[i], needle)

FailMarkerSeen == act.failMarkers /\ Has(Complaint)

-----------------------------------------------------------------------------
(* runExpect *)

Finish(r) ==
  /\ result' = r
  /\ phase' = "close"

(* The scan of /etc/passwd finds nothing if the file cannot be opened, or not be
   read as far as the user's line. *)
FoundInPasswd(arg) == {(arg \in UidZero), FALSE}

(* Names are compared without their case: "root" and "administrator" stand for
   all their spellings. *)
isPrivilegedTarget(arg, found) ==
  IF backend = "windows" THEN arg = "administrator" ELSE arg = "root" \/ found

(* The privilege check looks at the first element of the argument vector. *)
Target == IF act.args[1] = "{user}" THEN user ELSE act.args[1]

Resolve ==
  /\ phase = "resolve"
  /\ \/ /\ ~act.dynamic
        /\ \E found \in FoundInPasswd(Target) :
             IF isPrivilegedTarget(Target, found) THEN Finish("failed")
             ELSE phase' = "secret" /\ UNCHANGED result
     \/ act.dynamic /\ phase' = "secret" /\ UNCHANGED result
     (* no user, a bad dataset name or algorithm *)
     \/ Finish("failed")
  /\ UNCHANGED <<process, dialog, io, child, late, waitErr>>

(* readExpectSecret: a file that cannot be read stays; one that was read is
   removed, if that succeeds, even if it turns out to be empty. *)
ReadSecret ==
  /\ phase = "secret"
  /\ secretFile' \in {secretFile, FALSE}
  /\ \/ Finish("failed")
     \/ phase' = "start" /\ UNCHANGED result
  /\ UNCHANGED <<request, dialog, io, child, late, waitErr>>

(* The password programs exist on Unix only; elsewhere they do not start. *)
Installed == backend = "windows" => act.dynamic

Start ==
  /\ phase = "start"
  /\ \/ /\ Installed
        /\ phase' = "await"
        /\ program' = "running" /\ ttyOpen' = TRUE /\ reader' = "reading"
        /\ UNCHANGED result
     \/ /\ Finish("failed")
        /\ UNCHANGED <<program, ttyOpen, reader>>
  /\ UNCHANGED <<process, dialog, ptyOut, tty, code, asked, printed,
                 goal, complained, late, waitErr>>

(* await polls the whole buffer. *)
PromptSeen ==
  /\ phase = "await" /\ Has(Prompt(step))
  /\ phase' = "check"
  /\ UNCHANGED <<process, dialog, io, child, outcome>>

(* The output has ended without the prompt, or stepTimeout is over, which may
   be while the prompt arrives. *)
AwaitFails ==
  /\ phase = "await"
  /\ Finish("failed")
  /\ UNCHANGED <<process, dialog, io, child, late, waitErr>>

CheckMarkers ==
  /\ phase = "check"
  /\ \/ FailMarkerSeen /\ Finish("failed")
     \/ ~FailMarkerSeen /\ phase' = "answer" /\ UNCHANGED result
  /\ UNCHANGED <<process, dialog, io, child, late, waitErr>>

Answer ==
  /\ phase = "answer"
  /\ \/ /\ typed' = typed + 1
        /\ step' = step + 1
        /\ phase' = IF step < act.prompts THEN "await" ELSE "exit"
        /\ UNCHANGED result
     \/ /\ ~ttyOpen
        /\ Finish("failed")
        /\ UNCHANGED dialog
  /\ UNCHANGED <<process, io, child, late, waitErr>>

(* Mutant: no timeout after the last prompt. *)
WaitForExitForever ==
  /\ phase = "exit"
  /\ \/ program = "reaped" /\ phase' = "flush"
     \/ reader = "done" /\ phase' = "reap"
  /\ UNCHANGED <<process, dialog, io, child, outcome>>

(* The select after the last prompt: whichever of the reaped program, the end
   of its output and the timeout is seen first. *)
WaitForExit ==
  /\ phase = "exit"
  /\ \/ program = "reaped" /\ phase' = "flush" /\ UNCHANGED result
     \/ reader = "done" /\ phase' = "reap" /\ UNCHANGED result
     \/ Finish("failed")   \* 60 seconds
  /\ UNCHANGED <<process, dialog, io, child, late, waitErr>>

(* Mutant: only a failure of the wait call itself is reported. *)
WaitReportsNothing == FALSE

(* ConPTY's Wait returns the exit code beside a nil error, and the Windows
   backend drops it.  Anywhere the wait itself may fail. *)
WaitReports == backend # "windows" /\ code # 0

WaitSays(e) == e \in {WaitReports, TRUE}

Flush ==
  /\ phase = "flush"
  /\ \/ reader = "done"
     \/ TRUE   \* 500 milliseconds
  /\ late' = (tty # <<>>)
  /\ WaitSays(waitErr')
  /\ phase' = "judge"
  /\ UNCHANGED <<process, dialog, io, child, result>>

AwaitReap ==
  /\ phase = "reap"
  /\ \/ program = "reaped" /\ WaitSays(waitErr')
     \/ program # "reaped" /\ waitErr' = TRUE   \* 2 seconds
  /\ phase' = "judge"
  /\ UNCHANGED <<process, dialog, io, child, late, result>>

(* Mutant: the fail markers are checked between the prompts only. *)
ConvincingUnchecked ==
  /\ ~act.successMarker => ~waitErr
  /\ act.successMarker => Has(Confirmation)

Convincing ==
  /\ ~FailMarkerSeen
  /\ ~act.successMarker => ~waitErr
  /\ act.successMarker => Has(Confirmation)

(* `zfs key -l` of Solaris mounts by itself. *)
Post == act.post /\ backend # "solaris"

Judge ==
  /\ phase = "judge"
  /\ \/ ~Convincing /\ Finish("failed")
     \/ Convincing /\ Post /\ phase' = "post" /\ UNCHANGED result
     \/ Convincing /\ ~Post /\ act.verify /\ phase' = "verify"
        /\ UNCHANGED result
     \/ Convincing /\ ~Post /\ ~act.verify /\ Finish("ok")
  /\ UNCHANGED <<process, dialog, io, child, late, waitErr>>

(* `zfs mount`, which cannot succeed without the key. *)
RunPost ==
  /\ phase = "post"
  /\ \/ goal /\ phase' = "verify" /\ UNCHANGED result
     \/ Finish("failed")
  /\ UNCHANGED <<process, dialog, io, child, late, waitErr>>

(* Mutant: the value read back is not compared. *)
RunVerifyBlind ==
  /\ phase = "verify"
  /\ Finish("ok")
  /\ UNCHANGED <<process, dialog, io, child, late, waitErr>>

(* `zfs get keystatus`: the state of the key now. *)
RunVerify ==
  /\ phase = "verify"
  /\ \/ goal /\ Finish("ok")
     \/ Finish("failed")
  /\ UNCHANGED <<process, dialog, io, child, late, waitErr>>

(* The deferred pty.Close. *)
Close ==
  /\ phase = "close"
  /\ phase' = "done"
  /\ program' = IF program = "running" THEN "exited" ELSE program
  /\ ttyOpen' = FALSE
  /\ UNCHANGED <<process, dialog, ptyOut, tty, reader, code, asked,
                 printed, goal, complained, outcome>>

-----------------------------------------------------------------------------
(* The goroutines. *)

PumpPTY ==
  /\ reader = "reading" /\ tty # <<>>
  /\ buffer' = Appended(buffer, Head(tty))
  /\ dropped' = (dropped \/ Len(buffer) = Capacity)
  /\ tty' = Tail(tty)
  /\ UNCHANGED <<phase, process, dialog, ttyOpen, reader, child, outcome>>

(* A ConPTY reader sees no end of file before the console is closed. *)
PumpEnds ==
  /\ reader = "reading" /\ tty = <<>> /\ ~ttyOpen
  /\ backend = "windows" => phase = "done"
  /\ reader' = "done"
  /\ UNCHANGED <<phase, process, dialog, ptyOut, tty, ttyOpen, child, outcome>>

Reap ==
  /\ program = "exited"
  /\ program' = "reaped"
  /\ UNCHANGED <<phase, process, dialog, io, code, asked, printed, goal,
                 complained, outcome>>

-----------------------------------------------------------------------------
(* The program. *)

Prints(token) == tty' = Append(tty, token)

Working == program = "running" /\ ttyOpen

Ask ==
  /\ Working
  /\ asked < act.prompts /\ typed >= asked
  /\ Prints(Prompt(asked + 1))
  /\ asked' = asked + 1
  /\ UNCHANGED <<phase, process, dialog, ptyOut, ttyOpen, reader, program, code,
                 printed, goal, complained, outcome>>

Chatter ==
  /\ Working /\ printed < MaxOutput
  /\ printed' = printed + 1
  /\ \/ Prints(Noise) /\ UNCHANGED complained
     \/ Prints(Complaint) /\ complained' = TRUE
  /\ UNCHANGED <<phase, process, dialog, ptyOut, ttyOpen, reader, program, code,
                 asked, goal, outcome>>

Achieve ==
  /\ Working /\ ~goal
  /\ asked = act.prompts /\ typed >= asked
  /\ goal' = TRUE
  /\ IF act.successMarker THEN Prints(Confirmation) ELSE UNCHANGED tty
  /\ UNCHANGED <<phase, process, dialog, ptyOut, ttyOpen, reader, program, code,
                 asked, printed, complained, outcome>>

(* It may exit at any time, with code 0 only when its work is done; a child of
   its own may hold the terminal open. *)
ProgramExits ==
  /\ program = "running"
  /\ program' = "exited"
  /\ code' \in {c \in 0..1 : c = 0 => goal}
  /\ ttyOpen' \in {ttyOpen, FALSE}
  /\ UNCHANGED <<phase, process, dialog, ptyOut, tty, reader, asked, printed,
                 goal, complained, outcome>>

CloseTerminal ==
  /\ program \in {"running", "exited", "reaped"} /\ ttyOpen
  /\ ttyOpen' = FALSE
  /\ UNCHANGED <<phase, process, dialog, ptyOut, tty, reader, child, outcome>>

Finished == phase = "done" /\ UNCHANGED vars

RunExpect ==
  \/ Resolve
  \/ ReadSecret
  \/ Start
  \/ PromptSeen
  \/ AwaitFails
  \/ CheckMarkers
  \/ Answer
  \/ WaitForExit
  \/ Flush
  \/ AwaitReap
  \/ Judge
  \/ RunPost
  \/ RunVerify
  \/ Close

Program == Ask \/ Chatter \/ Achieve \/ ProgramExits \/ CloseTerminal

Next ==
  \/ RunExpect
  \/ PumpPTY
  \/ PumpEnds
  \/ Reap
  \/ Program
  \/ Finished

Spec == Init /\ [][Next]_vars

(* runExpect and its goroutines run; the follow-up commands return, for which
   the code has no timeout.  The program owes nothing. *)
FairSpec == Spec /\ WF_vars(RunExpect) /\ WF_vars(PumpPTY) /\ WF_vars(PumpEnds)

-----------------------------------------------------------------------------

TypeOK ==
  /\ id \in Actions /\ user \in Users /\ secretFile \in BOOLEAN
  /\ phase \in {"resolve", "secret", "start", "await", "check", "answer",
                "exit", "flush", "reap", "judge", "post", "verify", "close",
                "done"}
  /\ step \in 1..3 /\ typed \in 0..2
  /\ Len(buffer) <= Capacity
  /\ ttyOpen \in BOOLEAN
  /\ reader \in {"none", "reading", "done"}
  /\ program \in {"none", "running", "exited", "reaped"}
  /\ code \in 0..1 /\ asked \in 0..2 /\ printed \in 0..MaxOutput
  /\ goal \in BOOLEAN /\ complained \in BOOLEAN
  /\ backend \in Backends /\ dropped \in BOOLEAN /\ late \in BOOLEAN
  /\ waitErr \in BOOLEAN
  /\ result \in {"none", "ok", "failed"}

(* A reported success is real: the password was changed or the key is there,
   however exit, end of output, timeouts and trimming are ordered
   (expect.go:377-445). *)
OkMeansAchieved == result = "ok" => goal

(* The secret is typed only at a program that has asked for it and waits: the
   answers never run ahead of the prompts (expect.go:364-375, 538-558). *)
SecretOnlyWhenAsked == typed <= asked

(* A fail marker anywhere in the output makes the action a failure, unless the
   buffer had to drop it or it had not been read 500 milliseconds after the
   exit (expect.go:44, 369, 388, 402, 479). *)
FailMarkerFails ==
  act.failMarkers /\ result = "ok" => ~complained \/ dropped \/ late

(* Without a success marker, success is exit code 0, where the backend reports
   it (expect.go:45-46). *)
ExitCodeDecides ==
  ~act.successMarker /\ backend # "windows" /\ result = "ok" => code = 0

(* The program is never started for an account with uid 0, as the comments
   have it (expect.go:206-210, 333-338). *)
RootIsRefused == ~act.dynamic /\ program # "none" => user \notin UidZero

(* Every request is answered and its program is not left waiting at a prompt
   (expect.go:299-302, 352, 364-400). *)
RequestEnds == <>(phase = "done" /\ program # "running")

=============================================================================
