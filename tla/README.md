# A TLA+ specification of cs-console

cs-console is the per-session process behind the web console of a storage
member: `server.pl` starts it as root, it listens on a fresh port, accepts one
connection of the frontend, lets the frontend pass the password gate of the
member's operating system and then relays a terminal. In a second mode,
`expect`, it answers the prompts of one allowlisted program with a secret. This
directory holds TLA+ modules translated from the Go sources, TLC models of them
and TLAPS proofs.

Line numbers refer to the sources; `PROJECT.json` maps every definition to the
lines it stands for.

## 1. Inventory of the system

| Component | State | Operations | Called by |
|---|---|---|---|
| Lockout files (`lockout.go`) | one small text file per frontend address: `fail_count`, `locked_until` | `lockoutCheck`, `lockoutRecordFailure`, `lockoutReset` | the gates of all processes of the member, with no lock between them |
| Password gate (`auth.go`) | attempt counter of the session | `runPasswordGate`, `authConversation.Prompt` / `Info` | `run`, once per session |
| OS account verification (`auth_unix.go`, `auth_windows.go`) | PAM handle, registry of conversations, response array | `verifyOSAccount`, the PAM callback | the gate, once per attempt |
| Session process (`main.go`, `session.go`) | listener, connection, keys, the phase of `run` | start configuration, `acceptOne`, `authenticate`, deferred calls | `server.pl` |
| Relay (`main.go`) | two pumps, one-slot activity channel, idle timer | `relay`, the final `select` of `run` | `run`, after the gate |
| Sealed frames (`crypto.go`) | the byte stream of the connection | `WriteFrame`, `ReadFrame` | authentication, gate and relay, each with a reader of its own |
| Expect mode (`expect.go`) | output buffer, prompt index, exit status, verdict | `runExpect`, `ptyOut`, `await`, `readExpectSecret` | `run`, instead of the network part |
| PTY backends (`pty*.go`) | process, terminal | `Read`, `Write`, `Resize`, `Wait`, `Close` | session, relay, expect mode |
| Start boundary (`privilege_*.go`) | none | `requireRoot` | `run`, first of all |
| Concurrency test (`lockout_concurrency_test.go`) | | states what overlapping gates may do | |
| Test client (`testclient/main.go`) | gate or terminal | answers the gate, then reads and types | a person, against a running session |
| Build files | | not modelled | |

How they interact: processes of one member share nothing but the lockout files.
Inside a process, `run` is sequential up to the relay, except for the goroutine
of `acceptOne`; from then on five goroutines (main, wait, two pumps, watchdog)
meet in channels and in the blocking calls of connection and PTY. Expect mode
has three (main, reader, wait).

What is hard:

* **Lockout and gate.** Read, truncate and write are separate system calls of
  processes that do not exclude each other; a process may be killed between any
  two; writes and removals fail silently; a file may be removed under the handle
  of a writer. Correct means: locks are bounded and earned, a full counter never
  survives, a standing lock stops each session at its next attempt, and without
  overlap the gate is exactly the documented policy.
* **Session.** Any host may use up the only `Accept`; the window, the accept
  goroutine and the failures of all later calls race. Correct means: the program
  starts only behind address, token and password, the wait is bounded, and
  whatever fails, the calls deferred by then close what was opened, the program
  before the connection.
* **OS account verification.** PAM calls back into Go through an integer handle,
  with any number of messages, from any of its calls; every answer is a bare
  frame on the connection the terminal will use next. Correct means: each answer
  meets its prompt, copies of answers are lost only where an exchange breaks
  off, the callback finds its conversation as long as PAM may call it, the gate
  opens for both verdicts of one attempt, and both sides leave the gate at the
  same frame.
* **Relay.** Each pump can block for ever; activity is a token that the watchdog
  may take late; three ends race. Correct means: no program survives the
  session, an idle end is a real silence, a hang-up is noticed in bounded time,
  every session ends.
* **Frames.** Partial reads, ends and changes anywhere in the stream, lengths at
  their bounds, three readers in a row on one stream. Correct means: an ordered
  channel that stops at the first fault and only at a fault.
* **PTY backends.** Three implementations that differ in who sets up the
  terminal, who learns of a failing exec, what `Wait` reports and what `Close`
  kills, over a kernel that hands out process ids again. Correct means: one
  interface for relay and expect mode, no descriptor or process left by a
  failed start, no foreign process killed.
* **Expect.** Exit status, end of output and timeouts come in any order, the
  buffer drops its head, prompts contain one another. Correct means: a reported
  success is real, the secret is typed only at a prompt, every request ends. That
  privileged accounts are refused is what the comments promise; section 4 says
  where they are not.

The hazards, each at its line and with the properties that watch it, are listed
under `hazards` in `PROJECT.json`.

## 2. Modules

```
Lockout  <---  LockoutPolicy            abstract policy: no files, no processes
   ^                ^
   |                | INSTANCE (ImplementsPolicy)
PasswordGate  <---  PasswordGateHistory  counts attempts after a lock
   ^                     ^
   |          MCPasswordGate, MCPasswordGateHistory (instances)
   |
   | INSTANCE (Gate)
Console --- INSTANCE (ImplementsSession) --> Session  <- MCSession
   | INSTANCE (Relay)
   v
Relay

GateDialogue                             the messages of the gate, PAM, frontend
PtyBackend   --- INSTANCE (ImplementsInterface) --> PtySession
SealedFrames --- INSTANCE (ImplementsChannel) --> FrameChannel
Expect

<module>_proofs EXTENDS <module>, for Relay, Session, Console, GateDialogue,
PtyBackend, SealedFrames and Expect; PasswordGate_proofs EXTENDS
PasswordGateHistory; Console_proofs instantiates Session_proofs (section 5)
```

**Lockout** is the arithmetic of the record: `AfterFailure` is the computation
of `lockoutRecordFailure`, `IsLocked`, `RetryAfter` and `IsStale` the tests of
`lockoutCheck`.

**PasswordGate** runs any number of sessions. `pc[s]` is the place of session
`s` in `runPasswordGate` and in the lockout function it has called; `file[ip]`
is what `readLockoutState` would return now, so a truncated file and a missing
one are both `NeverFailed`. One action per system call: `ReadForCheck`,
`Cleanup` (`os.Remove`), `ReadForRecord`, `OpenTruncate` and `Write`
(`os.WriteFile`), `Reset`; between them the computations `FindLocked`,
`FindUnlocked` (which read the clock after the file, as the code does) and
`CountFailure`. `orphan` is the set of sessions whose open handle lost its name
to a removal. `verifyOSAccount` is `Accept` or `RejectOrAbort`, since the gate
treats a rejection, a failed prompt and a PAM service error alike. `HangUp`,
`Kill` and `Tick` are the environment; `IOFaults` lets writes and removals fail.

**PasswordGateHistory** adds history variables: attempts begun while one and the
same lock stands on disk, and attempts begun after a lock was written, erased or
not.

**LockoutPolicy** is what the lockout promises: an attempt begins only at an
unlocked address, a failure counts at once, the one that fills the counter
locks. A process that dies may take the failure it was recording with it, or,
after the truncation, the record (`Lose`), and nothing more.
`PasswordGate!ImplementsPolicy` maps the record of an address to the one a
writer is about to write, if there is a writer.

**GateDialogue** is the conversation itself. `toFrontend` and `toGate` are the
frames on the way; a prompt has a number, which the code does not send, so that
the model can tell whether an answer meets it. The gate loop is reduced to its
messages (`SendBanner`, `CheckLockout`, `RecordFailure`, `ReplyOk`); the lockout
is "locked" or not. `verifyOSAccount` is spelled out: `Register`, `PamStart`,
`PamReturns` for `pam_authenticate`, `pam_acct_mgmt` and the deferred `pam_end`,
`Unregister`. A callback is `CallbackFails` or `CallbackBegins` with a batch of
messages of any styles, then one step for each message (`SendPrompt` and
`ReadAnswer`, `RelayText`, `RefuseStyle`) and `HandOver` or `GiveUp`. `slots` is
the response array; `GiveUp` frees it and returns an error, and `leaked` counts
the C copies of answers the array pointed to, which the code does not free. A
frame towards the process may arrive damaged: one that does not open
(`Unopenable`) fails one read, a bad length (`OutOfBounds`) every read from then
on. The stack decides as it likes, even against its callbacks. On Windows
`AskPassword` and `LogonUser` take the place of all that. The frontend is the
one of `testclient/main.go`, who may leave at any time.

**Session** is `run` with `phase` for its progress. `acceptOne` is
`AcceptReturns` (the goroutine, which may outlive the window), `AcceptFails`,
`TakeConnection`, `RefusePeer` (also for an address that cannot be parsed) and
`WindowCloses`; `backlog` is the kernel's queue. `deferred` is the stack of
deferred calls: `Prepare`, `TakeConnection` and `StartPTY` push one where the
code says `defer`, and once `run` has returned `ClosePTY`, `CloseConn` and
`CloseListener` are called from the top of it, and nothing else closes anything
before `Exit`. Gate and relay only return here.

**Console** puts `PasswordGate` and `Relay` where `Session` has one step each.
Its variables are those of the three modules, except that `gate` and `program`
of `Session` are computed from the place of the session in its gate and from the
program of the relay. One `HangUp` closes the connection for whoever reads it;
`AfterGate` is the `if err := runPasswordGate(...)` of `run`; `Resize` may send
the main goroutine to the deferred calls without a relay. Those are Session's,
with the relay's own `ClosePTY` for the program. The other
members of `Sessions` are processes of the same frontend at their own gates.

**Relay** is `relay` and the end of `run`. `outgoing` and `incoming` are the
pumps, `lastActivity` the token in the channel, `idleAt` the timer, `main` the
main goroutine. Bytes are left out: `output` says whether there is unread output,
`conn` how far the frontend has closed, including the reset that answers the
first frame after a close and makes the next fail. `Refresh` and `IdleExpires`
are both enabled when token and timer are ready, as the `select` may take
either.

**SealedFrames** is one direction of a connection. A byte is its place (frame
and position) and whether it is intact; no body with a changed byte opens, which
is what ChaCha20-Poly1305 gives. A header with a changed byte may hold any
length. `FrameChannel` is the ordered channel it implements.

**PtyBackend** is the three backends. `pc` is the main goroutine from
`startPTY` to `Close`, `child` the program with the steps of its setup, `waiter`
the goroutine in `Wait`, and `pid` says whose process has the number. On illumos
the child pushes the STREAMS modules and sizes the terminal, a failing exec is
an exit status, and `Close` kills by number; on Unix os/exec reports a failing
exec and remembers that it has waited; on Windows closing the pseudo console
ends the program. `WaitReturns` also has the outcome where the wait itself fails.
**PtySession** is the interface of `pty.go` they implement: start or refuse, end,
`Wait`, `Close`.

**Expect** is `runExpect` for the five entries of `expectTable`, on the kinds of
platform whose entries differ: `backend` is "unix" (illumos included, which
takes the default branch of the `GOOS` tests), "solaris" or "windows". Output is
a sequence of tokens (prompt, fail marker, success marker, noise); `Has` searches
the buffer that `PumpPTY` fills and `Appended` trims. `WaitForExit`, `Flush` and
`AwaitReap` are the race of the reaped program, the end of its output and the
timeouts, which may fire at any time. `isPrivilegedTarget` is the check of each
platform: the name alone on Windows, elsewhere the name "root" or a line of
/etc/passwd, which may not be found because the file cannot be read
(`FoundInPasswd`). `dropped` and `late` remember that the
buffer lost its head and that output came after the wait.

Some definitions stand behind a variant marked `Mutant:` in a comment: the same
definition with a plausible mistake. They are used by nothing in the
specifications; substituting one for its original must break the property that
`mutants` in `PROJECT.json` pairs it with, which shows that the property depends
on that piece of code.

## 3. Runs

| Run | Instance | Shows |
|---|---|---|
| `gate_race` | two sessions of one address, 2 attempts, lock 2 s, stale after 1 s, clock to 4, one kill, I/O faults | `TypeOK`, `LockBounded`, `CountBelowMax`, `OneAttemptUnderLock`, and `HungUpSessionEnds` under fairness |
| `gate_serial` | three sessions in turn, two of them of one address, 3 attempts, one kill | `NoLockWithoutFailures`, `ImplementsPolicy` |
| `gate_after_trip` | two sessions, 3 attempts | finding: `AtMostOneAfterTrip` fails |
| `relay_safety` | idle timeout 2, maximum 9, one frame on the way, two events a second | `TypeOK`, `HangUpIsNoticed`, `IdleMeansSilence`, `ExitEndsSession` |
| `relay_dead_pump` | idle timeout 2, maximum 5 | finding: `DeadPumpShowsAsSilence` fails |
| `dialogue` | PAM and Windows, 3 attempts, 2 callbacks an attempt, 2 messages a callback, damaged frames | `TypeOK`, `AnswersMatch`, `NoCrossTalk`, `CopiesLostWithExchange`, `CallbackFindsConversation`, and `DialogueEnds` under fairness |
| `pty` | the three backends, with and without a requested size | `TypeOK`, `RefusalLeavesNothing`, `StrangersAreSafe`, `SizingDoesNotRace`, `ImplementsInterface` |
| `console` | this process and a sibling, one attempt each; idle timeout 1, maximum 1 | `ImplementsSession`, and `ConsoleEnds` under fairness |
| `session` | the frontend and two other hosts, window 2 s | `TypeOK`, `ProgramNeedsAllGates`, `NothingLeftOpen`, `ProgramEndsFirst`, and `WindowIsBounded` under fairness |
| `frames` | three frames of 0 to 3 bytes with bodies up to one byte over the bound, one changed byte | `TypeOK`, `FailureHasCause`, `ImplementsChannel`, `FramesArrive` |
| `expect` | two password and two key actions on three platforms, a buffer of 4 that keeps 2 | `TypeOK`, `OkMeansAchieved`, `SecretOnlyWhenAsked`, `FailMarkerFails`, `ExitCodeDecides`, and `RequestEnds` under fairness |
| `expect_ksmbd` | the `ksmbd_user` action | finding: `RootIsRefused` fails |

### Bounds, and why they are enough

* *Gate.* Two sessions suffice for every lost update, since a stale write needs
  one reader and one writer; the third session of `gate_serial` is the one of
  the other address. `MaxClock` lets a lock be written, run out, go stale and be
  cleaned up within one run (4 > 2 + 1 in `gate_race`; 2 > 1 + 0 in
  `gate_serial`). Two attempts per session, four in all, fill the counter twice;
  `gate_serial` and `gate_after_trip` use the three attempts of the code. The
  proofs of section 5 lift the invariants to all sizes.
* *Dialogue.* Two messages in a callback are the least that can mix a prompt and
  a text, or fail behind an answer that was already read; a second callback can
  meet what a failed one left behind. Any frame of the frontend may be damaged.
  `MaxOnTheWay` bounds the terminal only.
* *PTY.* Nothing is cut short: the model is finite by itself.
* *Console.* One attempt, since `PasswordGate` has the loop; a sibling that can
  lock the address or stop anywhere; the gate takes no time. One second is
  enough for each timer of the relay to be the first, to be reset, and to be
  ready together with the other; longer ones are the matter of `relay_safety`.
* *Relay.* The clock runs to 9 in `relay_safety` because a hang-up may be
  noticed as late as `IdleTimeout * (InboxCapacity + 3)` = 8 seconds after it;
  the bound of `HangUpIsNoticed` is reached. `Burst` = 2 lets both sides be busy
  in every second; more events of one second differ only in repeating the token.
* *Session.* A backlog longer than three changes nothing after the only
  `Accept`; a window of two seconds lets connections come before, between and
  after ticks.
* *Frames.* `HeaderLen` and `Overhead` are two so that each can be cut in the
  middle; the largest size makes a body one byte over `maxFrameLen`.
* *Expect.* No action has more than two prompts. Two or three other tokens let a
  fail marker come before, between and after prompts; with `Capacity` 4 and
  `Keep` 2 the buffer drops its head in some behaviours and holds everything in
  others.

`gate_race` and `gate_serial` end when the clock reaches `MaxClock` and all
sessions are done; `AllDone`, `Gone`, `Finished`, `Over` and `Failed` are the
orderly ends, so deadlock is checked everywhere.

### Fairness, and why the code justifies it

* *Gate.* A process runs (`WF` of `Compute`). An OS authentication is only
  assumed to return once the frontend has hung up: a prompt is read without a
  deadline, so a frontend that stays connected and silent keeps the process in
  the gate.
* *Relay.* Safety properties about seconds rest on `Quiet`: a second does not
  pass while a goroutine can run. `TimelessSpec`, under which `ExitEndsSession`
  is checked, has no fair clock, so no timeout can help.
* *Session.* `acceptOne` runs and the clock of its window advances. That the rest
  of the process ends is shown in `Console`, with the real gate and relay.
* *Console.* Goroutines run, PAM returns once the frontend has hung up, window
  and timers elapse, a write to a closed connection does not block. Nothing is
  assumed of `WriteInput` and of `SendOutput` towards an open connection, which
  block while the other side does not read, nor of the siblings, the frontend or
  the program.
* *Dialogue.* The process runs, PAM returns, and the frontend reads and answers:
  `DialogueEnds` asks whether two willing sides get through. It excepts a damaged
  length (`Broken`), behind which the gate may wait for the rest of a frame that
  nobody sends. The frontend that does not answer is the matter of the other
  modules.
* *Frames.* The reader goes on reading. The writer owes nothing.
* *Expect.* `runExpect` and the reader run, and the follow-up commands return,
  for which the code has no timeout. The program owes nothing; `Reap` needs no
  fairness because every wait for it is bounded.

## 4. Findings

* `lockout.go:158` against `lockout_concurrency_test.go:28-31`. The test says
  that after the trip each session makes at most one more attempt, by
  construction. A session that read the record before the lock was written
  writes its count over the lock, after which sessions go on. What does hold is
  `OneAttemptUnderLock`: as long as one lock stays on disk. "One" matters: where
  writes may fail, a third session can replace a lock by another one, and a
  session that had read the empty file between them then makes its second
  attempt while an address that looks locked all along has had two locks. Each
  lock is therefore counted for itself.
* `main.go:303` against the comment at `main.go:300-302`. A pump that has
  returned does not show as silence while the other direction is busy; the
  session then lasts until its maximum duration. What does hold is
  `HangUpIsNoticed`: a frontend that closes both directions is noticed, because
  output can no longer be delivered.
* `expect.go:336` against `expect.go:208-210`. The privilege check is shown
  `args[0]`, which for `ksmbd_user` is `-u` and not the account, so the refusal
  of uid 0 that the comment states does not take place for that action.

Smaller disagreements met on the way, without a run of their own:

* a prompt the frontend never answers is charged as a failure (`auth.go:163`),
  though `lockout.go:153-157` speaks of complete attempts;
* `relay` waits for the idle timeout after both sides have closed
  (`main.go:305`, against the comment at 246-248);
* a fail marker that the buffer has dropped no longer fails the action
  (`expect.go:479`, against `expect.go:44`): `FailMarkerFails` excepts it, and
  output that came too late;
* where `/etc/passwd` cannot be read, or not as far as the account's line, the
  privilege check refuses only the name "root": `expect.go:597` chooses this in a
  comment, while `expect.go:206-210` and `333-335` make no exception. So
  `RootIsRefused` holds of no password action whose users include such an
  account, and is checked only in the run that refutes it for `ksmbd_user`;
* the Windows backend drops the exit code (`pty_windows.go:54`), which is why
  `ExitCodeDecides` excepts Windows and `ImplementsInterface` has a flag
  `reports`; the key actions are saved by their final check (`OkMeansAchieved`);
* on illumos `Close` may signal a number that `Wait` has given back
  (`pty_illumos.go:213`); `StrangersAreSafe` shows that it is the only such case;
* a failed callback ends an attempt only if the PAM stack lets it: the code looks
  at the verdicts of PAM and not at what its own callback returned
  (`auth_unix.go:189-192` can be read otherwise);
* `pam_end` is given the status of `pam_start` and not of the last call
  (`auth_unix.go:226`);
* an error in the middle of a batch frees the response array but not the C
  copies of the answers before it (`auth_unix.go:170`, `179`);
  `CopiesLostWithExchange` shows that this is the only way to lose them: no
  exchange that goes through with a frontend that stays does.

## 5. Proofs

Every invariant and action property that a passing run checks, and all four
refinements, are theorems of TLAPS, for all values of the constants; liveness is
not. Each proof module states its inductive invariant first, as a conjunction of
named parts, then shows that it holds at the start and that each action
keeps it, and derives the theorems in a few lines each. TLC checked every
inductive invariant on the instance of the component's run before it was proved
(that of the frames with the addresses computed from `sent`).
The assumptions are those the modules name (`LockoutAssumption`,
`GateAssumption`, ...), which say only that constants have their types and that
durations and capacities are positive; TLC evaluates them in the runs. Four
theorems assume more, and say so below: `GateImplementsPolicy` and the three
corollaries in `Console_proofs`.

| Module | Theorems |
|---|---|
| `PasswordGate_proofs` | `TypeCorrect`, `CounterNeverFull`, `LocksAreBounded`, `LocksAreEarned`, `GateImplementsPolicy`, `CheckStopsAttempts` |
| `GateDialogue_proofs` | `TypeCorrect`, `EveryAnswerMatches`, `NothingCrosses`, `LossesExplained`, `ConversationFound` |
| `Session_proofs` | `TypeCorrect`, `ProgramIsGuarded`, `DefersCloseAll`, `ProgramGoneFirst` |
| `Relay_proofs` | `TypeCorrect`, `OnlySilenceEnds`, `HangUpEndsRelay` |
| `Console_proofs` | `ConsoleImplements`, `ConsoleIsGuarded`, `ConsoleClosesAll`, `ConsoleEndsProgramFirst` |
| `SealedFrames_proofs` | `TypeCorrect`, `FailureExplained`, `ReaderImplementsChannel` |
| `PtyBackend_proofs` | `TypeCorrect`, `RefusalIsClean`, `OnlyOwnProcessKilled`, `SizingIsOrdered`, `BackendImplements` |
| `Expect_proofs` | `TypeCorrect`, `SuccessIsReal`, `SecretsFollowPrompts`, `ComplaintsCount`, `ExitCodeCounts` |

### Lockout and gate

The lemmas `AfterFailureType`, `AfterFailureCount` and `AfterFailureDeadline`
say what one failure makes of a record. `StepRecordFlow` then reduces all steps
of all sessions to one statement, `RecordFlow`: a record on disk stays, is
emptied or is replaced by the one a session of that address holds; a record a
session holds stays, is read from its file, or is `AfterFailure` of what it was
with the failure counted. `CounterNeverFull` and `LocksAreBounded` follow with
few lines. `LocksAreEarned` needs a strengthening: `NoLockWithoutFailures`
speaks of files only and is not inductive, since a session may hold a record no
file shows; `FailuresCovered` says the same of the records in flight.

`CheckStopsAttempts` (`OneAttemptUnderLock`) needs `LocksKnown`: once a session
has begun an attempt under a lock, what it reads next is that very lock, for as
long as the lock stands. Two lemmas about all steps support it: an attempt
begins only in the comparison that finds no lock (`AttemptsBeginUnlocked`), and
the record compared is the one in the file when it was read
(`ComparesWhatItRead`).

`GateImplementsPolicy` assumes `~Parallel` and `~IOFaults`, which is what
`ImplementsPolicy` is about: with overlap or failing writes the policy does not
hold, as the finding on `lockout.go:158` shows. Its invariant `SerialInv` says
that no two sessions of an address are at work at once (`Exclusive`), that no
handle has lost its name, and that what a session has read is what the file
still holds (`Current`). Under it each system call is a policy step of its own
address or none; a kill becomes `Lose` or nothing.

### Dialogue

`EveryAnswerMatches` looks local and is not: frames carry no number, so an
answer is right only because nothing else is on the way. `Wire` says exactly
what can be in either direction at every place of the gate: while it speaks
nothing is on the way to it, or only a frame of bad length; while it waits, either
the question is still the last frame towards the frontend or its answer, whole or
damaged, is the only frame on the way back; after the last word only output
follows (`Parted`). `Handles` ties `convNextID` to the attempt, so that a new
handle is never one in use. `Aligned` says that slot `i` belongs to message `i`
of the callback and holds an answer only if that message is a prompt;
`LossesExplained` (`CopiesLostWithExchange`) follows from it step by step.

### Session and its composition

`Session_proofs` shows the bound of `TypeOK` on the kernel's queue by a
pigeonhole argument: each peer waits in it at most once (`QueuedOnce`), and
there are finitely many. Gate, token and address are then followed phase by
phase. `IsFiniteSet(Peers)` was added to `SessionAssumption` for it; without it
`Cardinality(Peers)` means nothing.

`DefersCloseAll` (`NothingLeftOpen`) is an invariant over the stack: in each
phase it names the calls that must be deferred (`DefersFollow`), and, while `run`
returns, ties each thing that is open to a call still on the stack (`OpenedInv`).
`ProgramGoneFirst` (`ProgramEndsFirst`) follows from it: while the program runs,
all three calls are still to come, `pty.Close` first.

`ConsoleImplements` needs to know how the places of three modules fit together:
the gate is final only when the step that leads on from it is taken
(`GateFollows`), there is no relay before the end of `startPTY`, and what the
deferred `pty.Close` has killed stays dead (`RelayFollows`). Each of the
process's steps is then a step of `Session` or none. `ConsoleIsGuarded`,
`ConsoleClosesAll` and `ConsoleEndsProgramFirst` carry `Session`'s theorems over
to the composed process; they assume of `Hosts`, `Frontend`, `Nobody` and
`AcceptWindow` what `SessionAssumption` does.

### Relay

Both theorems rest on where the idle timer can stand. `Timer`: no second passes
with the timer expired. `Signals`: a token is as old as the clock, and without
one the timer was restarted since the last activity; `OnlySilenceEnds`
(`IdleMeansSilence`) follows. `HangUpEndsRelay` (`HangUpIsNoticed`) is an
invariant with a potential: after a hang-up `Deadline + IdleTimeout * Due` never
grows, where `Deadline` is where the timer will stand once a pending token is
taken and `Due` counts the signals still possible: the unread frames, and at
most two chunks of output (`Awake`).

### Frames

The argument is about addresses. Frame `i` starts behind the bytes of the frames
before it (`Laid`); whatever is cut, the bytes in the reader's buffer and on the
wire are the ones whose addresses follow the place where it stands (`Follow`,
`Stream`), and an address determines the byte (`AddressDetermines`). So a
header that opens is the header of the next frame, a body that opens is its
body, and `ReaderImplementsChannel` follows, for any number of frames of any
lengths and any number of changed bytes. `FailureExplained` needs `Unchanged`
as well: before the first changed byte, every byte is intact and the length the
reader goes by is the one that was written.

### PTY backends

`BackendInv` says, for each place of the main goroutine, what may be true of the
master (`MasterFollows`), the child (`ChildFollows`), its id (`IdFollows`), its
setup (`SetupFollows`) and its status (`StatusFollows`), for all three backends
at once. `OnlyOwnProcessKilled` holds because the number stays the child's until
somebody has waited for it; `BackendImplements` matches each step with one of
`PtySession`.

### Expect

Two kinds of facts meet in `ExpectInv`. `Output`: a prompt or a success marker
that can be found anywhere, in the buffer or in the terminal, was printed by a
program that asked or had succeeded, and a complaint is never lost but by
trimming; this rests on lemmas about what `Appended` keeps. `Lifetimes` and
`Judged`: what must be over before a verdict, and what each path to it has
established.

### What stays with TLC

* Liveness: `HungUpSessionEnds`, `ExitEndsSession`, `DialogueEnds`,
  `ConsoleEnds`, `WindowIsBounded`, `FramesArrive` and `RequestEnds`. The prover
  has no reasoning about `ENABLED`, and so none about fairness.
* The properties of the three finding runs, which are false.

## 6. What is not modelled, and why

* The last output of a program: the models say when a session ends, not which
  bytes have arrived by then, and no document promises them.
* What a PAM module does inside, the service name in
  `/etc/cs-console-pam-service`, and the contents of answers: the model keeps
  which answer is in which slot and how many copies are lost. The array itself is
  freed on every way out but the last, which hands it to PAM: no property is
  claimed of it.
* A wait for the program that fails while it runs: `Wait4` and its like fail only
  once there is nothing to wait for; the models let the wait fail at the end.
* The crash of a process in `Console`: `PasswordGate` has it, and beyond the gate
  a process shares nothing with another.
* The command line and the environment of the program (`pty_windows.go:26-37`,
  `TERM`, `NO_COLOR`).
* A clock that is set back. The gate compares wall-clock seconds; the models
  only let it advance.
* Two overlapping writes of different length may leave the tail of the longer
  text behind the shorter one. The leftover holds no `=`, so
  `readLockoutState` skips it and the file reads as the record written last,
  as `Write` says.
* On Windows a file that is open cannot be removed; `IOFaults` covers it.
* Validation of dataset names, algorithms and user names, and parsing of the start
  configuration: accepted or refused. Of `/etc/passwd` the models keep whether the
  account is found with uid 0.
* ANSI sequences and white space in the output of programs: a needle matches a
  token or does not.
* Keys, nonces and the entropy behind them: sealing is an authenticated envelope.
* Of the smoke-test client everything but its dialogue; build files.

## 7. Plan

Done: all modules of section 2, their runs, and the theorems of section 5. To
come:

1. `Console` and the theorems of `Relay` and `PasswordGate`: that its gate
   behaves as `PasswordGate!Spec`, and that its relay keeps `IdleMeansSilence`
   and `HangUpIsNoticed` although the resize may leave it without a `Select`.
2. `GateDialogue` as an implementation of one attempt of `PasswordGate`, so that
   `Accept` and `RejectOrAbort` rest on the conversation they stand for.
3. What overlapping sessions still promise of the policy: a bound on the failures
   that can be lost by the number of sessions that overlap.
