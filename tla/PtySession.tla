------------------------------ MODULE PtySession ------------------------------
(***************************************************************************)
(* The interface ptySession of pty.go, as the relay and expect mode rely   *)
(* on it: a terminal either starts with its program or is refused, Wait    *)
(* returns after the program has ended and calls no bad end a success, and *)
(* after Close no program is left.                                         *)
(***************************************************************************)

VARIABLES
  reports,  \* does Wait look at the exit status?
  session,  \* "none", "open", "refused", "closed"
  program,  \* "none", "running", "ended"
  bad,      \* did it end with an exit code other than 0, or by a signal?
  waited    \* what Wait returned: "nothing", "ok", "error"

vars == <<reports, session, program, bad, waited>>

Init ==
  /\ reports \in BOOLEAN
  /\ session = "none" /\ program = "none" /\ bad = FALSE
  /\ waited = "nothing"

(* A program may be quicker than the call that starts it. *)
Start ==
  /\ session = "none"
  /\ session' = "open"
  /\ \/ program' = "running" /\ UNCHANGED bad
     \/ program' = "ended" /\ bad' \in BOOLEAN
  /\ UNCHANGED <<reports, waited>>

Refuse ==
  /\ session = "none"
  /\ session' = "refused"
  /\ UNCHANGED <<reports, program, bad, waited>>

End ==
  /\ program = "running"
  /\ program' = "ended" /\ bad' \in BOOLEAN
  /\ UNCHANGED <<reports, session, waited>>

(* The wait may fail itself, and says so of a good end as well. *)
Wait ==
  /\ program = "ended" /\ waited = "nothing"
  /\ waited' \in {"ok", "error"}
  /\ reports /\ bad => waited' = "error"
  /\ UNCHANGED <<reports, session, program, bad>>

Close ==
  /\ session = "open"
  /\ session' = "closed"
  /\ \/ program = "running" /\ program' = "ended" /\ bad' = TRUE
     \/ program = "ended" /\ UNCHANGED <<program, bad>>
  /\ UNCHANGED <<reports, waited>>

Next == Start \/ Refuse \/ End \/ Wait \/ Close

Spec == Init /\ [][Next]_vars

=============================================================================
