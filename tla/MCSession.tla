------------------------------- MODULE MCSession -------------------------------
(***************************************************************************)
(* Instances of Session: the frontend and one or two other hosts that      *)
(* reach the port.                                                         *)
(***************************************************************************)
EXTENDS Session

CONSTANTS fe, other, third

=============================================================================
