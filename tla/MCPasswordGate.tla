---------------------------- MODULE MCPasswordGate ----------------------------
(***************************************************************************)
(* A small instance of PasswordGate: two sessions of one address, and a    *)
(* third of another.                                                       *)
(***************************************************************************)
EXTENDS PasswordGate, TLC

CONSTANTS s1, s2, s3, ip1, ip2

TwoAddresses == (s1 :> ip1) @@ (s2 :> ip1) @@ (s3 :> ip2)

=============================================================================
