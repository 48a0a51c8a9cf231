------------------------ MODULE MCPasswordGateHistory ------------------------
(***************************************************************************)
(* Small instances of PasswordGateHistory: two sessions of one address.    *)
(***************************************************************************)
EXTENDS PasswordGateHistory, TLC

CONSTANTS s1, s2, ip1

PairOnOneAddress == (s1 :> ip1) @@ (s2 :> ip1)

SessionSymmetry == Permutations(Sessions)

=============================================================================
