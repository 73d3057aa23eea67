-------------------------- MODULE MCSessionAffinity --------------------------
(* Small instances of SessionAffinity for TLC. *)
EXTENDS SessionAffinity, TLC

(* No action treats one response id differently from another. *)
ResponseSymmetry == Permutations(Responses)
=============================================================================
