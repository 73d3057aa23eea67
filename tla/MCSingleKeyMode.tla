--------------------------- MODULE MCSingleKeyMode ---------------------------
(* A small instance of SingleKeyMode for TLC. *)
EXTENDS SingleKeyMode

(* FairSpec with its weak fairness written out, which TLC checks faster:    *)
(* whoever has gone beyond waiting, or waits as the first, has a step, all  *)
(* these steps change the record of the caller, and nothing else does but   *)
(* its arrival and a restart.                                               *)
HasStep(c) ==
  \/ call[c].stage \notin {"idle", "waiting"}
  \/ call[c].stage = "waiting" /\ Holds(c)

PlainFairSpec ==
  /\ Spec
  /\ \A c \in Callers : []<>~HasStep(c) \/ []<><<HasStep(c) /\ call'[c] # call[c]>>_vars
=============================================================================
