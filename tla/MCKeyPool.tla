------------------------------ MODULE MCKeyPool ------------------------------
(* Small instances of KeyPool for TLC. *)
EXTENDS KeyPool, TLC

(* Groups are interchangeable, and so are requests. *)
PoolSymmetry == Permutations(Groups) \cup Permutations(Clients)

(* FairSpec with its fairness written out, which TLC checks faster.  What   *)
(* is owed is a continuation, an answer to the running operation, or the    *)
(* end of the control plane's write, and each is enabled exactly as said    *)
(* here.  The steps said to settle the debt are those that do and, besides, *)
(* at most a new start of the process, so that no more is assumed.          *)
Continues ==
  /\ ~Settled
  /\ \/ queue' # queue \/ job' # job
     \/ \E c \in Callers : Ready(c) /\ calls'[c] # calls[c]

HasAnswer ==
  Settled /\ job.stage \in {"creating", "listing", "deleting", "cleaning", "writing"}
Answered ==
  HasAnswer /\ <<job'.stage, job'.page, job'.victim>> # <<job.stage, job.page, job.victim>>

HasSaved == Settled /\ calls[Daemon].phase = "saving"
Saved == HasSaved /\ calls'[Daemon].phase # "saving"

PlainFairSpec ==
  /\ Spec
  /\ []<>Settled \/ []<><<Continues>>_vars
  /\ <>[]~HasAnswer \/ []<><<Answered>>_vars
  /\ <>[]~HasSaved \/ []<><<Saved>>_vars
=============================================================================
