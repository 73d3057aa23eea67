---------------------------- MODULE AbstractGate ----------------------------
(***************************************************************************)
(* What the lease of single-key mode promises those who ask for it,        *)
(* independently of what they do with it: they are let in one at a time,   *)
(* in the order in which they asked, and each of them leaves before the    *)
(* next one enters.  Nobody gives up his place; only the end of the        *)
(* process empties the line.  SingleKeyMode is shown to implement it.      *)
(***************************************************************************)
EXTENDS Naturals, Sequences

CONSTANT Callers

VARIABLES
  line,   \* who asked and has not left yet, in the order of asking
  inside  \* is the first of the line inside?

vars == <<line, inside>>

Init == line = <<>> /\ inside = FALSE

(* Nobody asks again before he has left.                                    *)
Join(c) ==
  /\ \A i \in 1 .. Len(line) : line[i] # c
  /\ line' = Append(line, c)
  /\ UNCHANGED inside

Enter ==
  /\ line # <<>> /\ ~inside
  /\ inside' = TRUE
  /\ UNCHANGED line

Leave ==
  /\ inside
  /\ line' = Tail(line) /\ inside' = FALSE

Crash == line' = <<>> /\ inside' = FALSE

Next == (\E c \in Callers : Join(c)) \/ Enter \/ Leave \/ Crash

Spec == Init /\ [][Next]_vars
=============================================================================
