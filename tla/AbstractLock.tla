---------------------------- MODULE AbstractLock ----------------------------
(***************************************************************************)
(* What the manual lock promises the pages that show it, independently of  *)
(* who asks for it and how its writes go: a register in memory and a copy  *)
(* in a file.  Every change takes the next revision, so that a page which  *)
(* compares revisions never overwrites a lock it has not seen; only a      *)
(* crash takes changes back, those not yet written, and it brings back     *)
(* exactly what is written.  ControlPlane is shown to implement this       *)
(* register.                                                               *)
(***************************************************************************)
EXTENDS Naturals

CONSTANTS Groups, NoGroup

VARIABLES
  lock,    \* [group, revision]: what is obeyed and shown
  stored   \* the copy of lock a restart loads

vars == <<lock, stored>>

Init ==
  /\ lock = [group |-> NoGroup, revision |-> 0]
  /\ stored = lock

(* Lock another group, or none.                                             *)
Change(g) ==
  /\ g # lock.group
  /\ lock' = [group |-> g, revision |-> lock.revision + 1]
  /\ UNCHANGED stored

Write ==
  /\ stored' = lock
  /\ UNCHANGED lock

Crash ==
  /\ lock' = stored
  /\ UNCHANGED stored

Next == (\E g \in Groups \cup {NoGroup} : Change(g)) \/ Write \/ Crash

Spec == Init /\ [][Next]_vars
=============================================================================
