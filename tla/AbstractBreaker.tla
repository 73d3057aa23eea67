-------------------------- MODULE AbstractBreaker --------------------------
(***************************************************************************)
(* What a circuit breaker promises, independently of how it decides that a *)
(* group is failing: a group leaves "open" only once its cooldown ended,   *)
(* it closes only from a probed (half-open) phase, and every cooldown      *)
(* lasts between MinCooldown and MaxCooldown.  CircuitBreaker is shown to  *)
(* implement this machine.                                                 *)
(***************************************************************************)
EXTENDS Integers

CONSTANTS Groups, MinCooldown, MaxCooldown, MaxNow

VARIABLES
  life,   \* [Groups -> [phase, until]]: until is the end of an open phase
  kept,   \* the copy of life a restart loads
  now

vars == <<life, kept, now>>

Closed == [phase |-> "closed", until |-> 0]
HalfOpen == [phase |-> "half-open", until |-> 0]
Open(until) == [phase |-> "open", until |-> until]

(* An open group whose cooldown ended may be probed at any later moment.    *)
Probeable(g) ==
  \/ life[g].phase = "half-open"
  \/ life[g].phase = "open" /\ now >= life[g].until

Init ==
  /\ life = [g \in Groups |-> Closed]
  /\ kept = life
  /\ now = 0

(* A change may be written at once.                                         *)
MayWrite == kept' \in {kept, life'} /\ UNCHANGED now

Trip(g) ==
  /\ life[g].phase = "closed" \/ Probeable(g)
  /\ \E c \in MinCooldown .. MaxCooldown :
       life' = [life EXCEPT ![g] = Open(now + c)]
  /\ MayWrite

CoolDown(S) ==
  /\ \A g \in S : Probeable(g)
  /\ life' = [g \in Groups |-> IF g \in S THEN HalfOpen ELSE life[g]]
  /\ MayWrite

Recover(g) ==
  /\ Probeable(g)
  /\ life' = [life EXCEPT ![g] = Closed]
  /\ MayWrite

Save ==
  /\ kept' = life
  /\ UNCHANGED <<life, now>>

Restart ==
  /\ life' = kept
  /\ UNCHANGED <<kept, now>>

Tick ==
  /\ now < MaxNow
  /\ now' = now + 1
  /\ UNCHANGED <<life, kept>>

Next ==
  \/ \E g \in Groups : Trip(g) \/ Recover(g)
  \/ \E S \in SUBSET Groups : CoolDown(S)
  \/ Save
  \/ Restart
  \/ Tick

Spec == Init /\ [][Next]_vars
=============================================================================
