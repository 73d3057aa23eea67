--------------------------- MODULE CircuitBreaker ---------------------------
(***************************************************************************)
(* The per-group circuit breaker of packages/core/src/breaker.ts.          *)
(*                                                                         *)
(* Every public method is one action, callable at any moment by any        *)
(* caller: nothing here says who admits requests or reports outcomes (the  *)
(* module ProxyRequests composes this one with the requests that do).      *)
(* Times are instants 0..MaxNow; `at' is the time argument of a method,    *)
(* which routing captures before it awaits fresh statistics, so it may     *)
(* trail the clock by up to MaxLag.  A group absent from the code's Map is *)
(* the fresh breaker that group() creates on first use.                    *)
(***************************************************************************)
EXTENDS Integers, Functions

CONSTANTS
  Groups,           \* upstream groups
  Threshold,        \* consecutiveFailureThreshold
  WindowMs,         \* windowMs
  MinSamples,       \* windowMinSamples
  RateNum, RateDen, \* windowFailureRate = RateNum / RateDen
  BaseCooldown,     \* baseCooldownMs
  MaxCooldown,      \* maxCooldownMs
  MaxNow,           \* bound: the last instant
  MaxLag,           \* bound: how stale a captured time argument may be
  MaxPerInstant     \* bound: outcomes recorded for one group in one instant

ASSUME BreakerAssumption ==
  /\ Threshold \in Nat \ {0} /\ MinSamples \in Nat
  /\ WindowMs \in Nat
  /\ RateNum \in Nat /\ RateDen \in Nat \ {0}
  /\ BaseCooldown \in Nat \ {0} /\ MaxCooldown \in Nat
  /\ BaseCooldown <= MaxCooldown
  /\ MaxNow \in Nat /\ MaxLag \in Nat /\ MaxPerInstant \in Nat

VARIABLES
  groups,  \* [Groups -> Breaker]: the Map<number, GroupBreaker>
  saved,   \* [Groups -> Breaker]: the last toJSON() a restart will read
  now      \* Date.now()

vars == <<groups, saved, now>>

Times == 0 .. MaxNow
Never == -1                                     \* openedAt === undefined
States == {"closed", "open", "half-open"}

(* The window array as a bag: how many successes and failures it holds per  *)
(* instant.  The code only filters it by time and counts its entries.       *)
Window == [Times -> [ok : Nat, fail : Nat]]
EmptyWindow == [t \in Times |-> [ok |-> 0, fail |-> 0]]

Breaker == [state : States, consecutive : Nat, window : Window,
            openedAt : Times \cup {Never}, openCount : Nat, probe : BOOLEAN]

FreshBreaker == [state |-> "closed", consecutive |-> 0, window |-> EmptyWindow,
                 openedAt |-> Never, openCount |-> 0, probe |-> FALSE]

(* JSON keeps every field but probeInFlight, which a restart starts false.  *)
(* Slip: the slot is written out with the rest.                             *)
SerializedWhole(b) == b

Serialized(b) == [b EXCEPT !.probe = FALSE]

TypeOK ==
  /\ groups \in [Groups -> Breaker]
  /\ saved \in [Groups -> Breaker]
  /\ now \in Times

-----------------------------------------------------------------------------
(* The private helpers.                                                     *)

CooldownMs(b) ==
  LET exp == IF b.openCount > 1 THEN b.openCount - 1 ELSE 0
      raw == BaseCooldown * 2 ^ exp
  IN  IF raw < MaxCooldown THEN raw ELSE MaxCooldown

(* Slip: the back-off is forgotten, every cooldown lasts as the first.      *)
CooledEarly(b, at) ==
  /\ b.state = "open"
  /\ b.openedAt # Never
  /\ at - b.openedAt >= BaseCooldown

Cooled(b, at) ==
  /\ b.state = "open"
  /\ b.openedAt # Never
  /\ at - b.openedAt >= CooldownMs(b)

Recent(w, at) ==
  [t \in Times |-> IF t >= at - WindowMs THEN w[t] ELSE [ok |-> 0, fail |-> 0]]

Refresh(b, at) ==
  [b EXCEPT !.state = IF Cooled(b, at) THEN "half-open" ELSE @,
            !.probe = @ /\ ~Cooled(b, at),
            !.window = Recent(@, at)]

Failures(w) == SumFunction([t \in Times |-> w[t].fail])
Samples(w) == SumFunction([t \in Times |-> w[t].ok + w[t].fail])

RateTrip(w) ==
  /\ Samples(w) >= MinSamples
  /\ Failures(w) * RateDen >= RateNum * Samples(w)

(* Slips: the probe slot stays taken; the back-off starts over.             *)
TrippedKeepsProbe(b, at) ==
  [b EXCEPT !.state = "open", !.openedAt = at, !.openCount = @ + 1]
TrippedStartsOver(b, at) ==
  [b EXCEPT !.state = "open", !.openedAt = at, !.openCount = 1, !.probe = FALSE]

Tripped(b, at) ==
  [b EXCEPT !.state = "open", !.openedAt = at, !.openCount = @ + 1, !.probe = FALSE]

(* allowRequest: whether the call admits, and the breaker it leaves behind. *)
Admits(b, at) ==
  LET r == Refresh(b, at)
  IN  r.state = "closed" \/ (r.state = "half-open" /\ ~r.probe)

Asked(b, at) ==
  LET r == Refresh(b, at)
  IN  [r EXCEPT !.probe = @ \/ r.state = "half-open"]

(* Slip: a neutral outcome is taken for no outcome at all.                  *)
ReleasedNot(b, at) == Refresh(b, at)

Released(b, at) ==
  LET r == Refresh(b, at)
  IN  [r EXCEPT !.probe = @ /\ r.state # "half-open"]

(* Slips: success decays the failure count instead of clearing it; recovery *)
(* keeps the back-off; the window's rate is judged on a success too.        *)
SucceededDecays(b, at) ==
  LET r == Refresh(b, at)
  IN  IF r.state = "half-open"
        THEN [FreshBreaker EXCEPT !.window[at].ok = 1]
        ELSE [r EXCEPT !.window[at].ok = @ + 1, !.consecutive = @ - 1]
SucceededKeepsBackoff(b, at) ==
  LET r == Refresh(b, at)
  IN  IF r.state = "half-open"
        THEN [FreshBreaker EXCEPT !.window[at].ok = 1, !.openCount = r.openCount]
        ELSE [r EXCEPT !.window[at].ok = @ + 1, !.consecutive = 0]
SucceededJudges(b, at) ==
  LET r == Refresh(b, at)
      s == [r EXCEPT !.window[at].ok = @ + 1, !.consecutive = 0]
  IN  IF r.state = "half-open" THEN [FreshBreaker EXCEPT !.window[at].ok = 1]
      ELSE IF r.state = "closed" /\ RateTrip(s.window) THEN Tripped(s, at) ELSE s

Succeeded(b, at) ==
  LET r == Refresh(b, at)
  IN  IF r.state = "half-open"
        THEN [FreshBreaker EXCEPT !.window[at].ok = 1]
        ELSE [r EXCEPT !.window[at].ok = @ + 1, !.consecutive = 0]

(* Slip: failures of an open group trip it again.                           *)
FailedRetrips(b, at) ==
  LET r == Refresh(b, at)
      f == [r EXCEPT !.window[at].fail = @ + 1, !.consecutive = @ + 1]
  IN  IF f.state = "half-open" \/ f.consecutive >= Threshold \/ RateTrip(f.window)
        THEN Tripped(f, at) ELSE f

Failed(b, at) ==
  LET r == Refresh(b, at)
      f == [r EXCEPT !.window[at].fail = @ + 1, !.consecutive = @ + 1]
      trip == \/ f.state = "half-open"
              \/ /\ f.state = "closed"
                 /\ f.consecutive >= Threshold \/ RateTrip(f.window)
  IN  IF trip THEN Tripped(f, at) ELSE f

Outcomes(b) == b.window[now].ok + b.window[now].fail

-----------------------------------------------------------------------------
Init ==
  /\ groups = [g \in Groups |-> FreshBreaker]
  /\ saved = groups
  /\ now = 0

(* A time argument captured by a caller: now, or up to MaxLag earlier.      *)
CallTimes == {at \in Times : at <= now /\ now - at <= MaxLag}

AllowRequest(g, at) ==
  /\ groups' = [groups EXCEPT ![g] = Asked(@, at)]
  /\ UNCHANGED <<saved, now>>

ReleaseRequest(g, at) ==
  /\ groups' = [groups EXCEPT ![g] = Released(@, at)]
  /\ UNCHANGED <<saved, now>>

(* isTripped looks at one group; snapshot and trippedGroupIds refresh all.  *)
IsTripped(g, at) ==
  /\ groups' = [groups EXCEPT ![g] = Refresh(@, at)]
  /\ UNCHANGED <<saved, now>>

Snapshot(at) ==
  /\ groups' = [g \in Groups |-> Refresh(groups[g], at)]
  /\ UNCHANGED <<saved, now>>

(* Outcomes are always reported with the current time.                      *)
RecordSuccess(g) ==
  /\ Outcomes(groups[g]) < MaxPerInstant
  /\ groups' = [groups EXCEPT ![g] = Succeeded(@, now)]
  /\ UNCHANGED <<saved, now>>

RecordFailure(g) ==
  /\ Outcomes(groups[g]) < MaxPerInstant
  /\ groups' = [groups EXCEPT ![g] = Failed(@, now)]
  /\ UNCHANGED <<saved, now>>

ToJSON ==
  /\ saved' = [g \in Groups |-> Serialized(groups[g])]
  /\ UNCHANGED <<groups, now>>

(* The process restarts and rebuilds the breaker from the last saved copy;  *)
(* everything recorded since is lost.                                       *)
FromJSON ==
  /\ groups' = saved
  /\ UNCHANGED <<saved, now>>

Tick ==
  /\ now < MaxNow
  /\ now' = now + 1
  /\ UNCHANGED <<groups, saved>>

Next ==
  \/ \E g \in Groups, at \in CallTimes :
       AllowRequest(g, at) \/ ReleaseRequest(g, at) \/ IsTripped(g, at)
  \/ \E at \in CallTimes : Snapshot(at)
  \/ \E g \in Groups : RecordSuccess(g) \/ RecordFailure(g)
  \/ ToJSON
  \/ FromJSON
  \/ Tick

Spec == Init /\ [][Next]_vars

-----------------------------------------------------------------------------
(* Properties.                                                              *)

(* A closed group carries nothing over from an outage: no back-off, no      *)
(* opening time, no probe slot, and fewer consecutive failures than would   *)
(* have tripped it.  This must survive recovery (recordSuccess) and a       *)
(* restart from an older copy (fromJSON).                                   *)
ClosedClean(b) ==
  b.state = "closed" =>
    /\ b.openCount = 0 /\ b.openedAt = Never /\ ~b.probe
    /\ b.consecutive < Threshold

(* A group that is not closed knows since when, counts its openings, and    *)
(* only a half-open one lends its probe slot: without openedAt, refresh     *)
(* could never let it leave "open".                                         *)
OutageTimed(b) ==
  /\ b.state # "closed" => b.openedAt \in 0 .. now /\ b.openCount > 0
  /\ b.probe => b.state = "half-open"

(* Both hold of the live breakers and of the copy a restart would load.     *)
ClosedIsClean == \A g \in Groups : ClosedClean(groups[g]) /\ ClosedClean(saved[g])

(* See OutageTimed: every outage can be timed, live or restored.            *)
OutageIsTimed == \A g \in Groups : OutageTimed(groups[g]) /\ OutageTimed(saved[g])

(* While the cooldown of an open group runs, nothing but a restart touches  *)
(* its outage: outcomes of requests admitted before the trip neither end    *)
(* the cooldown, nor restart it, nor raise the back-off (refresh, and the   *)
(* early return of recordFailure for a state that is not "closed").         *)
CooldownUndisturbed ==
  [][\A g \in Groups :
       groups[g].state = "open" /\ now - groups[g].openedAt < CooldownMs(groups[g])
       => \/ FromJSON
          \/ /\ groups'[g].state = "open"
             /\ groups'[g].openedAt = groups[g].openedAt
             /\ groups'[g].openCount = groups[g].openCount]_vars

(* Until a success closes the group, its cooldown never shrinks, and every  *)
(* new opening doubles it up to the cap (cooldownMs, trip, recordSuccess).  *)
BackoffEscalates ==
  [][\A g \in Groups :
       groups[g].state # "closed" /\ groups'[g].state # "closed"
       => LET c == CooldownMs(groups[g])
              c2 == CooldownMs(groups'[g])
          IN  \/ FromJSON
              \/ c2 = c /\ groups'[g].openedAt = groups[g].openedAt
              \/ c2 = IF 2 * c < MaxCooldown THEN 2 * c ELSE MaxCooldown]_vars

(* A closed group opens only because of a failure recorded in that very     *)
(* step: neither a success, nor old failures, nor a look at it trips it.    *)
OnlyFailureTrips ==
  [][\A g \in Groups :
       groups[g].state = "closed" /\ groups'[g].state = "open"
       => \/ FromJSON
          \/ groups'[g].window[now].fail = groups[g].window[now].fail + 1]_vars

-----------------------------------------------------------------------------
(* What the breaker promises its callers, without windows, counts and       *)
(* rates: see AbstractBreaker.                                              *)
Outline(b) ==
  [phase |-> b.state,
   until |-> IF b.state = "open" THEN b.openedAt + CooldownMs(b) ELSE 0]

Abstract == INSTANCE AbstractBreaker WITH
  life <- [g \in Groups |-> Outline(groups[g])],
  kept <- [g \in Groups |-> Outline(saved[g])],
  MinCooldown <- BaseCooldown

(* The detailed breaker implements the abstract one: a group closes again   *)
(* only after a bounded cooldown, whatever is recorded, saved or reloaded.  *)
RefinesAbstractBreaker == Abstract!Spec
=============================================================================
