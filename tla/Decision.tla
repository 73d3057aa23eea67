------------------------------ MODULE Decision ------------------------------
(***************************************************************************)
(* When the current group is left for a better one: decide of              *)
(* packages/core/src/decision.ts.  Its failover option, which the router   *)
(* does not use, is left out.                                              *)
(***************************************************************************)
EXTENDS Scoring

CONSTANTS
  NoGroup,
  Stickiness,  \* policy.stickiness
  PenaltyMax,  \* policy.cachePenaltyMax
  CacheIdle,   \* policy.cacheIdleMs
  MinDwell,    \* policy.minDwellMs
  Never        \* no time recorded

ASSUME DecisionAssumption ==
  /\ NoGroup \notin Groups /\ Never \notin Nat
  /\ Stickiness \in Nat /\ PenaltyMax \in Nat
  /\ CacheIdle \in Nat /\ MinDwell \in Nat

(* A RouteState: [current, lastSwitch].  The pending switch it also keeps   *)
(* is shown and names the reason of a later switch; nothing depends on it.  *)
Stay(rs, reason) ==
  [target |-> rs.current, switch |-> FALSE, reason |-> reason, weighed |-> TRUE]

Move(target, reason, weighed) ==
  [target |-> target, switch |-> TRUE, reason |-> reason, weighed |-> weighed]

(* A TrafficSnapshot at the time of a decision: whether streams are open,    *)
(* and if not, the time since the last request, counted up to CacheIdle     *)
(* (also when there was none).                                              *)
Traffic ==
  [streams : {TRUE}, idle : {0}] \cup [streams : {FALSE}, idle : 0 .. CacheIdle]

(* Whether an advantage exceeds the stickiness and then the threshold: a     *)
(* penalty on top that shrinks to nothing while the cache idles away        *)
(* (trafficRecency).  With a cacheIdleMs of 0 an idle time counts for       *)
(* nothing, and none at all makes 0/0, a threshold that every advantage     *)
(* passes: either way the stickiness alone decides.                         *)
Exceeds(advantage, traffic) ==
  IF traffic.streams THEN advantage > Stickiness + PenaltyMax
  ELSE IF CacheIdle = 0 THEN advantage > Stickiness
  ELSE advantage * CacheIdle
         > Stickiness * CacheIdle + PenaltyMax * (CacheIdle - traffic.idle)

Dwelling(rs, at) == rs.lastSwitch # Never /\ at - rs.lastSwitch < MinDwell

(* decide.  weighed tells whether two scores were compared (the advantage   *)
(* is defined).                                                             *)
Decide(s, e, rs, traffic, at) ==
  IF e.worthy = {} THEN Stay(rs, "no_candidate")
  ELSE
  LET top == Top(s, e)
      priceless == rs.current \notin e.worthy  \* advantage over minus infinity
      advantage == e.score[top] - e.score[rs.current]
  IN
  CASE rs.current = NoGroup -> Move(top, "initial_route", FALSE)
    [] rs.current \in e.standby -> Move(top, "better_price", FALSE)
    [] rs.current \notin e.eligible \cup {NoGroup} \cup e.standby ->
         Move(top, "current_invalid", FALSE)
    [] rs.current = top -> Stay(rs, "already_optimal")
    [] OTHER -> IF Dwelling(rs, at) THEN Stay(rs, "dwell")
                ELSE IF priceless \/ Exceeds(advantage, traffic)
                  THEN Move(top, "better_score", TRUE)
                ELSE Stay(rs, "hold")
=============================================================================
