------------------------------- MODULE Scoring -------------------------------
(***************************************************************************)
(* How groups are excluded, scored and ordered: evaluate of                *)
(* packages/core/src/scoring.ts.                                           *)
(*                                                                         *)
(* Rates and latencies enter the score by their logarithms, so a rate is   *)
(* kept as its binary logarithm plus one, and 0 is a rate of zero; latency *)
(* is the logarithm of conservativeLatencyMs, into which the code fuses    *)
(* the public and local figures.  A score is in tenths of such a unit.     *)
(* What a reason of exclusion is used for distinguishes three kinds: hard  *)
(* reasons, an open circuit, and the two of the economy mode.              *)
(***************************************************************************)
EXTENDS Integers, FiniteSets

CONSTANTS
  Groups,      \* group ids
  Unmeasured,  \* no public and no credible local latency
  MaxRate,     \* priceBand.max (a rate below priceBand.min is barred alike)
  SlowLatency  \* economyPolicy.maxConservativeLatencyMs

ASSUME ScoringAssumption ==
  Groups \subseteq Nat /\ IsFiniteSet(Groups) /\ Unmeasured \notin Nat
  /\ MaxRate \in Nat /\ SlowLatency \in Nat

Modes == {"economy", "balanced", "speed"}

PriceWeight == [economy |-> 8, balanced |-> 5, speed |-> 2]
LatencyWeight == [economy |-> 2, balanced |-> 5, speed |-> 8]

(* What the public statistics say of a group, and what this process knows:  *)
(* its breaker and the outcomes of its own requests (unstable: below        *)
(* minSuccessRate; failing: above errorRateCap).                            *)
Stat == [rate : Nat, latency : Nat \cup {Unmeasured}]
Circuits == {"closed", "half-open", "open"}
Records == {"fine", "unstable", "failing"}

(* All that an evaluation looks at besides the configuration: the items of  *)
(* the statistics, the groups the account may use, breakers and outcomes.   *)
IsSituation(s) ==
  /\ s = [items |-> s.items, allowed |-> s.allowed, circuit |-> s.circuit,
          record |-> s.record]
  /\ DOMAIN s.items \subseteq Groups /\ s.items \in [DOMAIN s.items -> Stat]
  /\ s.allowed \subseteq Groups
  /\ s.circuit \in [Groups -> Circuits] /\ s.record \in [Groups -> Records]

Least(S) == CHOOSE n \in S : \A m \in S : n <= m

(* The hard constraints.                                                    *)
Barred(s, blacklist) ==
  {g \in DOMAIN s.items :
     \/ g \notin s.allowed
     \/ s.items[g].rate > MaxRate
     \/ g \in blacklist}

Excused(s) ==
  {g \in DOMAIN s.items :
     s.record[g] = "failing" \/ s.items[g].latency = Unmeasured}

(* economy_unstable and economy_too_slow.                                   *)
Weak(s, g) == s.record[g] = "unstable" \/ s.items[g].latency > SlowLatency

(* The order of sortCandidates: score, rate, latency, id.                   *)
Before(s, score, g, h) ==
  \/ score[g] > score[h]
  \/ /\ score[g] = score[h]
     /\ \/ s.items[g].rate < s.items[h].rate
        \/ /\ s.items[g].rate = s.items[h].rate
           /\ \/ s.items[g].latency < s.items[h].latency
              \/ s.items[g].latency = s.items[h].latency /\ g < h

(* The weighted score of g among rivals.                                    *)
(* Slip: the ratio of the latencies is turned round.                        *)
ScoreUpsideDown(s, mode, rivals, g) ==
  LatencyWeight[mode] * (s.items[g].latency - Least({s.items[h].latency : h \in rivals}))
    - PriceWeight[mode] * (s.items[g].rate - Least({s.items[h].rate : h \in rivals}))

Score(s, mode, rivals, g) ==
  - LatencyWeight[mode] * (s.items[g].latency - Least({s.items[h].latency : h \in rivals}))
    - PriceWeight[mode] * (s.items[g].rate - Least({s.items[h].rate : h \in rivals}))

(* The evaluation of situation s.  open are the groups whose circuit        *)
(* excludes them.  worthy are the eligible groups of finite score: beside a *)
(* free group a paid one scores minus infinity.                             *)
Evaluate(s, mode, blacklist, open) ==
  LET barred == Barred(s, blacklist)
      tripped == (open \cap DOMAIN s.items) \ barred
      pre == DOMAIN s.items \ (barred \cup tripped \cup Excused(s))
      weak == IF mode = "economy" THEN {g \in pre : Weak(s, g)} ELSE {}
      priced == pre \ weak
      minimum == Least({s.items[g].rate : g \in priced})
      worthy == {g \in priced : minimum = 0 => s.items[g].rate = 0}
      eligible == IF mode = "economy" THEN {g \in priced : s.items[g].rate = minimum}
                                      ELSE priced
  IN  [eligible |-> eligible, standby |-> priced \ eligible, weak |-> weak,
       tripped |-> tripped, barred |-> DOMAIN s.items \ (pre \cup tripped),
       worthy |-> worthy \cap eligible,
       score |-> [g \in worthy |-> Score(s, mode, priced, g)]]

(* The first candidate of finite score.                                     *)
Top(s, e) ==
  CHOOSE g \in e.worthy : \A h \in e.worthy \ {g} : Before(s, e.score, g, h)

-----------------------------------------------------------------------------
(* What an evaluation promises: nothing healthy is lost between the lists;  *)
(* in the economy mode the eligible groups are the cheapest of those that   *)
(* are stable and fast enough; a candidate exists when a healthy group      *)
(* does; and no other candidate beats the first one in price and latency.   *)
SoundEvaluation(s, mode, blacklist, open) ==
  LET e == Evaluate(s, mode, blacklist, open)
      usable == {g \in (DOMAIN s.items \cap s.allowed) \ (blacklist \cup open) :
                   /\ s.items[g].rate <= MaxRate /\ s.items[g].latency # Unmeasured
                   /\ s.record[g] # "failing"
                   /\ mode = "economy" => ~Weak(s, g)}
      Beats(g, h) == /\ s.items[g].rate <= s.items[h].rate
                     /\ s.items[g].latency <= s.items[h].latency
                     /\ s.items[g] # s.items[h]
  IN  /\ e.eligible \cup e.standby = usable
      /\ e.eligible \cap e.standby = {}
      /\ mode = "economy" =>
           e.eligible = {g \in usable : \A h \in usable : s.items[g].rate <= s.items[h].rate}
      /\ mode # "economy" => e.standby = {}
      /\ usable # {} => e.worthy # {} /\ \A g \in e.worthy : ~Beats(g, Top(s, e))
=============================================================================
