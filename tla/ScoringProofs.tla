---------------------------- MODULE ScoringProofs ----------------------------
(***************************************************************************)
(* Every evaluation of Scoring is sound, for any number of groups and any  *)
(* statistics.  The order of candidates is total, so there is a first one, *)
(* and that nobody beats it in price and latency follows from the signs of *)
(* the weights.  Minima exist because < on Nat is well-founded.            *)
(* Decisions made from such an evaluation end with a usable group, settle, *)
(* and switch by score only for more than the stickiness.                  *)
(***************************************************************************)
EXTENDS Decision, WellFoundedInduction, TLAPS

LEMMA LeastExists ==
  ASSUME NEW S \in SUBSET Nat, S # {}
  PROVE  \E n \in S : \A m \in S : n <= m
<1> DEFINE R == OpToRel(<, Nat)
<1>1. IsWellFoundedOn(R, Nat)
  BY NatLessThanWellFounded
<1> HIDE DEF R
<1>2. PICK n \in S : \A m \in S : ~(<<m, n>> \in R)
  BY <1>1, WFMin
<1>3. \A m \in S : <<m, n>> \in R <=> m < n
  BY DEF R, OpToRel
<1>4. \A m \in S : m \in Nat /\ ~(m < n)
  BY <1>2, <1>3
<1> QED
  BY <1>4

LEMMA LeastIsLeast ==
  ASSUME NEW S \in SUBSET Nat, S # {}
  PROVE  Least(S) \in S /\ \A m \in S : Least(S) <= m
BY LeastExists DEF Least

(* A member of a set at which a natural number is least.                    *)
LEMMA LeastAt ==
  ASSUME NEW S, S # {}, NEW f, \A x \in S : f[x] \in Nat
  PROVE  \E x \in S : \A y \in S : f[x] <= f[y]
<1> DEFINE V == {f[x] : x \in S}
<1>1. V \in SUBSET Nat /\ V # {}
  OBVIOUS
<1>2. PICK n \in V : \A m \in V : n <= m
  BY <1>1, LeastExists
<1> QED
  BY <1>2

-----------------------------------------------------------------------------
(* The parts of an evaluation.                                              *)

Pre(s, blacklist, open) ==
  DOMAIN s.items \ (Barred(s, blacklist)
                      \cup ((open \cap DOMAIN s.items) \ Barred(s, blacklist))
                      \cup Excused(s))

WeakGroups(s, mode, blacklist, open) ==
  IF mode = "economy" THEN {g \in Pre(s, blacklist, open) : Weak(s, g)} ELSE {}

Priced(s, mode, blacklist, open) ==
  Pre(s, blacklist, open) \ WeakGroups(s, mode, blacklist, open)

Minimum(s, rivals) == Least({s.items[g].rate : g \in rivals})

Worthy(s, rivals) == {g \in rivals : Minimum(s, rivals) = 0 => s.items[g].rate = 0}

Eligible(s, mode, rivals) ==
  IF mode = "economy" THEN {g \in rivals : s.items[g].rate = Minimum(s, rivals)} ELSE rivals

LEMMA Parts ==
  ASSUME NEW s, NEW mode, NEW blacklist, NEW open,
         NEW e, e = Evaluate(s, mode, blacklist, open),
         NEW rivals, rivals = Priced(s, mode, blacklist, open)
  PROVE  /\ e.eligible = Eligible(s, mode, rivals)
         /\ e.standby = rivals \ Eligible(s, mode, rivals)
         /\ e.weak = WeakGroups(s, mode, blacklist, open)
         /\ e.worthy = Worthy(s, rivals) \cap Eligible(s, mode, rivals)
BY DEF Evaluate, Pre, WeakGroups, Priced, Minimum, Worthy, Eligible

LEMMA Scores ==
  ASSUME NEW s, NEW mode, NEW blacklist, NEW open,
         NEW e, e = Evaluate(s, mode, blacklist, open),
         NEW rivals, rivals = Priced(s, mode, blacklist, open)
  PROVE  e.score = [g \in Worthy(s, rivals) |-> Score(s, mode, rivals, g)]
BY DEF Evaluate, Pre, WeakGroups, Priced, Minimum, Worthy

LEMMA SituationFields ==
  ASSUME NEW s, IsSituation(s)
  PROVE  /\ DOMAIN s.items \subseteq Groups
         /\ \A g \in DOMAIN s.items :
              s.items[g].rate \in Nat /\ s.items[g].latency \in Nat \cup {Unmeasured}
<1>1. DOMAIN s.items \subseteq Groups /\ s.items \in [DOMAIN s.items -> Stat]
  BY DEF IsSituation
<1>2. \A g \in DOMAIN s.items : s.items[g] \in Stat
  BY <1>1
<1> QED
  BY <1>1, <1>2 DEF Stat

(* The groups that compete are those that are usable and, in economy mode,  *)
(* stable and fast enough; all of them are measured.                        *)
LEMMA PricedIsUsable ==
  ASSUME NEW s, IsSituation(s), NEW mode, NEW blacklist, NEW open
  PROVE  /\ Priced(s, mode, blacklist, open)
              = {g \in (DOMAIN s.items \cap s.allowed) \ (blacklist \cup open) :
                   /\ s.items[g].rate <= MaxRate /\ s.items[g].latency # Unmeasured
                   /\ s.record[g] # "failing"
                   /\ mode = "economy" => ~Weak(s, g)}
         /\ \A g \in Priced(s, mode, blacklist, open) :
              s.items[g].rate \in Nat /\ s.items[g].latency \in Nat /\ g \in Groups
<1>1. \A g \in DOMAIN s.items : s.items[g].rate > MaxRate <=> ~(s.items[g].rate <= MaxRate)
  BY SituationFields, ScoringAssumption
<1>2. Pre(s, blacklist, open)
        = {g \in (DOMAIN s.items \cap s.allowed) \ (blacklist \cup open) :
             /\ s.items[g].rate <= MaxRate /\ s.items[g].latency # Unmeasured
             /\ s.record[g] # "failing"}
  BY <1>1 DEF Pre, Barred, Excused
<1>3. Priced(s, mode, blacklist, open) \subseteq Pre(s, blacklist, open)
  BY DEF Priced
<1> QED
  BY <1>2, <1>3, SituationFields DEF Priced, WeakGroups

-----------------------------------------------------------------------------
(* Scores.                                                                  *)

(* What Score is about: groups with a rate and a latency.                   *)
Measured(s, rivals) ==
  \A g \in rivals : s.items[g].rate \in Nat /\ s.items[g].latency \in Nat /\ g \in Groups

LEMMA Weights ==
  ASSUME NEW mode \in Modes
  PROVE  /\ LatencyWeight[mode] \in 1 .. 8 /\ PriceWeight[mode] \in 1 .. 8
         /\ mode = "economy" => LatencyWeight[mode] = 2 /\ PriceWeight[mode] = 8
         /\ mode = "balanced" => LatencyWeight[mode] = 5 /\ PriceWeight[mode] = 5
         /\ mode = "speed" => LatencyWeight[mode] = 8 /\ PriceWeight[mode] = 2
BY DEF Modes, LatencyWeight, PriceWeight

LEMMA ScoreFacts ==
  ASSUME NEW s, NEW rivals, Measured(s, rivals), NEW mode \in Modes, NEW g \in rivals
  PROVE  /\ Score(s, mode, rivals, g) \in Int /\ Score(s, mode, rivals, g) <= 0
         /\ \A h \in rivals :
              /\ s.items[g].rate <= s.items[h].rate
              /\ s.items[g].latency <= s.items[h].latency
              /\ s.items[g].rate < s.items[h].rate \/ s.items[g].latency < s.items[h].latency
              => Score(s, mode, rivals, g) > Score(s, mode, rivals, h)
<1> DEFINE L == Least({s.items[h].latency : h \in rivals})
           R == Least({s.items[h].rate : h \in rivals})
<1>1. L \in Nat /\ \A h \in rivals : L <= s.items[h].latency
  <2> DEFINE S == {s.items[h].latency : h \in rivals}
  <2>1. S \in SUBSET Nat /\ S # {}
    BY DEF Measured
  <2>2. Least(S) \in S /\ \A m \in S : Least(S) <= m
    BY <2>1, LeastIsLeast
  <2> QED
    BY <2>1, <2>2
<1>2. R \in Nat /\ \A h \in rivals : R <= s.items[h].rate
  <2> DEFINE S == {s.items[h].rate : h \in rivals}
  <2>1. S \in SUBSET Nat /\ S # {}
    BY DEF Measured
  <2>2. Least(S) \in S /\ \A m \in S : Least(S) <= m
    BY <2>1, LeastIsLeast
  <2> QED
    BY <2>1, <2>2
<1>3. \A h \in rivals : Score(s, mode, rivals, h)
                          = - LatencyWeight[mode] * (s.items[h].latency - L)
                              - PriceWeight[mode] * (s.items[h].rate - R)
  BY DEF Score
<1> HIDE DEF L, R
<1>4. \A h \in rivals : s.items[h].rate \in Nat /\ s.items[h].latency \in Nat
  BY DEF Measured
<1>5. CASE mode = "economy"
  <2>1. \A h \in rivals : Score(s, mode, rivals, h)
                          = - 2 * (s.items[h].latency - L) - 8 * (s.items[h].rate - R)
    BY <1>3, <1>5, Weights
  <2> QED
    BY <1>1, <1>2, <1>4, <2>1
<1>6. CASE mode = "balanced"
  <2>1. \A h \in rivals : Score(s, mode, rivals, h)
                          = - 5 * (s.items[h].latency - L) - 5 * (s.items[h].rate - R)
    BY <1>3, <1>6, Weights
  <2> QED
    BY <1>1, <1>2, <1>4, <2>1
<1>7. CASE mode = "speed"
  <2>1. \A h \in rivals : Score(s, mode, rivals, h)
                          = - 8 * (s.items[h].latency - L) - 2 * (s.items[h].rate - R)
    BY <1>3, <1>7, Weights
  <2> QED
    BY <1>1, <1>2, <1>4, <2>1
<1> QED
  BY <1>5, <1>6, <1>7 DEF Modes

-----------------------------------------------------------------------------
(* The first candidate.                                                     *)

(* The order of candidates has a first element in every set of them.        *)
LEMMA FirstExists ==
  ASSUME NEW s, NEW rivals, Measured(s, rivals), NEW mode \in Modes,
         NEW W \in SUBSET rivals, W # {},
         NEW score, \A g \in W : score[g] = Score(s, mode, rivals, g)
  PROVE  \E g \in W : \A h \in W \ {g} : Before(s, score, g, h)
<1>1. \A g \in W : score[g] \in Int /\ score[g] <= 0
  BY ScoreFacts
<1>2. \A g \in W : s.items[g].rate \in Nat /\ s.items[g].latency \in Nat /\ g \in Nat
  BY ScoringAssumption DEF Measured
<1> DEFINE badness == [g \in W |-> -score[g]]
           rate == [g \in W |-> s.items[g].rate]
           latency == [g \in W |-> s.items[g].latency]
           id == [g \in W |-> g]
<1>3. PICK b \in W : \A h \in W : badness[b] <= badness[h]
  <2>1. \A g \in W : badness[g] \in Nat
    BY <1>1
  <2> HIDE DEF badness
  <2> QED
    BY <2>1, LeastAt
<1> DEFINE W1 == {g \in W : score[g] = score[b]}
<1>4. PICK c \in W1 : \A h \in W1 : rate[c] <= rate[h]
  <2>1. W1 # {} /\ \A g \in W1 : rate[g] \in Nat
    BY <1>2
  <2> HIDE DEF W1, rate
  <2> QED
    BY <2>1, LeastAt
<1> DEFINE W2 == {g \in W1 : s.items[g].rate = s.items[c].rate}
<1>5. PICK d \in W2 : \A h \in W2 : latency[d] <= latency[h]
  <2>1. W2 # {} /\ \A g \in W2 : latency[g] \in Nat
    BY <1>2
  <2> HIDE DEF W2, latency
  <2> QED
    BY <2>1, LeastAt
<1> DEFINE W3 == {g \in W2 : s.items[g].latency = s.items[d].latency}
<1>6. PICK a \in W3 : \A h \in W3 : id[a] <= id[h]
  <2>1. W3 # {} /\ \A g \in W3 : id[g] \in Nat
    BY <1>2
  <2> HIDE DEF W3, id
  <2> QED
    BY <2>1, LeastAt
<1>7. /\ a \in W /\ score[a] = score[b]
      /\ s.items[a].rate = s.items[c].rate /\ s.items[a].latency = s.items[d].latency
  BY <1>6
<1>8. ASSUME NEW h \in W \ {a} PROVE Before(s, score, a, h)
  <2>1. /\ score[a] \in Int /\ score[h] \in Int
        /\ s.items[a].rate \in Nat /\ s.items[h].rate \in Nat
        /\ s.items[a].latency \in Nat /\ s.items[h].latency \in Nat
        /\ a \in Nat /\ h \in Nat
    BY <1>1, <1>2, <1>7
  <2>2. score[h] <= score[a]
    BY <1>1, <1>3, <1>7, <2>1
  <2>3. score[h] = score[a] => s.items[a].rate <= s.items[h].rate
    BY <1>4, <1>7
  <2>4. score[h] = score[a] /\ s.items[h].rate = s.items[a].rate
          => s.items[a].latency <= s.items[h].latency
    BY <1>5, <1>7
  <2>5. score[h] = score[a] /\ s.items[h].rate = s.items[a].rate
          /\ s.items[h].latency = s.items[a].latency => a <= h
    BY <1>6, <1>7
  <2> QED
    BY <2>1, <2>2, <2>3, <2>4, <2>5 DEF Before
<1> QED
  BY <1>7, <1>8

LEMMA TopIsFirst ==
  ASSUME NEW s, IsSituation(s), NEW mode \in Modes, NEW blacklist, NEW open,
         NEW e, e = Evaluate(s, mode, blacklist, open), e.worthy # {}
  PROVE  /\ Top(s, e) \in e.worthy /\ Top(s, e) \in Groups
         /\ \A h \in e.worthy \ {Top(s, e)} : Before(s, e.score, Top(s, e), h)
<1> DEFINE rivals == Priced(s, mode, blacklist, open)
<1>1. /\ e.worthy = Worthy(s, rivals) \cap Eligible(s, mode, rivals)
      /\ e.score = [g \in Worthy(s, rivals) |-> Score(s, mode, rivals, g)]
  BY Parts, Scores
<1>2. Measured(s, rivals)
  BY PricedIsUsable DEF Measured
<1> DEFINE W == e.worthy
           score == e.score
<1>3. W \in SUBSET rivals /\ W # {}
  BY <1>1 DEF Worthy
<1>4. \A g \in W : score[g] = Score(s, mode, rivals, g)
  BY <1>1
<1> HIDE DEF rivals, W, score
<1>5. \E g \in W : \A h \in W \ {g} : Before(s, score, g, h)
  BY <1>2, <1>3, <1>4, FirstExists
<1>6. /\ Top(s, e) \in e.worthy
      /\ \A h \in e.worthy \ {Top(s, e)} : Before(s, e.score, Top(s, e), h)
  BY <1>5 DEF Top, W, score
<1>7. Top(s, e) \in Groups
  BY <1>2, <1>3, <1>6 DEF Measured, W
<1> QED
  BY <1>6, <1>7

-----------------------------------------------------------------------------
(* A group that competes is a candidate, or is cheaper than one.            *)
LEMMA CandidateExists ==
  ASSUME NEW s, NEW rivals, rivals # {}, Measured(s, rivals), NEW mode
  PROVE  Worthy(s, rivals) \cap Eligible(s, mode, rivals) # {}
<1> DEFINE S == {s.items[g].rate : g \in rivals}
<1>1. S \in SUBSET Nat /\ S # {}
  BY DEF Measured
<1>2. Least(S) \in S
  BY <1>1, LeastIsLeast
<1>3. PICK g \in rivals : s.items[g].rate = Minimum(s, rivals)
  BY <1>2 DEF Minimum
<1> QED
  BY <1>3 DEF Worthy, Eligible

(* evaluate of scoring.ts loses no healthy group, prefers the cheapest in   *)
(* economy mode, finds a candidate if there is a healthy group, and its     *)
(* first candidate is beaten by no other in both price and latency.         *)
THEOREM EvaluationsAreSound ==
  ASSUME NEW s, IsSituation(s), NEW mode \in Modes, NEW blacklist, NEW open
  PROVE  SoundEvaluation(s, mode, blacklist, open)
<1> DEFINE e == Evaluate(s, mode, blacklist, open)
           rivals == Priced(s, mode, blacklist, open)
           usable == {g \in (DOMAIN s.items \cap s.allowed) \ (blacklist \cup open) :
                        /\ s.items[g].rate <= MaxRate /\ s.items[g].latency # Unmeasured
                        /\ s.record[g] # "failing"
                        /\ mode = "economy" => ~Weak(s, g)}
           Beats(g, h) == /\ s.items[g].rate <= s.items[h].rate
                          /\ s.items[g].latency <= s.items[h].latency
                          /\ s.items[g] # s.items[h]
<1>1. /\ e.eligible = Eligible(s, mode, rivals)
      /\ e.standby = rivals \ Eligible(s, mode, rivals)
      /\ e.worthy = Worthy(s, rivals) \cap Eligible(s, mode, rivals)
      /\ e.score = [g \in Worthy(s, rivals) |-> Score(s, mode, rivals, g)]
  BY Parts, Scores
<1>2. rivals = usable /\ Measured(s, rivals)
  BY PricedIsUsable DEF Measured
<1>3. \A g, h \in rivals : Beats(g, h) =>
        s.items[g].rate < s.items[h].rate \/ s.items[g].latency < s.items[h].latency
  <2> SUFFICES ASSUME NEW g \in rivals, NEW h \in rivals, Beats(g, h)
               PROVE  s.items[g].rate < s.items[h].rate
                        \/ s.items[g].latency < s.items[h].latency
    OBVIOUS
  <2>1. s.items[g] \in Stat /\ s.items[h] \in Stat
    BY <1>2 DEF IsSituation
  <2>2. s.items[g].rate # s.items[h].rate \/ s.items[g].latency # s.items[h].latency
    BY <2>1 DEF Stat
  <2> HIDE DEF rivals, usable
  <2> QED
    BY <1>2, <2>2 DEF Measured
<1>4. Eligible(s, mode, rivals) \subseteq rivals
  BY DEF Eligible
<1>5. mode = "economy" =>
        e.eligible = {g \in rivals : \A h \in rivals : s.items[g].rate <= s.items[h].rate}
  <2> SUFFICES ASSUME mode = "economy", NEW g \in rivals
               PROVE  s.items[g].rate = Minimum(s, rivals)
                        <=> \A h \in rivals : s.items[g].rate <= s.items[h].rate
    BY <1>1 DEF Eligible
  <2> DEFINE S == {s.items[h].rate : h \in rivals}
  <2>1. S \in SUBSET Nat /\ S # {}
    BY <1>2 DEF Measured
  <2>2. Least(S) \in S /\ \A m \in S : Least(S) <= m
    BY <2>1, LeastIsLeast
  <2>3. Minimum(s, rivals) = Least(S)
    BY DEF Minimum
  <2>4. /\ \A h \in rivals : s.items[h].rate \in Nat
        /\ \A h \in rivals : Minimum(s, rivals) <= s.items[h].rate
        /\ \E h \in rivals : s.items[h].rate = Minimum(s, rivals)
    BY <1>2, <2>2, <2>3 DEF Measured
  <2> HIDE DEF rivals, S
  <2> QED
    BY <2>4
<1>6. mode # "economy" => e.standby = {}
  BY <1>1 DEF Eligible
<1> HIDE DEF rivals, e, usable
<1>7. rivals # {} => e.worthy # {}
  BY <1>1, <1>2, CandidateExists
<1>8. ASSUME NEW g \in e.worthy PROVE ~Beats(g, Top(s, e))
  <2>1. SUFFICES ASSUME Beats(g, Top(s, e)) PROVE FALSE
    OBVIOUS
  <2> DEFINE top == Top(s, e)
  <2>2. /\ top \in e.worthy
        /\ \A h \in e.worthy \ {top} : Before(s, e.score, top, h)
    BY TopIsFirst DEF e
  <2>3. /\ top \in rivals /\ g \in rivals /\ g # top
        /\ e.score[g] = Score(s, mode, rivals, g)
        /\ e.score[top] = Score(s, mode, rivals, top)
    BY <1>1, <2>1, <2>2 DEF Worthy
  <2>4. Before(s, e.score, top, g)
    BY <2>2, <2>3
  <2> HIDE DEF top
  <2>5. e.score[top] >= e.score[g]
    <3>1. e.score[top] \in Int /\ e.score[g] \in Int
      BY <1>2, <2>3, ScoreFacts
    <3> QED
      BY <2>4, <3>1 DEF Before
  <2>6. e.score[g] > e.score[top]
    <3>1. /\ s.items[g].rate <= s.items[top].rate
          /\ s.items[g].latency <= s.items[top].latency
          /\ s.items[g].rate < s.items[top].rate \/ s.items[g].latency < s.items[top].latency
      BY <1>3, <2>1, <2>3 DEF top
    <3> QED
      BY <1>2, <2>3, <3>1, ScoreFacts
  <2>7. e.score[top] \in Int /\ e.score[g] \in Int
    BY <1>2, <2>3, ScoreFacts
  <2> QED
    BY <2>5, <2>6, <2>7
<1>9. /\ e.eligible \cup e.standby = usable /\ e.eligible \cap e.standby = {}
      /\ mode = "economy" =>
           e.eligible = {g \in usable : \A h \in usable : s.items[g].rate <= s.items[h].rate}
      /\ usable # {} => e.worthy # {} /\ \A g \in e.worthy : ~Beats(g, Top(s, e))
  BY <1>1, <1>2, <1>4, <1>5, <1>7, <1>8
<1> QED
  BY <1>6, <1>9 DEF SoundEvaluation, e, usable

-----------------------------------------------------------------------------
(* Decisions.                                                               *)

(* A move to top pays, weighed by score.                                    *)
Pays(e, rs, top, traffic) ==
  \/ rs.current \notin e.worthy
  \/ Exceeds(e.score[top] - e.score[rs.current], traffic)

LEMMA MoveFields ==
  ASSUME NEW target, NEW reason, NEW weighed \in BOOLEAN, NEW d,
         d = Move(target, reason, weighed)
  PROVE  d.target = target /\ d.weighed = weighed
BY DEF Move

LEMMA StayFields ==
  ASSUME NEW rs, NEW reason, NEW d, d = Stay(rs, reason)
  PROVE  d.target = rs.current /\ d.switch = FALSE /\ d.reason = reason
BY DEF Stay

(* The rules of decide, taken in their order.                               *)
LEMMA Outcomes ==
  ASSUME NEW rs, NEW e, NEW s, NEW traffic, NEW at, NEW d, d = Decide(s, e, rs, traffic, at),
         e.worthy # {}, NEW top, top = Top(s, e)
  PROVE  IF d.switch
           THEN /\ d.target = top
                /\ rs.current \in {NoGroup} \cup e.standby \/ rs.current \notin e.eligible
                     \/ rs.current # top
                /\ d.reason = "better_score" => Pays(e, rs, top, traffic)
           ELSE /\ d.target = rs.current /\ d.reason # "better_score"
                /\ rs.current = top \/ rs.current \in e.eligible
<1> DEFINE weigh == IF Dwelling(rs, at) THEN Stay(rs, "dwell")
                    ELSE IF Pays(e, rs, top, traffic) THEN Move(top, "better_score", TRUE)
                    ELSE Stay(rs, "hold")
           invalid == rs.current \notin e.eligible \cup {NoGroup} \cup e.standby
<1>1. d = CASE rs.current = NoGroup -> Move(top, "initial_route", FALSE)
            [] rs.current \in e.standby -> Move(top, "better_price", FALSE)
            [] invalid -> Move(top, "current_invalid", FALSE)
            [] rs.current = top -> Stay(rs, "already_optimal")
            [] OTHER -> weigh
  BY Zenon DEF Decide, Pays
<1> HIDE DEF weigh, invalid
<1>2. \/ rs.current = NoGroup /\ d = Move(top, "initial_route", FALSE)
      \/ rs.current \in e.standby /\ d = Move(top, "better_price", FALSE)
      \/ invalid /\ d = Move(top, "current_invalid", FALSE)
      \/ rs.current = top /\ d = Stay(rs, "already_optimal")
      \/ /\ rs.current # NoGroup /\ rs.current \notin e.standby /\ ~invalid
         /\ rs.current # top /\ d = weigh
  BY <1>1
<1>3. \/ Dwelling(rs, at) /\ weigh = Stay(rs, "dwell")
      \/ ~Dwelling(rs, at) /\ Pays(e, rs, top, traffic) /\ weigh = Move(top, "better_score", TRUE)
      \/ weigh = Stay(rs, "hold")
  BY DEF weigh
<1>4. /\ invalid => rs.current \notin e.eligible
      /\ rs.current # NoGroup /\ rs.current \notin e.standby /\ ~invalid
           => rs.current \in e.eligible
  BY DEF invalid
<1>5. \/ rs.current = NoGroup /\ d = Move(top, "initial_route", FALSE)
      \/ rs.current \in e.standby /\ d = Move(top, "better_price", FALSE)
      \/ rs.current \notin e.eligible /\ d = Move(top, "current_invalid", FALSE)
      \/ rs.current = top /\ d = Stay(rs, "already_optimal")
      \/ rs.current \in e.eligible /\ d = Stay(rs, "dwell")
      \/ rs.current # top /\ Pays(e, rs, top, traffic) /\ d = Move(top, "better_score", TRUE)
      \/ rs.current \in e.eligible /\ d = Stay(rs, "hold")
  BY <1>2, <1>3, <1>4, Zenon
<1>6. CASE rs.current = NoGroup /\ d = Move(top, "initial_route", FALSE)
  BY <1>6 DEF Move
<1>7. CASE rs.current \in e.standby /\ d = Move(top, "better_price", FALSE)
  BY <1>7 DEF Move
<1>8. CASE rs.current \notin e.eligible /\ d = Move(top, "current_invalid", FALSE)
  BY <1>8 DEF Move
<1>9. CASE rs.current = top /\ d = Stay(rs, "already_optimal")
  BY <1>9 DEF Stay
<1>10. CASE rs.current \in e.eligible /\ (d = Stay(rs, "dwell") \/ d = Stay(rs, "hold"))
  BY <1>10 DEF Stay
<1>11. CASE rs.current # top /\ Pays(e, rs, top, traffic) /\ d = Move(top, "better_score", TRUE)
  BY <1>11 DEF Move
<1> QED
  BY <1>5, <1>6, <1>7, <1>8, <1>9, <1>10, <1>11

(* An evaluation's candidates are eligible, and none of them is on standby. *)
LEMMA TopIsEligible ==
  ASSUME NEW s, IsSituation(s), NEW mode \in Modes, NEW blacklist, NEW open,
         NEW e, e = Evaluate(s, mode, blacklist, open), e.worthy # {}
  PROVE  /\ Top(s, e) \in e.eligible /\ Top(s, e) \notin e.standby /\ Top(s, e) \in Groups
<1> DEFINE rivals == Priced(s, mode, blacklist, open)
<1>1. /\ e.eligible = Eligible(s, mode, rivals)
      /\ e.standby = rivals \ Eligible(s, mode, rivals)
      /\ e.worthy = Worthy(s, rivals) \cap Eligible(s, mode, rivals)
  BY Parts
<1>2. Top(s, e) \in e.worthy /\ Top(s, e) \in Groups
  BY TopIsFirst
<1> HIDE DEF rivals
<1> QED
  BY <1>1, <1>2

(* decision.ts: whatever was decided, as long as any group is usable the    *)
(* group the round ends with is one of those, and in the economy mode one   *)
(* of the cheapest of those.                                                *)
THEOREM DecisionsAreUsable ==
  ASSUME NEW s, IsSituation(s), NEW mode \in Modes, NEW blacklist, NEW open,
         NEW e, e = Evaluate(s, mode, blacklist, open), NEW rs, NEW traffic, NEW at,
         NEW d, d = Decide(s, e, rs, traffic, at)
  PROVE  IF e.worthy = {} THEN ~d.switch /\ e.eligible \cup e.standby = {}
                          ELSE d.target \in e.eligible
<1>1. CASE e.worthy = {}
  <2>1. d = Stay(rs, "no_candidate")
    BY <1>1 DEF Decide
  <2>2. ~d.switch
    BY <2>1, StayFields
  <2>3. e.eligible \cup e.standby = {}
    BY <1>1, EvaluationsAreSound DEF SoundEvaluation
  <2> QED
    BY <1>1, <2>2, <2>3
<1>2. CASE e.worthy # {}
  <2> DEFINE top == Top(s, e)
  <2>1. top \in e.eligible
    BY <1>2, TopIsEligible
  <2>2. d.target = top \/ (d.target = rs.current /\ rs.current \in e.eligible)
    BY <1>2, Outcomes
  <2> QED
    BY <1>2, <2>1, <2>2
<1> QED
  BY <1>1, <1>2

(* decision.ts: a round never undoes what the round before it has done when *)
(* nothing else has changed: the group moved to is left neither for its     *)
(* price nor for its score, however long it has been current and however    *)
(* cold its cache is.                                                       *)
THEOREM DecisionsSettle ==
  ASSUME NEW s, IsSituation(s), NEW mode \in Modes, NEW blacklist, NEW open,
         NEW e, e = Evaluate(s, mode, blacklist, open), NEW rs, NEW traffic, NEW at,
         NEW d, d = Decide(s, e, rs, traffic, at), d.switch,
         NEW next, next.current = d.target, NEW later, NEW then
  PROVE  ~Decide(s, e, next, later, then).switch
<1>1. e.worthy # {}
  BY DecisionsAreUsable
<1> DEFINE top == Top(s, e)
           back == Decide(s, e, next, later, then)
<1>2. top \in e.eligible /\ top \notin e.standby /\ top # NoGroup
  BY <1>1, TopIsEligible, DecisionAssumption
<1>3. d.target = top
  BY <1>1, Outcomes
<1>4. ~back.switch
  <2> HIDE DEF top, back
  <2>1. top = Top(s, e) /\ back = Decide(s, e, next, later, then)
    BY DEF top, back
  <2>2. next.current = top
    BY <1>3
  <2> QED
    BY <1>1, <1>2, <2>1, <2>2, Outcomes
<1> QED
  BY <1>4

(* decision.ts: a switch by score is worth more than the stickiness, unless *)
(* the group left has no finite score beside a free one: with streams open  *)
(* or none, and where cacheIdleMs is 0, at which recency divides by zero.   *)
THEOREM ScoreSwitchesPay ==
  ASSUME NEW s, IsSituation(s), NEW mode \in Modes, NEW blacklist, NEW open,
         NEW e, e = Evaluate(s, mode, blacklist, open), NEW rs, NEW at,
         NEW traffic \in Traffic,
         NEW d, d = Decide(s, e, rs, traffic, at), d.reason = "better_score"
  PROVE  \/ rs.current \notin e.worthy
         \/ e.score[d.target] - e.score[rs.current] > Stickiness
<1>1. e.worthy # {}
  <2>1. d.reason = "no_candidate" \/ e.worthy # {}
    BY StayFields DEF Decide
  <2> QED
    BY <2>1
<1> DEFINE top == Top(s, e)
           rivals == Priced(s, mode, blacklist, open)
<1>2. d.target = top /\ Pays(e, rs, top, traffic)
  BY <1>1, Outcomes
<1>3. \A g \in e.worthy : e.score[g] \in Int
  <2>1. /\ e.worthy \subseteq rivals /\ e.worthy \subseteq Worthy(s, rivals)
        /\ e.score = [g \in Worthy(s, rivals) |-> Score(s, mode, rivals, g)]
    BY Parts, Scores DEF Worthy
  <2>2. Measured(s, rivals)
    BY PricedIsUsable DEF Measured
  <2> HIDE DEF rivals
  <2>3. \A g \in e.worthy : e.score[g] = Score(s, mode, rivals, g) /\ g \in rivals
    BY <2>1
  <2> QED
    BY <2>2, <2>3, ScoreFacts
<1>4. top \in e.worthy
  BY <1>1, TopIsFirst
<1>5. ASSUME rs.current \in e.worthy
      PROVE  e.score[top] - e.score[rs.current] > Stickiness
  <2> DEFINE a == e.score[top] - e.score[rs.current]
  <2>1. a \in Int
    BY <1>3, <1>4, <1>5
  <2>2. Exceeds(a, traffic)
    BY <1>2, <1>5 DEF Pays
  <2>3. PICK gain \in Int : gain = a
    BY <2>1
  <2> HIDE DEF a
  <2>4. Exceeds(gain, traffic)
    BY <2>2, <2>3
  <2>5. Stickiness \in Nat /\ CacheIdle \in Nat /\ PenaltyMax \in Nat
    BY DecisionAssumption
  <2>6. ASSUME traffic.streams
        PROVE  gain > Stickiness
    BY <2>4, <2>5, <2>6 DEF Exceeds
  <2>7. ASSUME ~traffic.streams, CacheIdle # 0
        PROVE  gain > Stickiness
    <3>1. PICK left \in Nat : left = CacheIdle - traffic.idle
      <4>1. traffic.idle \in 0 .. CacheIdle
        BY <2>7 DEF Traffic
      <4> QED
        BY <2>5, <4>1
    <3>2. gain * CacheIdle > Stickiness * CacheIdle + PenaltyMax * left
      BY <2>4, <2>7, <3>1 DEF Exceeds
    <3>3. PenaltyMax * left >= 0
      BY <2>5, <3>1
    <3>4. gain * CacheIdle > Stickiness * CacheIdle
      <4> DEFINE won == gain * CacheIdle
                 asked == Stickiness * CacheIdle
                 extra == PenaltyMax * left
      <4>1. won \in Int /\ asked \in Int /\ extra \in Int
        BY <2>5, <3>1
      <4>2. won > asked + extra /\ extra >= 0
        BY <3>2, <3>3
      <4> HIDE DEF won, asked, extra
      <4>3. won > asked
        BY <4>1, <4>2
      <4> QED
        BY <4>3 DEF won, asked
    <3> QED
      BY <2>5, <2>7, <3>4
  <2>8. ASSUME ~traffic.streams, CacheIdle = 0
        PROVE  gain > Stickiness
    BY <2>4, <2>8 DEF Exceeds
  <2>9. gain > Stickiness
    BY <2>6, <2>7, <2>8
  <2> QED
    BY <2>3, <2>9 DEF a
<1> QED
  BY <1>2, <1>5 DEF Pays
=============================================================================
