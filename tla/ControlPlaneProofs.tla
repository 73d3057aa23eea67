-------------------------- MODULE ControlPlaneProofs --------------------------
(***************************************************************************)
(* The safety properties of ControlPlane for any groups, situations and    *)
(* numbers of calls.  Only the first call of the chain has started, so     *)
(* nothing changes the lock or the current group between the decision of a *)
(* round, or the comparison of a revision, and what follows from it: that  *)
(* is what the invariant remembers of the first call.                      *)
(***************************************************************************)
EXTENDS ControlPlane, ScoringProofs

(* A chain in which only the first call has started, and nobody is told of  *)
(* a lock revision above rev.                                               *)
CallOk(c, rev) ==
  c \in Call /\ (c.kind = "lock" => c.seen < MaxRevision) /\ c.told <= rev

ChainOk(w, rev) ==
  /\ w \in Seq(Call) /\ Len(w) <= MaxCalls
  /\ \A i \in 1 .. Len(w) : CallOk(w[i], rev) /\ (i > 1 => w[i].stage = "queued")

(* What was decided or compared before an await still holds after it.       *)
Obeys(c) == state.lock.group \in {NoGroup, c.plan.target} \cup c.plan.unusable

Dwelt(c) == c.plan.weighed /\ moved # Never => c.at - moved >= MinDwell

FirstOk ==
  Len(chain) > 0 =>
    /\ chain[1].stage = "keying" => Obeys(chain[1]) /\ Dwelt(chain[1])
    /\ chain[1].stage = "fetching" /\ chain[1].kind = "lock"
         => chain[1].seen = state.lock.revision /\ chain[1].group # state.lock.group

(* The time of the last switch is the one decide looks at, unless a switch  *)
(* is under way or was torn.                                                *)
MovedOk ==
  IF Len(chain) > 0 /\ chain[1].stage = "adopting"
    THEN moved \in {Never, chain[1].at}
    ELSE moved \in {Never, state.lastSwitch}

IInv ==
  /\ now \in Times /\ config \in Configs /\ state \in State /\ disk \in State
  /\ moved \in Times \cup {Never}
  /\ disk.lock.revision <= state.lock.revision
  /\ ChainOk(chain, state.lock.revision) /\ FirstOk /\ MovedOk

-----------------------------------------------------------------------------
(* The chain as a sequence.                                                 *)

LEMMA Removed ==
  ASSUME NEW rev, NEW w, ChainOk(w, rev), Len(w) > 0
  PROVE  /\ ChainOk(RemoveAt(w, 1), rev) /\ Len(RemoveAt(w, 1)) = Len(w) - 1
         /\ \A i \in 1 .. Len(RemoveAt(w, 1)) : RemoveAt(w, 1)[i].stage = "queued"
         /\ \A i \in 1 .. Len(w) - 1 : RemoveAt(w, 1)[i] = w[i + 1]
<1> DEFINE r == RemoveAt(w, 1)
<1>1. w \in Seq(Call) /\ Len(w) \in Nat /\ Len(w) <= MaxCalls /\ MaxCalls \in Nat
  BY ControlAssumption DEF ChainOk
<1>2. /\ r \in Seq(Call) /\ Len(r) = Len(w) - 1
      /\ \A i \in 1 .. Len(w) - 1 : r[i] = w[i + 1]
  <2>1. r = SubSeq(w, 1, 0) \o SubSeq(w, 2, Len(w))
    BY DEF RemoveAt
  <2>2. SubSeq(w, 1, 0) \in Seq(Call) /\ Len(SubSeq(w, 1, 0)) = 0
    BY <1>1
  <2>3. /\ SubSeq(w, 2, Len(w)) \in Seq(Call) /\ Len(SubSeq(w, 2, Len(w))) = Len(w) - 1
        /\ \A i \in 1 .. Len(w) - 1 : SubSeq(w, 2, Len(w))[i] = w[i + 1]
    <3> DEFINE t == SubSeq(w, 2, Len(w))
    <3>1. t \in Seq(Call)
      BY <1>1
    <3>2. Len(t) = Len(w) - 1
      <4>1. CASE 2 <= Len(w)
        BY <1>1, <4>1
      <4>2. CASE Len(w) = 1
        BY <1>1, <4>2
      <4> HIDE DEF t
      <4> DEFINE n == Len(w)
      <4>3. n \in Nat /\ n > 0
        BY <1>1
      <4> HIDE DEF n
      <4>4. 2 <= n \/ n = 1
        BY <4>3
      <4> QED
        BY <4>1, <4>2, <4>4 DEF n
    <3>3. \A i \in 1 .. Len(w) - 1 : t[i] = w[i + 1]
      BY <1>1
    <3> QED
      BY <3>1, <3>2, <3>3
  <2> DEFINE none == SubSeq(w, 1, 0)
             rest == SubSeq(w, 2, Len(w))
             n == Len(w) - 1
  <2>4. n \in Nat
    BY <1>1
  <2>5. /\ none \in Seq(Call) /\ Len(none) = 0 /\ rest \in Seq(Call) /\ Len(rest) = n
        /\ r = none \o rest
    BY <2>1, <2>2, <2>3
  <2> HIDE DEF none, rest, r, n
  <2>6. r \in Seq(Call) /\ Len(r) = n
    BY <2>4, <2>5
  <2>7. \A i \in 1 .. n : r[i] = rest[i]
    BY <2>4, <2>5
  <2> QED
    BY <2>3, <2>6, <2>7 DEF rest, n
<1> HIDE DEF r
<1>3. \A i \in 1 .. Len(r) : CallOk(r[i], rev) /\ r[i].stage = "queued"
  <2> SUFFICES ASSUME NEW i \in 1 .. Len(r)
               PROVE  CallOk(r[i], rev) /\ r[i].stage = "queued"
    OBVIOUS
  <2>1. r[i] = w[i + 1] /\ i + 1 \in 1 .. Len(w) /\ i + 1 > 1
    BY <1>1, <1>2
  <2> QED
    BY <2>1 DEF ChainOk
<1>4. ChainOk(r, rev)
  BY <1>1, <1>2, <1>3 DEF ChainOk
<1> QED
  BY <1>2, <1>3, <1>4 DEF r

LEMMA Appended ==
  ASSUME NEW rev, NEW w, ChainOk(w, rev), NEW c, CallOk(c, rev), c.stage = "queued",
         Len(w) < MaxCalls
  PROVE  /\ ChainOk(Append(w, c), rev) /\ Len(Append(w, c)) = Len(w) + 1
         /\ \A i \in 1 .. Len(w) : Append(w, c)[i] = w[i]
         /\ Append(w, c)[Len(w) + 1] = c
<1> DEFINE r == Append(w, c)
<1>1. /\ w \in Seq(Call) /\ Len(w) \in Nat /\ c \in Call
      /\ MaxCalls \in Nat
  BY ControlAssumption DEF ChainOk, CallOk
<1>2. /\ r \in Seq(Call) /\ Len(r) = Len(w) + 1 /\ r[Len(w) + 1] = c
      /\ \A i \in 1 .. Len(w) : r[i] = w[i]
  BY <1>1
<1> HIDE DEF r
<1>3. \A i \in 1 .. Len(r) : CallOk(r[i], rev) /\ (i > 1 => r[i].stage = "queued")
  <2> SUFFICES ASSUME NEW i \in 1 .. Len(r)
               PROVE  CallOk(r[i], rev) /\ (i > 1 => r[i].stage = "queued")
    OBVIOUS
  <2>1. CASE i = Len(w) + 1
    BY <1>2, <2>1
  <2>2. CASE i # Len(w) + 1
    <3>1. i \in 1 .. Len(w) /\ r[i] = w[i]
      BY <1>1, <1>2, <2>2
    <3> QED
      BY <3>1 DEF ChainOk
  <2> QED
    BY <2>1, <2>2
<1>4. ChainOk(r, rev)
  BY <1>1, <1>2, <1>3 DEF ChainOk
<1> QED
  BY <1>2, <1>4 DEF r

WithFirst(w, c) == [w EXCEPT ![1] = c]

LEMMA Replaced ==
  ASSUME NEW rev, NEW w, ChainOk(w, rev), Len(w) > 0, NEW c, CallOk(c, rev)
  PROVE  /\ ChainOk(WithFirst(w, c), rev) /\ Len(WithFirst(w, c)) = Len(w)
         /\ WithFirst(w, c)[1] = c
<1> DEFINE r == WithFirst(w, c)
<1>1. w \in Seq(Call) /\ Len(w) \in Nat /\ c \in Call /\ Len(w) <= MaxCalls
  BY DEF ChainOk, CallOk
<1>2. /\ r \in Seq(Call) /\ Len(r) = Len(w) /\ r[1] = c
      /\ \A i \in 1 .. Len(w) : i > 1 => r[i] = w[i]
  BY <1>1 DEF WithFirst
<1> HIDE DEF r
<1>3. \A i \in 1 .. Len(r) : CallOk(r[i], rev) /\ (i > 1 => r[i].stage = "queued")
  <2> SUFFICES ASSUME NEW i \in 1 .. Len(r)
               PROVE  CallOk(r[i], rev) /\ (i > 1 => r[i].stage = "queued")
    OBVIOUS
  <2>1. CASE i = 1
    BY <1>2, <2>1
  <2>2. CASE i > 1
    BY <1>2, <2>2 DEF ChainOk
  <2> QED
    BY <1>1, <1>2, <2>1, <2>2
<1>4. ChainOk(r, rev)
  BY <1>1, <1>2, <1>3 DEF ChainOk
<1> QED
  BY <1>2, <1>4 DEF r

LEMMA ToldLess ==
  ASSUME NEW w, NEW rev \in Nat, NEW higher \in Nat, rev <= higher, ChainOk(w, rev)
  PROVE  ChainOk(w, higher)
<1>1. \A i \in 1 .. Len(w) : w[i] \in Call /\ w[i].told <= rev
  BY DEF ChainOk, CallOk
<1>2. \A i \in 1 .. Len(w) : w[i].told \in Nat
  BY <1>1, ControlAssumption DEF Call, Revisions
<1>3. \A i \in 1 .. Len(w) : w[i].told <= higher
  BY <1>1, <1>2
<1> QED
  BY <1>3 DEF ChainOk, CallOk

-----------------------------------------------------------------------------
(* Calls and states as records.                                             *)

LEMMA CallFields ==
  ASSUME NEW c \in Call
  PROVE  /\ c.stage \in Stages /\ c.kind \in Kinds /\ c.group \in Groups \cup {NoGroup}
         /\ c.seen \in Nat /\ c.told \in Nat /\ c.at \in Times
         /\ c.plan.target \in Groups \cup {NoGroup} /\ c.plan.weighed \in BOOLEAN
         /\ c.plan.unusable \in SUBSET Groups
<1>1. /\ c.stage \in Stages /\ c.kind \in Kinds /\ c.group \in Groups \cup {NoGroup}
      /\ c.seen \in Revisions /\ c.told \in Revisions /\ c.at \in Times
      /\ c.plan \in [target : Groups \cup {NoGroup}, weighed : BOOLEAN,
                     unusable : SUBSET Groups]
  BY DEF Call
<1>2. Revisions \subseteq Nat
  BY ControlAssumption DEF Revisions
<1>3. /\ c.plan.target \in Groups \cup {NoGroup} /\ c.plan.weighed \in BOOLEAN
      /\ c.plan.unusable \in SUBSET Groups
  BY <1>1
<1> QED
  BY <1>1, <1>2, <1>3

LEMMA Staged ==
  ASSUME NEW c \in Call, NEW stage \in Stages, NEW q, q = [c EXCEPT !.stage = stage]
  PROVE  /\ q \in Call /\ q.stage = stage /\ q.kind = c.kind /\ q.group = c.group
         /\ q.seen = c.seen /\ q.told = c.told /\ q.at = c.at /\ q.plan = c.plan
<1>1. q \in Call
  BY Zenon DEF Call
<1> QED
  BY <1>1 DEF Call

WithPlan(c, stage, plan) == [c EXCEPT !.stage = stage, !.plan = plan]

LEMMA Planned ==
  ASSUME NEW c \in Call, NEW stage \in Stages,
         NEW plan \in [target : Groups \cup {NoGroup}, weighed : BOOLEAN,
                       unusable : SUBSET Groups]
  PROVE  /\ WithPlan(c, stage, plan) \in Call
         /\ WithPlan(c, stage, plan).stage = stage
         /\ WithPlan(c, stage, plan).kind = c.kind
         /\ WithPlan(c, stage, plan).seen = c.seen
         /\ WithPlan(c, stage, plan).told = c.told
         /\ WithPlan(c, stage, plan).at = c.at
         /\ WithPlan(c, stage, plan).plan = plan
<1>1. WithPlan(c, stage, plan) \in Call
  BY Zenon DEF Call, WithPlan
<1> QED
  BY <1>1 DEF Call, WithPlan

LEMMA NoPlanTyped ==
  NoPlan \in [target : Groups \cup {NoGroup}, weighed : BOOLEAN, unusable : SUBSET Groups]
BY DEF NoPlan

LEMMA NewCallTyped ==
  ASSUME NEW kind \in Kinds
  PROVE  /\ NewCall(kind) \in Call /\ NewCall(kind).stage = "queued"
         /\ NewCall(kind).kind = kind /\ NewCall(kind).seen = 0 /\ NewCall(kind).told = 0
<1>1. 0 \in Times /\ 0 \in Revisions
  BY ControlAssumption DEF Times, Revisions
<1> QED
  BY <1>1, NoPlanTyped DEF NewCall, Call, Stages

Wish(kind, group, seen) == [NewCall(kind) EXCEPT !.group = group, !.seen = seen]

LEMMA WishedCall ==
  ASSUME NEW kind \in Kinds, NEW group \in Groups \cup {NoGroup}, NEW seen \in Revisions
  PROVE  /\ Wish(kind, group, seen) \in Call /\ Wish(kind, group, seen).stage = "queued"
         /\ Wish(kind, group, seen).kind = kind /\ Wish(kind, group, seen).seen = seen
         /\ Wish(kind, group, seen).told = 0
<1> DEFINE new == NewCall(kind)
           c == [new EXCEPT !.group = group, !.seen = seen]
<1>1. new \in Call /\ new.stage = "queued" /\ new.kind = kind /\ new.told = 0
  BY NewCallTyped
<1>2. c = Wish(kind, group, seen)
  BY DEF Wish
<1> HIDE DEF new
<1>3. c \in Call
  BY <1>1, Zenon DEF Call
<1>4. c.stage = "queued" /\ c.kind = kind /\ c.seen = seen /\ c.told = 0
  BY <1>1, <1>3 DEF Call
<1> QED
  BY <1>2, <1>3, <1>4

LEMMA FollowUp ==
  ASSUME NEW told \in Revisions, NEW c, c = [NewCall("round") EXCEPT !.told = told]
  PROVE  c \in Call /\ c.stage = "queued" /\ c.kind = "round" /\ c.told = told
<1> DEFINE new == NewCall("round")
<1>1. /\ new \in Call /\ new.stage = "queued" /\ new.kind = "round"
      /\ c = [new EXCEPT !.told = told]
  BY NewCallTyped DEF Kinds
<1> HIDE DEF new
<1>2. c \in Call
  BY <1>1, Zenon DEF Call
<1> QED
  BY <1>1, <1>2 DEF Call

LEMMA StateFields ==
  ASSUME NEW st \in State
  PROVE  /\ st.current \in Groups \cup {NoGroup} /\ st.lastSwitch \in Times \cup {Never}
         /\ st.lock \in Lock /\ st.lock.group \in Groups \cup {NoGroup}
         /\ st.lock.revision \in Revisions /\ st.lock.revision \in Nat
<1>1. st.lock \in Lock /\ st.current \in Groups \cup {NoGroup}
      /\ st.lastSwitch \in Times \cup {Never}
  BY DEF State
<1>2. Revisions \subseteq Nat
  BY ControlAssumption DEF Revisions
<1> QED
  BY <1>1, <1>2 DEF Lock

-----------------------------------------------------------------------------
(* What steps do to the chain.                                              *)

(* A lock is about to be saved only if its page had seen the one before it. *)
LockUpdate ==
  Len(chain) > 0 /\ Len(chain') > 0 /\ chain[1].kind = "lock"
    /\ chain[1].stage # "saving" /\ chain'[1].stage = "saving"
  => chain[1].seen = state.lock.revision

LEMMA Given ==
  ASSUME IInv
  PROVE  /\ state.lock.revision \in Nat /\ disk.lock.revision \in Nat
         /\ Len(chain) \in Nat /\ Len(chain) <= MaxCalls /\ MaxCalls \in Nat
         /\ \A i \in 1 .. Len(chain) :
              CallOk(chain[i], state.lock.revision) /\ (i > 1 => chain[i].stage = "queued")
BY StateFields, ControlAssumption DEF IInv, ChainOk

LEMMA FirstOnly ==
  ASSUME IInv, NEW i, NEW stage, NEW kinds, At(i, stage, kinds), stage # "queued"
  PROVE  /\ i = 1 /\ Len(chain) > 0 /\ chain[1].stage = stage /\ chain[1].kind \in kinds
         /\ chain[1] \in Call
<1>1. chain \in Seq(Call) /\ DOMAIN chain = 1 .. Len(chain)
  BY DEF IInv, ChainOk
<1>2. i = 1 /\ Len(chain) > 0 /\ chain[1].stage = stage /\ chain[1].kind \in kinds
  BY <1>1, Given DEF At
<1> QED
  BY <1>1, <1>2, Given DEF CallOk

LEMMA FirstStarts ==
  ASSUME IInv, NEW i, NEW kinds, Queued(i, kinds)
  PROVE  /\ i = 1 /\ Len(chain) > 0 /\ chain[1].stage = "queued"
         /\ chain[1].kind \in kinds /\ chain[1] \in Call
<1>1. i = 1 /\ chain # <<>> /\ chain[1].stage = "queued" /\ chain[1].kind \in kinds
  BY DEF Queued, Runs
<1>2. Len(chain) > 0
  BY <1>1 DEF IInv, ChainOk
<1> QED
  BY <1>1, <1>2, Given DEF CallOk

(* What the first call may become, for the invariant's sake.                *)
Allowed(c) ==
  /\ c.stage = "keying" =>
       /\ state'.lock.group \in {NoGroup, c.plan.target} \cup c.plan.unusable
       /\ c.plan.weighed /\ moved' # Never => c.at - moved' >= MinDwell
  /\ c.stage = "fetching" /\ c.kind = "lock"
       => c.seen = state'.lock.revision /\ c.group # state'.lock.group
  /\ IF c.stage = "adopting" THEN moved' \in {Never, c.at}
                             ELSE moved' \in {Never, state'.lastSwitch}
  /\ c.kind = "lock" /\ chain[1].stage # "saving" /\ c.stage = "saving"
       => c.seen = state.lock.revision

(* The first call goes on as c.                                             *)
LEMMA Advances ==
  ASSUME IInv, Len(chain) > 0, NEW c \in Call, c.kind = chain[1].kind,
         c.seen = chain[1].seen, c.told = chain[1].told, chain' = WithFirst(chain, c),
         Allowed(c), now' = now, config' \in Configs, state' \in State,
         disk' \in {disk, state}, moved' \in Times \cup {Never},
         state'.lock.revision >= state.lock.revision
  PROVE  IInv' /\ LockUpdate
<1> DEFINE rev == state.lock.revision
           new == state'.lock.revision
<1>1. rev \in Nat /\ new \in Nat /\ new >= rev /\ disk.lock.revision \in Nat
  BY Given, StateFields
<1>2. CallOk(c, rev)
  BY Given DEF CallOk
<1>3. ChainOk(chain', rev) /\ Len(chain') = Len(chain) /\ chain'[1] = c
  <2>1. ChainOk(chain, rev)
    BY DEF IInv
  <2>2. Len(chain) > 0
    OBVIOUS
  <2> HIDE DEF rev
  <2>3. /\ ChainOk(WithFirst(chain, c), rev)
        /\ Len(WithFirst(chain, c)) = Len(chain) /\ WithFirst(chain, c)[1] = c
    BY ONLY <1>2, <2>1, <2>2, Replaced
  <2> QED
    BY <2>3
<1>4. ChainOk(chain', new)
  BY <1>1, <1>3, ToldLess
<1>5. disk' \in State /\ disk'.lock.revision <= new
  BY <1>1, Given DEF IInv
<1>6. FirstOk'
  BY <1>3 DEF FirstOk, Obeys, Dwelt, Allowed
<1>7. MovedOk'
  BY <1>3 DEF MovedOk, Allowed
<1>8. LockUpdate
  BY <1>3 DEF LockUpdate, Allowed
<1> QED
  BY <1>4, <1>5, <1>6, <1>7, <1>8 DEF IInv

(* The first call is over and perhaps followed by a round.                  *)
LEMMA Leaves ==
  ASSUME IInv, Len(chain) > 0, chain[1].stage # "adopting",
         NEW told \in Nat, told <= state.lock.revision,
         \/ chain' = RemoveAt(chain, 1)
         \/ chain' = Append(RemoveAt(chain, 1), [NewCall("round") EXCEPT !.told = told]),
         now' = now, config' \in Configs, state' = state, disk' \in {disk, state},
         moved' = moved
  PROVE  IInv' /\ LockUpdate
<1> DEFINE rev == state.lock.revision
           rest == RemoveAt(chain, 1)
           round == [NewCall("round") EXCEPT !.told = told]
<1>1. /\ ChainOk(rest, rev) /\ Len(rest) = Len(chain) - 1
      /\ \A i \in 1 .. Len(rest) : rest[i].stage = "queued"
  BY Removed DEF IInv
<1>2. round \in Call /\ round.stage = "queued" /\ round.kind = "round" /\ round.told = told
  <2>1. told \in Revisions
    <3>1. rev \in Revisions
      BY StateFields DEF IInv
    <3> QED
      BY <3>1, ControlAssumption DEF Revisions
  <2> QED
    BY <2>1, FollowUp
<1> HIDE DEF rest, round
<1>3. ChainOk(chain', rev) /\ (Len(chain') > 0 => chain'[1].stage = "queued")
  <2>1. CASE chain' = rest
    <3>1. rest \in Seq(Call) /\ Len(rest) \in Nat
      BY <1>1 DEF ChainOk
    <3> QED
      BY <1>1, <2>1, <3>1
  <2>2. CASE chain' = Append(rest, round)
    <3>1. CallOk(round, rev)
      BY <1>2 DEF CallOk
    <3>2. Len(rest) \in Nat /\ Len(rest) < MaxCalls
      BY <1>1, Given
    <3>3. /\ ChainOk(chain', rev)
          /\ \A i \in 1 .. Len(rest) : chain'[i] = rest[i]
          /\ chain'[Len(rest) + 1] = round
      BY <1>1, <1>2, <2>2, <3>1, <3>2, Appended
    <3>4. Len(rest) = 0 \/ 1 \in 1 .. Len(rest)
      BY <3>2
    <3> QED
      BY <1>1, <1>2, <3>3, <3>4
  <2> QED
    BY <2>1, <2>2 DEF rest, round
<1>4. disk' \in State /\ disk'.lock.revision <= state'.lock.revision
  BY Given DEF IInv
<1>5. FirstOk' /\ LockUpdate
  BY <1>3 DEF FirstOk, LockUpdate
<1>6. MovedOk'
  BY <1>3 DEF IInv, MovedOk
<1> QED
  BY <1>3, <1>4, <1>5, <1>6 DEF IInv

(* The chain does not move.                                                 *)
LEMMA Stays ==
  ASSUME IInv, UNCHANGED <<config, state, chain, moved>>, now' \in Times,
         disk' \in {disk, state}
  PROVE  IInv' /\ LockUpdate
<1>1. FirstOk' /\ MovedOk' /\ LockUpdate
  BY DEF IInv, FirstOk, MovedOk, Obeys, Dwelt, LockUpdate
<1>2. disk' \in State /\ disk'.lock.revision <= state.lock.revision
  BY Given DEF IInv
<1> QED
  BY <1>1, <1>2 DEF IInv

-----------------------------------------------------------------------------
(* Rounds.                                                                  *)

LEMMA EvaluationTop ==
  ASSUME NEW s \in Situations, NEW cfg \in Configs,
         Evaluations[s][cfg].worthy # {}
  PROVE  Top(s, Evaluations[s][cfg]) \in Groups
<1> DEFINE e == Evaluations[s][cfg]
           open == CircuitIn(s, {"open", "half-open"})
<1>1. e = Evaluate(s, cfg.mode, cfg.blacklist, open)
  BY DEF Evaluations, RoundEvaluation
<1>2. IsSituation(s) /\ cfg.mode \in Modes
  BY ControlAssumption
<1>3. e.worthy # {}
  OBVIOUS
<1> HIDE DEF e, open
<1> QED
  BY <1>1, <1>2, <1>3, TopIsFirst DEF e

(* d moves to the first candidate, by score only after the dwell time.      *)
Chosen(d, s, e, rs, at) ==
  /\ e.worthy # {}
  /\ \/ \E reason : d = Move(Top(s, e), reason, FALSE)
     \/ d = Move(Top(s, e), "better_score", TRUE) /\ ~Dwelling(rs, at)

LEMMA Decisions ==
  ASSUME NEW rs, NEW e, NEW s, NEW traffic, NEW at, NEW d, d = Decide(s, e, rs, traffic, at),
         d.switch
  PROVE  Chosen(d, s, e, rs, at)
<1>1. \A reason : ~Stay(rs, reason).switch
  BY DEF Stay
<1>2. e.worthy # {}
  BY <1>1 DEF Decide
<1> DEFINE top == Top(s, e)
           advantage == e.score[top] - e.score[rs.current]
           priceless == rs.current \notin e.worthy
           weigh == IF Dwelling(rs, at) THEN Stay(rs, "dwell")
                    ELSE IF priceless \/ Exceeds(advantage, traffic)
                      THEN Move(top, "better_score", TRUE)
                    ELSE Stay(rs, "hold")
<1>3. d = CASE rs.current = NoGroup -> Move(top, "initial_route", FALSE)
            [] rs.current \in e.standby -> Move(top, "better_price", FALSE)
            [] rs.current \notin e.eligible \cup {NoGroup} \cup e.standby ->
                 Move(top, "current_invalid", FALSE)
            [] rs.current = top -> Stay(rs, "already_optimal")
            [] OTHER -> weigh
  BY <1>2, Zenon DEF Decide
<1> HIDE DEF top, weigh
<1>4. \/ d = Move(top, "initial_route", FALSE) \/ d = Move(top, "better_price", FALSE)
      \/ d = Move(top, "current_invalid", FALSE) \/ d = Stay(rs, "already_optimal")
      \/ d = weigh
  BY <1>3
<1>5. d = weigh => d = Move(top, "better_score", TRUE) /\ ~Dwelling(rs, at)
  BY <1>1 DEF weigh
<1> QED
  <2>1. \/ \E reason : d = Move(top, reason, FALSE)
        \/ d = Move(top, "better_score", TRUE) /\ ~Dwelling(rs, at)
    BY <1>1, <1>4, <1>5, Zenon
  <2> QED
    BY <1>2, <2>1 DEF top, Chosen

(* A round moves to the group that is locked, or away from a lock it saw    *)
(* unusable; and by score only after the dwell time.                        *)
LEMMA Decided ==
  ASSUME IInv, NEW s \in Situations, NEW traffic, NEW at,
         NEW d, d = RoundDecision(s, traffic, at), d.switch
  PROVE  /\ d.target \in Groups \cup {NoGroup} /\ d.weighed \in BOOLEAN
         /\ state.lock.group \in {NoGroup, d.target}
              \cup (Groups \ (LockableGroups[s][config] \cup {d.target}))
         /\ d.weighed /\ state.lastSwitch # Never => ~(at - state.lastSwitch < MinDwell)
<1> DEFINE rs == [current |-> state.current, lastSwitch |-> state.lastSwitch]
           locked == state.lock.group
           e == Evaluations[s][config]
<1>1. locked \in Groups \cup {NoGroup} /\ config \in Configs
  BY StateFields DEF IInv
<1>2. CASE locked \in LockableGroups[s][config]
  <2>1. d = Stay(rs, "manual_lock") \/ d = Move(locked, "manual_lock", FALSE)
    BY <1>2 DEF RoundDecision
  <2>2. ~Stay(rs, "manual_lock").switch
    BY DEF Stay
  <2>3. d = Move(locked, "manual_lock", FALSE)
    BY <2>1, <2>2, Zenon
  <2>4. d.target = locked /\ d.weighed = FALSE
    BY <2>3, MoveFields
  <2> QED
    BY <1>1, <2>4
<1>3. CASE locked \notin LockableGroups[s][config]
  <2>1. d = Decide(s, e, rs, traffic, at)
    BY <1>3 DEF RoundDecision
  <2>2. locked \in {NoGroup, d.target} \cup (Groups \ (LockableGroups[s][config] \cup {d.target}))
    BY <1>1, <1>3
  <2> DEFINE top == Top(s, e)
  <2> HIDE DEF e, rs
  <2>3. /\ e.worthy # {}
        /\ \/ \E reason : d = Move(top, reason, FALSE)
           \/ d = Move(top, "better_score", TRUE) /\ ~Dwelling(rs, at)
    <3>1. Chosen(d, s, e, rs, at)
      BY <2>1, Decisions
    <3> QED
      BY <3>1 DEF Chosen
  <2>4. top \in Groups
    BY <1>1, <2>3, EvaluationTop DEF e
  <2> HIDE DEF top
  <2>5. d.target = top /\ (d.weighed = FALSE \/ (d.weighed = TRUE /\ ~Dwelling(rs, at)))
    BY <2>3, MoveFields
  <2>6. Dwelling(rs, at) <=> state.lastSwitch # Never /\ at - state.lastSwitch < MinDwell
    BY DEF Dwelling, rs
  <2>7. d.weighed \in BOOLEAN
    BY <2>5
  <2>8. d.weighed /\ state.lastSwitch # Never => ~(at - state.lastSwitch < MinDwell)
    BY <2>5, <2>6, Zenon
  <2> QED
    BY <2>2, <2>4, <2>5, <2>7, <2>8
<1> QED
  BY <1>2, <1>3

LEMMA StartRoundKeeps ==
  ASSUME IInv, NEW i, StartRound(i)
  PROVE  IInv' /\ LockUpdate
<1>1. /\ i = 1 /\ Len(chain) > 0 /\ chain[1].stage = "queued" /\ chain[1] \in Call
      /\ chain[1].kind \in {"round", "dryrun"}
  BY FirstStarts DEF StartRound
<1> DEFINE c == [chain[1] EXCEPT !.stage = "fetching", !.at = now]
<1>2. c \in Call
  <2>1. now \in Times /\ "fetching" \in Stages
    BY DEF IInv, Stages
  <2> QED
    BY <1>1, <2>1, Zenon DEF Call
<1>3. c.stage = "fetching" /\ c.kind = chain[1].kind /\ c.seen = chain[1].seen
      /\ c.told = chain[1].told
  BY <1>1 DEF Call
<1>4. chain' = WithFirst(chain, c)
  BY <1>1 DEF StartRound, WithFirst
<1> HIDE DEF c
<1>5. UNCHANGED <<now, config, state, disk, moved>>
  BY DEF StartRound
<1>6. Allowed(c)
  BY <1>1, <1>3, <1>5 DEF IInv, MovedOk, Allowed
<1> QED
  BY <1>1, <1>2, <1>3, <1>4, <1>5, <1>6, Given, Advances DEF IInv

(* The first call is over and nothing else has changed but the disk.        *)
LEMMA EndKeeps ==
  ASSUME IInv, NEW i, i = 1, Len(chain) > 0, chain[1].stage # "adopting", Ends(i),
         UNCHANGED <<now, config, state, moved>>, disk' \in {disk, state}
  PROVE  IInv' /\ LockUpdate
<1>1. chain' = RemoveAt(chain, 1)
  BY DEF Ends
<1>2. 0 \in Nat /\ 0 <= state.lock.revision
  BY Given
<1>3. config' \in Configs
  BY DEF IInv
<1> QED
  BY <1>1, <1>2, <1>3, Leaves

LEMMA FollowedKeeps ==
  ASSUME IInv, NEW i, i = 1, Len(chain) > 0, chain[1].stage # "adopting",
         NEW told \in {0, state.lock.revision}, FollowedByRound(i, told),
         UNCHANGED <<now, config, state, moved>>, disk' \in {disk, state}
  PROVE  IInv' /\ LockUpdate
<1>1. chain' = Append(RemoveAt(chain, 1), [NewCall("round") EXCEPT !.told = told])
  BY DEF FollowedByRound
<1>2. told \in Nat /\ told <= state.lock.revision
  BY Given
<1>3. config' \in Configs
  BY DEF IInv
<1> QED
  BY <1>1, <1>2, <1>3, Leaves

(* The first call goes on and nothing else changes but the configuration.   *)
LEMMA GoesKeeps ==
  ASSUME IInv, NEW i, i = 1, Len(chain) > 0, NEW stage \in Stages, Goes(i, stage),
         stage \in {"saving", "fetching"}, chain[1].stage # "adopting",
         chain[1].kind = "lock" => /\ stage = "fetching"
                                   /\ chain[1].seen = state.lock.revision
                                   /\ chain[1].group # state.lock.group,
         UNCHANGED <<now, state, moved>>, config' \in Configs, disk' \in {disk, state}
  PROVE  IInv' /\ LockUpdate
<1> DEFINE c == [chain[1] EXCEPT !.stage = stage]
<1>1. chain[1] \in Call
  BY Given DEF CallOk
<1>2. /\ c \in Call /\ c.stage = stage /\ c.kind = chain[1].kind
      /\ c.group = chain[1].group /\ c.seen = chain[1].seen /\ c.told = chain[1].told
  BY <1>1, Staged
<1>3. chain' = WithFirst(chain, c)
  BY DEF Goes, WithFirst
<1> HIDE DEF c
<1>4. Allowed(c)
  BY <1>2 DEF IInv, MovedOk, Allowed
<1> QED
  BY <1>2, <1>3, <1>4, Given, Advances DEF IInv

LEMMA DecideRoundKeeps ==
  ASSUME IInv, NEW i, NEW s \in Situations, NEW traffic, DecideRound(i, s, traffic)
  PROVE  IInv' /\ LockUpdate
<1> DEFINE at == chain[1].at
           d == RoundDecision(s, traffic, at)
           unusable == Groups \ (LockableGroups[s][config] \cup {d.target})
           plan == [target |-> d.target, weighed |-> d.weighed, unusable |-> unusable]
           c == WithPlan(chain[1], "keying", plan)
<1>1. /\ i = 1 /\ Len(chain) > 0 /\ chain[1].stage = "fetching" /\ chain[1] \in Call
      /\ chain[1].kind \in {"round", "dryrun"}
  BY FirstOnly DEF DecideRound
<1>2. UNCHANGED <<now, config, state, disk, moved>> /\ config' \in Configs
  BY DEF DecideRound, IInv
<1>3. \/ Ends(1) \/ Goes(1, "saving")
      \/ d.switch /\ chain' = WithFirst(chain, c)
  BY <1>1 DEF DecideRound, WithFirst, WithPlan
<1>4. CASE Ends(1)
  BY <1>1, <1>2, <1>4, EndKeeps
<1>5. CASE Goes(1, "saving")
  BY <1>1, <1>2, <1>5, GoesKeeps DEF Stages
<1>6. CASE d.switch /\ chain' = WithFirst(chain, c)
  <2>1. /\ d.target \in Groups \cup {NoGroup} /\ d.weighed \in BOOLEAN
        /\ state.lock.group \in {NoGroup, d.target} \cup unusable
        /\ d.weighed /\ state.lastSwitch # Never => ~(at - state.lastSwitch < MinDwell)
    <3> HIDE DEF at, d
    <3>1. d = RoundDecision(s, traffic, at) /\ d.switch
      BY <1>6 DEF d
    <3> QED
      BY <3>1, Decided
  <2> HIDE DEF d, unusable
  <2>2. plan \in [target : Groups \cup {NoGroup}, weighed : BOOLEAN,
                  unusable : SUBSET Groups]
    BY <2>1 DEF unusable
  <2>3. plan.target = d.target /\ plan.weighed = d.weighed /\ plan.unusable = unusable
    OBVIOUS
  <2> HIDE DEF plan
  <2>4. /\ c \in Call /\ c.stage = "keying" /\ c.kind = chain[1].kind
        /\ c.seen = chain[1].seen /\ c.told = chain[1].told /\ c.at = at /\ c.plan = plan
    BY <1>1, <2>2, Planned DEF Stages
  <2> HIDE DEF c
  <2>5. moved \in {Never, state.lastSwitch}
    BY <1>1 DEF IInv, MovedOk
  <2>6. c.plan.weighed /\ moved # Never => c.at - moved >= MinDwell
    <3>1. at \in Int /\ (state.lastSwitch # Never => state.lastSwitch \in Int) /\ MinDwell \in Int
      BY <1>1, CallFields, StateFields, DecisionAssumption, ControlAssumption DEF IInv, Times
    <3>2. ~(at - state.lastSwitch < MinDwell) /\ state.lastSwitch # Never
            => at - state.lastSwitch >= MinDwell
      BY <3>1
    <3>3. d.weighed /\ moved # Never => at - moved >= MinDwell
      BY <2>1, <2>5, <3>2, Zenon
    <3> QED
      BY <2>3, <2>4, <3>3
  <2>7. state.lock.group \in {NoGroup, c.plan.target} \cup c.plan.unusable
    BY <2>1, <2>3, <2>4
  <2>8. Allowed(c)
    BY <1>1, <1>2, <2>4, <2>5, <2>6, <2>7 DEF Allowed
  <2> QED
    BY <1>1, <1>2, <1>6, <2>4, <2>8, Given, Advances DEF IInv
<1> QED
  BY <1>3, <1>4, <1>5, <1>6

LEMMA KeyReadyKeeps ==
  ASSUME IInv, NEW i, KeyReady(i)
  PROVE  IInv' /\ LockUpdate
<1> DEFINE c == WithPlan(chain[1], "adopting", NoPlan)
<1>1. /\ i = 1 /\ Len(chain) > 0 /\ chain[1] \in Call /\ chain[1].kind = "round"
  BY FirstOnly DEF KeyReady
<1>2. /\ c \in Call /\ c.stage = "adopting" /\ c.kind = chain[1].kind
      /\ c.seen = chain[1].seen /\ c.told = chain[1].told /\ c.at = chain[1].at
  BY <1>1, NoPlanTyped, Planned DEF Stages
<1>3. chain' = WithFirst(chain, c)
  BY <1>1 DEF KeyReady, WithFirst, WithPlan
<1> HIDE DEF c
<1>4. /\ state' \in State /\ state'.lock = state.lock /\ moved' = chain[1].at
      /\ UNCHANGED <<now, config, disk>>
  <2>1. chain[1].plan.target \in Groups \cup {NoGroup}
    BY <1>1, CallFields
  <2> QED
    BY <1>1, <2>1 DEF KeyReady, IInv, State
<1>5. moved' \in Times
  BY <1>1, <1>4, CallFields
<1>6. Allowed(c)
  BY <1>1, <1>2, <1>4 DEF Allowed
<1> QED
  BY <1>1, <1>2, <1>3, <1>4, <1>5, <1>6, Given, Advances DEF IInv

LEMMA KeyFailsKeeps ==
  ASSUME IInv, NEW i, KeyFails(i)
  PROVE  IInv' /\ LockUpdate
<1> DEFINE c == WithPlan(chain[1], "saving", NoPlan)
<1>1. /\ i = 1 /\ Len(chain) > 0 /\ chain[1] \in Call /\ chain[1].kind = "round"
      /\ chain[1].stage = "keying"
  BY FirstOnly DEF KeyFails
<1>2. /\ c \in Call /\ c.stage = "saving" /\ c.kind = chain[1].kind
      /\ c.seen = chain[1].seen /\ c.told = chain[1].told
  BY <1>1, NoPlanTyped, Planned DEF Stages
<1>3. chain' = WithFirst(chain, c)
  BY <1>1 DEF KeyFails, WithFirst, WithPlan
<1> HIDE DEF c
<1>4. UNCHANGED <<now, config, state, disk, moved>>
  BY DEF KeyFails
<1>5. Allowed(c)
  BY <1>1, <1>2, <1>4 DEF IInv, MovedOk, Allowed
<1> QED
  BY <1>1, <1>2, <1>3, <1>4, <1>5, Given, Advances DEF IInv

LEMMA AdoptedKeeps ==
  ASSUME IInv, NEW i, Adopted(i)
  PROVE  IInv' /\ LockUpdate
<1> DEFINE c == [chain[1] EXCEPT !.stage = "saving"]
<1>1. /\ i = 1 /\ Len(chain) > 0 /\ chain[1] \in Call /\ chain[1].kind = "round"
      /\ chain[1].stage = "adopting"
  BY FirstOnly DEF Adopted
<1>2. /\ c \in Call /\ c.stage = "saving" /\ c.kind = chain[1].kind
      /\ c.seen = chain[1].seen /\ c.told = chain[1].told
  BY <1>1, Staged DEF Stages
<1>3. chain' = WithFirst(chain, c)
  BY <1>1 DEF Adopted, Goes, WithFirst
<1> HIDE DEF c
<1>4. /\ state' \in State /\ state'.lock = state.lock /\ state'.lastSwitch = chain[1].at
      /\ disk' = state /\ UNCHANGED <<now, config, moved>>
  <2>1. chain[1].at \in Times
    BY <1>1, CallFields
  <2> QED
    BY <1>1, <2>1 DEF Adopted, IInv, State
<1>5. Allowed(c)
  BY <1>1, <1>2, <1>4 DEF IInv, MovedOk, Allowed
<1> QED
  BY <1>1, <1>2, <1>3, <1>4, <1>5, Given, Advances DEF IInv

LEMMA AdoptFailsKeeps ==
  ASSUME IInv, NEW i, AdoptFails(i)
  PROVE  IInv' /\ LockUpdate
<1> DEFINE c == [chain[1] EXCEPT !.stage = "saving"]
<1>1. /\ i = 1 /\ Len(chain) > 0 /\ chain[1] \in Call /\ chain[1].kind = "round"
  BY FirstOnly DEF AdoptFails
<1>2. /\ c \in Call /\ c.stage = "saving" /\ c.kind = chain[1].kind
      /\ c.seen = chain[1].seen /\ c.told = chain[1].told
  BY <1>1, Staged DEF Stages
<1>3. chain' = WithFirst(chain, c)
  BY <1>1 DEF AdoptFails, Goes, WithFirst
<1> HIDE DEF c
<1>4. moved' = Never /\ UNCHANGED <<now, config, state, disk>>
  BY DEF AdoptFails
<1>5. Allowed(c)
  BY <1>1, <1>2, <1>4 DEF Allowed
<1> QED
  BY <1>1, <1>2, <1>3, <1>4, <1>5, Given, Advances DEF IInv

LEMMA RoundSavedKeeps ==
  ASSUME IInv, NEW i, RoundSaved(i) \/ RoundNotSaved(i)
  PROVE  IInv' /\ LockUpdate
<1>1. i = 1 /\ Len(chain) > 0 /\ chain[1].stage = "saving"
  BY FirstOnly DEF RoundSaved, RoundNotSaved
<1>2. Ends(i) /\ UNCHANGED <<now, config, state, moved>> /\ disk' \in {disk, state}
  BY DEF RoundSaved, RoundNotSaved, Rejects
<1> QED
  BY <1>1, <1>2, EndKeeps

-----------------------------------------------------------------------------
(* The manual lock.                                                         *)

LEMMA SetLockKeeps ==
  ASSUME IInv, NEW i, i = 1, Len(chain) > 0, chain[1].kind = "lock",
         chain[1].stage # "adopting", chain[1].seen = state.lock.revision, SetLock(i),
         UNCHANGED <<now, config, disk, moved>>
  PROVE  IInv' /\ LockUpdate
<1> DEFINE c == [chain[1] EXCEPT !.stage = "saving"]
           lock == [group |-> chain[1].group, revision |-> chain[1].seen + 1]
<1>1. chain[1] \in Call /\ chain[1].seen < MaxRevision
  BY Given DEF CallOk
<1>2. /\ c \in Call /\ c.stage = "saving" /\ c.kind = chain[1].kind
      /\ c.seen = chain[1].seen /\ c.told = chain[1].told
  BY <1>1, Staged DEF Stages
<1>3. chain' = WithFirst(chain, c)
  BY DEF SetLock, Goes, WithFirst
<1> HIDE DEF c
<1>4. lock \in Lock /\ lock.revision = state.lock.revision + 1
  BY <1>1, CallFields, ControlAssumption DEF Lock, Revisions
<1>5. state' = [state EXCEPT !.lock = lock]
  BY DEF SetLock
<1> HIDE DEF lock
<1>6. /\ state' \in State /\ state'.lock = lock /\ state'.lastSwitch = state.lastSwitch
  BY <1>4, <1>5 DEF IInv, State
<1>7. state'.lock.revision >= state.lock.revision
  BY <1>4, <1>6, Given
<1>8. Allowed(c)
  BY <1>2, <1>6 DEF IInv, MovedOk, Allowed
<1> QED
  BY <1>2, <1>3, <1>6, <1>7, <1>8, Given, Advances DEF IInv

LEMMA StartLockKeeps ==
  ASSUME IInv, NEW i, StartLock(i)
  PROVE  IInv' /\ LockUpdate
<1>1. /\ i = 1 /\ Len(chain) > 0 /\ chain[1].stage = "queued" /\ chain[1].kind = "lock"
  <2>1. Queued(i, {"lock"})
    BY Zenon DEF StartLock
  <2> QED
    BY <2>1, FirstStarts
<1>2. UNCHANGED <<now, config, disk, moved>>
  BY DEF StartLock
<1>3. \/ Ends(1) /\ UNCHANGED state
      \/ FollowedByRound(1, state.lock.revision) /\ UNCHANGED state
      \/ chain[1].seen = state.lock.revision
           /\ chain[1].group # state.lock.group
           /\ (SetLock(1) \/ (Goes(1, "fetching") /\ UNCHANGED state))
  <2>1. StartLock(1)
    BY <1>1
  <2> QED
    BY <2>1 DEF StartLock
<1>4. CASE Ends(1) /\ UNCHANGED state
  BY <1>1, <1>2, <1>4, EndKeeps
<1>5. CASE FollowedByRound(1, state.lock.revision) /\ UNCHANGED state
  BY <1>1, <1>2, <1>5, FollowedKeeps
<1>6. CASE chain[1].seen = state.lock.revision /\ SetLock(1)
  BY <1>1, <1>2, <1>6, SetLockKeeps
<1>7. CASE chain[1].seen = state.lock.revision /\ chain[1].group # state.lock.group
             /\ Goes(1, "fetching") /\ UNCHANGED state
  BY <1>1, <1>2, <1>7, GoesKeeps DEF Stages, IInv
<1> QED
  BY <1>3, <1>4, <1>5, <1>6, <1>7

LEMMA JudgeLockKeeps ==
  ASSUME IInv, NEW i, NEW s, JudgeLock(i, s)
  PROVE  IInv' /\ LockUpdate
<1>1. /\ i = 1 /\ Len(chain) > 0 /\ chain[1].stage = "fetching" /\ chain[1].kind = "lock"
  BY FirstOnly DEF JudgeLock
<1>2. UNCHANGED <<now, config, disk, moved>>
  BY DEF JudgeLock
<1>3. chain[1].seen = state.lock.revision
  BY <1>1 DEF IInv, FirstOk
<1>4. CASE SetLock(1)
  BY <1>1, <1>2, <1>3, <1>4, SetLockKeeps
<1>5. CASE Ends(1) /\ UNCHANGED state
  BY <1>1, <1>2, <1>5, EndKeeps
<1> QED
  BY <1>1, <1>4, <1>5 DEF JudgeLock

LEMMA LockSavedKeeps ==
  ASSUME IInv, NEW i, LockSaved(i) \/ LockNotSaved(i)
  PROVE  IInv' /\ LockUpdate
<1>1. i = 1 /\ Len(chain) > 0 /\ chain[1].stage = "saving"
  BY FirstOnly DEF LockSaved, LockNotSaved
<1>2. /\ Ends(1) \/ FollowedByRound(1, state.lock.revision)
      /\ UNCHANGED <<now, config, state, moved>> /\ disk' \in {disk, state}
  BY <1>1 DEF LockSaved, LockNotSaved, Rejects
<1>3. CASE Ends(1)
  BY <1>1, <1>2, <1>3, EndKeeps
<1>4. CASE FollowedByRound(1, state.lock.revision)
  BY <1>1, <1>2, <1>4, FollowedKeeps
<1> QED
  BY <1>2, <1>3, <1>4

-----------------------------------------------------------------------------
(* Configurations, callers and the rest.                                    *)

LEMMA ConfigKeeps ==
  ASSUME IInv, NEW i,
         \/ \E cfg \in Configs : StartConfig(i, cfg)
         \/ InvalidConfig(i) \/ ConfigSaved(i) \/ ConfigNotSaved(i)
  PROVE  IInv' /\ LockUpdate
<1>1. /\ i = 1 /\ Len(chain) > 0 /\ chain[1].stage # "adopting"
      /\ chain[1].kind = "config"
  <2>1. Queued(i, {"config"}) \/ At(i, "saving", {"config"})
    BY Zenon DEF StartConfig, InvalidConfig, ConfigSaved, ConfigNotSaved
  <2>2. CASE Queued(i, {"config"})
    BY <2>2, FirstStarts
  <2>3. CASE At(i, "saving", {"config"})
    BY <2>3, FirstOnly
  <2> QED
    BY <2>1, <2>2, <2>3
<1>2. UNCHANGED <<now, state, disk, moved>>
  BY DEF StartConfig, InvalidConfig, ConfigSaved, ConfigNotSaved
<1>3. CASE \E cfg \in Configs : StartConfig(i, cfg)
  <2>1. config' \in Configs /\ Goes(1, "saving")
    BY <1>1, <1>3 DEF StartConfig
  <2> QED
    BY <1>1, <1>2, <2>1, GoesKeeps DEF Stages
<1>4. CASE InvalidConfig(i) \/ ConfigNotSaved(i)
  <2>1. Ends(1) /\ UNCHANGED config
    BY <1>1, <1>4 DEF InvalidConfig, ConfigNotSaved, Rejects
  <2> QED
    BY <1>1, <1>2, <2>1, EndKeeps
<1>5. CASE ConfigSaved(i)
  <2>1. FollowedByRound(1, 0) /\ UNCHANGED config
    BY <1>1, <1>5 DEF ConfigSaved
  <2> QED
    BY <1>1, <1>2, <2>1, FollowedKeeps
<1> QED
  BY <1>3, <1>4, <1>5

LEMMA AskKeeps ==
  ASSUME IInv, NEW kind \in Kinds, NEW group \in Groups \cup {NoGroup},
         NEW seen \in 0 .. MaxRevision - 1, Asks(kind, group, seen)
  PROVE  IInv' /\ LockUpdate
<1> DEFINE c == Wish(kind, group, seen)
           rev == state.lock.revision
<1>1. seen \in Revisions /\ seen \in Nat /\ seen < MaxRevision
  BY ControlAssumption DEF Revisions
<1>2. /\ c \in Call /\ c.stage = "queued" /\ c.kind = kind /\ c.seen = seen /\ c.told = 0
  BY <1>1, WishedCall
<1>3. chain' = Append(chain, c) /\ Len(chain) < MaxCalls
      /\ UNCHANGED <<now, config, state, disk, moved>>
  BY DEF Asks, Wish
<1> HIDE DEF c
<1>4. CallOk(c, rev)
  BY <1>1, <1>2, Given DEF CallOk
<1>5. ChainOk(chain, rev)
  BY DEF IInv
<1>6. /\ ChainOk(chain', rev) /\ Len(chain') = Len(chain) + 1
      /\ \A i \in 1 .. Len(chain) : chain'[i] = chain[i]
      /\ chain'[Len(chain) + 1] = c
  BY <1>2, <1>3, <1>4, <1>5, Appended
<1>7. IF Len(chain) > 0 THEN chain'[1] = chain[1] ELSE chain'[1].stage = "queued"
  BY <1>2, <1>6, Given
<1>8. Len(chain) \in Nat /\ Len(chain') > 0
  BY <1>6, Given
<1>9. FirstOk' /\ MovedOk' /\ LockUpdate
  BY <1>3, <1>7, <1>8 DEF IInv, FirstOk, MovedOk, Obeys, Dwelt, LockUpdate
<1> QED
  BY <1>3, <1>6, <1>9 DEF IInv

LEMMA RestartKeeps ==
  ASSUME IInv, Restart
  PROVE  IInv' /\ LockUpdate
<1>1. /\ config' \in Configs /\ state' = disk /\ chain' = <<>> /\ UNCHANGED <<now, disk>>
      /\ moved' \in {Never, disk.lastSwitch} /\ moved' \in Times \cup {Never}
  BY DEF Restart, IInv
<1>2. Len(chain') = 0 /\ ChainOk(chain', disk.lock.revision)
  BY <1>1, Given DEF ChainOk
<1>3. disk'.lock.revision <= state'.lock.revision
  BY <1>1, Given
<1>4. FirstOk' /\ MovedOk' /\ LockUpdate
  BY <1>1, <1>2 DEF FirstOk, MovedOk, LockUpdate
<1> QED
  BY <1>1, <1>2, <1>3, <1>4 DEF IInv

LEMMA StepKeeps ==
  ASSUME IInv, NEW i \in 1 .. MaxCalls, Step(i)
  PROVE  IInv' /\ LockUpdate
<1>1. CASE StartRound(i)
  BY <1>1, StartRoundKeeps
<1>2. CASE \E s \in Situations, traffic \in Traffic : DecideRound(i, s, traffic)
  BY <1>2, DecideRoundKeeps
<1>3. CASE KeyReady(i)
  BY <1>3, KeyReadyKeeps
<1>4. CASE KeyFails(i)
  BY <1>4, KeyFailsKeeps
<1>5. CASE Adopted(i)
  BY <1>5, AdoptedKeeps
<1>6. CASE AdoptFails(i)
  BY <1>6, AdoptFailsKeeps
<1>7. CASE RoundSaved(i) \/ RoundNotSaved(i)
  BY <1>7, RoundSavedKeeps
<1>8. CASE StartLock(i)
  BY <1>8, StartLockKeeps
<1>9. CASE \E s \in Situations : JudgeLock(i, s)
  BY <1>9, JudgeLockKeeps
<1>10. CASE LockSaved(i) \/ LockNotSaved(i)
  BY <1>10, LockSavedKeeps
<1>11. CASE (\E cfg \in Configs : StartConfig(i, cfg))
             \/ InvalidConfig(i) \/ ConfigSaved(i) \/ ConfigNotSaved(i)
  BY <1>11, ConfigKeeps
<1> QED
  BY <1>1, <1>2, <1>3, <1>4, <1>5, <1>6, <1>7, <1>8, <1>9, <1>10, <1>11 DEF Step

-----------------------------------------------------------------------------

LEMMA InvInit == Init => IInv
<1> SUFFICES ASSUME Init PROVE IInv
  OBVIOUS
<1>1. 0 \in Times /\ 0 \in Revisions /\ 0 \in Nat
  BY ControlAssumption DEF Times, Revisions
<1>2. state \in State /\ disk = state /\ state.lock.revision = 0
  BY <1>1 DEF Init, State, Lock
<1>3. ChainOk(chain, state.lock.revision) /\ Len(chain) = 0
  BY ControlAssumption DEF Init, ChainOk
<1> QED
  BY <1>1, <1>2, <1>3 DEF Init, IInv, FirstOk, MovedOk

LEMMA InvNext ==
  ASSUME IInv, Next
  PROVE  IInv' /\ LockUpdate
<1>1. 0 \in 0 .. MaxRevision - 1
  BY ControlAssumption
<1>2. CASE AskRound \/ PostConfig
  <2>1. PICK kind \in Kinds : Asks(kind, NoGroup, 0)
    BY <1>2 DEF AskRound, PostConfig, Kinds
  <2> QED
    BY <1>1, <2>1, AskKeeps
<1>3. CASE \E g \in Groups \cup {NoGroup}, seen \in 0 .. MaxRevision - 1 : PutLock(g, seen)
  <2>1. PICK g \in Groups \cup {NoGroup}, seen \in 0 .. MaxRevision - 1 : Asks("lock", g, seen)
    BY <1>3 DEF PutLock
  <2>2. "lock" \in Kinds
    BY DEF Kinds
  <2> QED
    BY <2>1, <2>2, AskKeeps
<1>4. CASE \E i \in 1 .. MaxCalls : Step(i)
  BY <1>4, StepKeeps
<1>5. CASE SavedElsewhere
  <2>1. UNCHANGED <<config, state, chain, moved>> /\ now' \in Times /\ disk' \in {disk, state}
    BY <1>5 DEF SavedElsewhere, IInv
  <2> QED
    BY <2>1, Stays
<1>6. CASE Restart
  BY <1>6, RestartKeeps
<1>7. CASE Tick
  <2>1. UNCHANGED <<config, state, chain, moved>> /\ disk' \in {disk, state}
    BY <1>7 DEF Tick
  <2>2. now' \in Times
    BY <1>7, ControlAssumption DEF Tick, IInv, Times
  <2> QED
    BY <2>1, <2>2, Stays
<1> QED
  BY <1>2, <1>3, <1>4, <1>5, <1>6, <1>7 DEF Next

LEMMA InvStutters ==
  ASSUME IInv, UNCHANGED vars
  PROVE  IInv'
BY DEF vars, IInv, ChainOk, FirstOk, Obeys, Dwelt, MovedOk

(* The inductive invariant holds whatever pages, the loop, the disk and     *)
(* crashes do, and a lock is only ever set over the one its page had seen.  *)
THEOREM Invariant == Spec => []IInv /\ [][IInv /\ IInv' /\ (Next => LockUpdate)]_vars
<1>1. Init => IInv
  BY InvInit
<1>2. IInv /\ [Next]_vars => IInv'
  BY InvNext, InvStutters
<1>3. IInv /\ IInv' /\ [Next]_vars => [IInv /\ IInv' /\ (Next => LockUpdate)]_vars
  BY InvNext
<1> QED
  BY <1>1, <1>2, <1>3, PTL DEF Spec

(* Every call in the chain has its type, and only the first one has         *)
(* started.                                                                 *)
THEOREM TypesHold == Spec => []TypeOK
<1>1. IInv => TypeOK
  <2> SUFFICES ASSUME IInv PROVE TypeOK
    OBVIOUS
  <2>1. /\ chain \in Seq(Call) /\ Len(chain) <= MaxCalls /\ DOMAIN chain = 1 .. Len(chain)
        /\ \A i \in 1 .. Len(chain) : i > 1 => chain[i].stage = "queued"
    BY DEF IInv, ChainOk
  <2> QED
    BY <2>1 DEF IInv, TypeOK
<1> QED
  BY <1>1, Invariant, PTL

(* Of a call that is keying: it is the first one.                           *)
LEMMA KeyingIsFirst ==
  ASSUME IInv, NEW i \in DOMAIN chain, chain[i].stage = "keying"
  PROVE  i = 1 /\ Obeys(chain[1]) /\ Dwelt(chain[1])
<1>1. chain \in Seq(Call) /\ i \in 1 .. Len(chain) /\ Len(chain) \in Nat
  BY DEF IInv, ChainOk
<1>2. i = 1 /\ Len(chain) > 0
  BY <1>1, Given
<1> QED
  BY <1>2 DEF IInv, FirstOk

(* daemon.ts: no round moves the current group away from a usable locked    *)
(* one, although locks are set while rounds wait for data and keys.         *)
THEOREM LockIsObeyed == Spec => LockObeyed
<1>1. IInv => \A i \in DOMAIN chain :
        Adopting(i) => state.lock.group
                         \in {NoGroup, chain[i].plan.target} \cup chain[i].plan.unusable
  BY KeyingIsFirst DEF Adopting, Obeys
<1> QED
  BY <1>1, Invariant, PTL DEF LockObeyed

(* decision.ts: a switch by score comes no sooner than MinDwell after the   *)
(* last switch, unless that one was torn by a failed write or a crash.      *)
THEOREM DwellIsKept == Spec => DwellKept
<1>1. IInv => \A i \in DOMAIN chain :
        Adopting(i) /\ chain[i].plan.weighed /\ moved # Never
        => chain[i].at - moved >= MinDwell
  BY KeyingIsFirst DEF Adopting, Dwelt
<1> QED
  BY <1>1, Invariant, PTL DEF DwellKept

(* updateManualLock of daemon.ts: no lock is overwritten that the page had  *)
(* not seen, although comparison and write are awaits apart.                *)
THEOREM NoLockIsLost == Spec => NoLostLockUpdate
<1>1. IInv /\ IInv' /\ LockUpdate =>
        \A i \in DOMAIN chain \cap DOMAIN chain' :
          chain[i].kind = "lock" /\ chain[i].stage # "saving" /\ chain'[i].stage = "saving"
          => chain[i].seen = state.lock.revision
  <2> SUFFICES ASSUME IInv, IInv', LockUpdate, NEW i \in DOMAIN chain \cap DOMAIN chain',
                      chain[i].kind = "lock", chain[i].stage # "saving",
                      chain'[i].stage = "saving"
               PROVE  chain[i].seen = state.lock.revision
    OBVIOUS
  <2>1. /\ DOMAIN chain = 1 .. Len(chain) /\ Len(chain) \in Nat
        /\ DOMAIN chain' = 1 .. Len(chain') /\ Len(chain') \in Nat
        /\ \A k \in 1 .. Len(chain') : k > 1 => chain'[k].stage = "queued"
    BY DEF IInv, ChainOk
  <2>2. i = 1 /\ Len(chain) > 0 /\ Len(chain') > 0
    BY <2>1
  <2> QED
    BY <2>2 DEF LockUpdate
<1> QED
  BY <1>1, Invariant, PTL DEF NoLostLockUpdate, Spec

(* A lock a page was told is set is on disk and stays there.                *)
THEOREM AnsweredLocksAreSaved == Spec => AnsweredLockIsSaved
<1>1. IInv /\ Next => /\ disk'.lock.revision >= disk.lock.revision
                     /\ \A i \in DOMAIN chain :
                          RoundSaved(i) => disk'.lock.revision >= chain[i].told
  <2> SUFFICES ASSUME IInv, Next
               PROVE  /\ disk'.lock.revision >= disk.lock.revision
                      /\ \A i \in DOMAIN chain :
                           RoundSaved(i) => disk'.lock.revision >= chain[i].told
    OBVIOUS
  <2>1. disk' \in {disk, state}
    BY DEF Next, AskRound, PostConfig, PutLock, Asks, Step, StartRound, DecideRound, KeyReady,
           KeyFails, Adopted, AdoptFails, RoundSaved, RoundNotSaved, StartLock, JudgeLock,
           LockSaved, LockNotSaved, StartConfig, InvalidConfig, ConfigSaved, ConfigNotSaved,
           SavedElsewhere, Restart, Tick
  <2>2. disk'.lock.revision >= disk.lock.revision
    BY <2>1, Given DEF IInv
  <2>3. ASSUME NEW i \in DOMAIN chain, RoundSaved(i)
        PROVE  disk'.lock.revision >= chain[i].told
    <3>1. disk' = state /\ i = 1 /\ Len(chain) > 0 /\ chain[1] \in Call
      BY <2>3, FirstOnly DEF RoundSaved
    <3>2. chain[1].told <= state.lock.revision /\ chain[1].told \in Nat
      BY <3>1, Given, CallFields DEF CallOk
    <3> QED
      BY <3>1, <3>2, Given
  <2> QED
    BY <2>2, <2>3
<1> QED
  BY <1>1, Invariant, PTL DEF AnsweredLockIsSaved, Spec

-----------------------------------------------------------------------------
(* The manual lock as a register.                                           *)

(* Setting a lock takes the next revision: the one the page had seen is     *)
(* still that of the lock, and the wish still differs from it.              *)
LEMMA SetLockMaps ==
  ASSUME IInv, Len(chain) > 0, chain[1].seen = state.lock.revision,
         chain[1].group # state.lock.group, SetLock(1), UNCHANGED disk
  PROVE  \E g \in Groups \cup {NoGroup} : Register!Change(g)
<1> DEFINE g == chain[1].group
           lock == [group |-> g, revision |-> chain[1].seen + 1]
<1>1. g \in Groups \cup {NoGroup}
  BY Given, CallFields DEF CallOk
<1>2. state'.lock = lock
  BY DEF SetLock, IInv, State
<1>3. lock = [group |-> g, revision |-> state.lock.revision + 1] /\ g # state.lock.group
  OBVIOUS
<1> HIDE DEF g, lock
<1>4. Register!Change(g)
  BY <1>2, <1>3 DEF Register!Change
<1> QED
  BY <1>1, <1>4

(* No other step of a call touches the lock in memory, and what is written  *)
(* is the lock in memory.                                                   *)
Untouched == state'.lock = state.lock /\ disk' \in {disk, state}

LEMMA UntouchedMaps ==
  ASSUME Untouched
  PROVE  [Register!Next]_(Register!vars)
BY DEF Untouched, Register!Next, Register!Write, Register!vars

LEMMA StepMaps ==
  ASSUME IInv, NEW i \in 1 .. MaxCalls, Step(i)
  PROVE  [Register!Next]_(Register!vars)
<1>1. CASE StartLock(i)
  <2>1. i = 1 /\ Len(chain) > 0
    <3>1. Queued(i, {"lock"})
      BY <1>1, Zenon DEF StartLock
    <3> QED
      BY <3>1, FirstStarts
  <2>2. /\ UNCHANGED disk
        /\ \/ UNCHANGED state
           \/ /\ chain[1].seen = state.lock.revision /\ chain[1].group # state.lock.group
              /\ SetLock(1)
    BY <1>1, <2>1 DEF StartLock
  <2>3. CASE UNCHANGED state
    BY <2>2, <2>3, UntouchedMaps DEF Untouched
  <2>4. CASE ~UNCHANGED state
    BY <2>1, <2>2, <2>4, SetLockMaps DEF Register!Next
  <2> QED
    BY <2>3, <2>4
<1>2. CASE \E s \in Situations : JudgeLock(i, s)
  <2>1. /\ i = 1 /\ Len(chain) > 0 /\ chain[1].stage = "fetching" /\ chain[1].kind = "lock"
    BY <1>2, FirstOnly DEF JudgeLock
  <2>2. chain[1].seen = state.lock.revision /\ chain[1].group # state.lock.group
    BY <2>1 DEF IInv, FirstOk
  <2>3. UNCHANGED disk /\ (UNCHANGED state \/ SetLock(1))
    BY <1>2, <2>1 DEF JudgeLock
  <2>4. CASE UNCHANGED state
    BY <2>3, <2>4, UntouchedMaps DEF Untouched
  <2>5. CASE SetLock(1)
    BY <2>1, <2>2, <2>3, <2>5, SetLockMaps DEF Register!Next
  <2> QED
    BY <2>3, <2>4, <2>5
<1>3. CASE KeyReady(i) \/ Adopted(i)
  <2>1. Untouched
    BY <1>3 DEF KeyReady, Adopted, IInv, State, Untouched
  <2> QED
    BY <2>1, UntouchedMaps
<1>4. CASE \/ StartRound(i)
           \/ \E s \in Situations, traffic \in Traffic : DecideRound(i, s, traffic)
           \/ KeyFails(i) \/ AdoptFails(i) \/ RoundSaved(i) \/ RoundNotSaved(i)
           \/ LockSaved(i) \/ LockNotSaved(i)
           \/ (\E cfg \in Configs : StartConfig(i, cfg)) \/ InvalidConfig(i)
           \/ ConfigSaved(i) \/ ConfigNotSaved(i)
  <2>1. Untouched
    BY <1>4 DEF StartRound, DecideRound, KeyFails, AdoptFails, RoundSaved, RoundNotSaved,
                LockSaved, LockNotSaved, StartConfig, InvalidConfig, ConfigSaved,
                ConfigNotSaved, Untouched
  <2> QED
    BY <2>1, UntouchedMaps
<1> QED
  BY <1>1, <1>2, <1>3, <1>4, Zenon DEF Step

LEMMA NextMaps ==
  ASSUME IInv, [Next]_vars
  PROVE  [Register!Next]_(Register!vars)
<1>1. CASE \E i \in 1 .. MaxCalls : Step(i)
  BY <1>1, StepMaps
<1>2. CASE Restart
  BY <1>2 DEF Restart, Register!Next, Register!Crash
<1>3. CASE \/ AskRound \/ PostConfig \/ SavedElsewhere \/ Tick \/ UNCHANGED vars
           \/ \E g \in Groups \cup {NoGroup}, seen \in 0 .. MaxRevision - 1 : PutLock(g, seen)
  <2>1. Untouched
    BY <1>3 DEF AskRound, PostConfig, PutLock, Asks, SavedElsewhere, Tick, vars, Untouched
  <2> QED
    BY <2>1, UntouchedMaps
<1> QED
  BY <1>1, <1>2, <1>3, Zenon DEF Next

(* daemon.ts, server.ts: whatever pages, rounds, failing writes and crashes *)
(* do, the manual lock is a register that changes one revision at a time,   *)
(* and a crash brings back exactly what was written.                        *)
THEOREM ImplementsAbstractLock == Spec => RefinesAbstractLock
<1>1. Init => Register!Init
  BY DEF Init, Register!Init
<1>2. IInv /\ [Next]_vars => [Register!Next]_(Register!vars)
  BY NextMaps
<1> QED
  BY <1>1, <1>2, Invariant, PTL DEF Spec, RefinesAbstractLock, Register!Spec

(* A revision names one lock: memory and disk never hold two locks under    *)
(* one revision, and what is on disk is only replaced under a later one.    *)
(* So a page that was told of a revision finds behind it the lock it was    *)
(* told of, also when the router has been restarted since.                  *)
RevisionNamesLock == disk.lock.revision = state.lock.revision => disk.lock = state.lock

WrittenLockStays ==
  [][disk'.lock # disk.lock => disk'.lock.revision > disk.lock.revision]_vars

THEOREM RevisionsNameLocks == Spec => []RevisionNamesLock /\ WrittenLockStays
<1>1. Init => RevisionNamesLock
  BY DEF Init, RevisionNamesLock
<1>2. IInv /\ [Next]_vars /\ RevisionNamesLock => RevisionNamesLock'
  <2> SUFFICES ASSUME IInv, [Next]_vars, RevisionNamesLock PROVE RevisionNamesLock'
    OBVIOUS
  <2>1. [Register!Next]_(Register!vars)
    BY NextMaps
  <2>2. CASE \E g \in Groups \cup {NoGroup} : Register!Change(g)
    <3>1. /\ state'.lock.revision = state.lock.revision + 1 /\ disk'.lock = disk.lock
      BY <2>2 DEF Register!Change
    <3>2. disk'.lock.revision # state'.lock.revision
      BY <3>1, Given DEF IInv
    <3> QED
      BY <3>2 DEF RevisionNamesLock
  <2>3. CASE Register!Write \/ Register!Crash
    BY <2>3 DEF Register!Write, Register!Crash, RevisionNamesLock
  <2>4. CASE UNCHANGED <<state.lock, disk.lock>>
    BY <2>4 DEF RevisionNamesLock
  <2> QED
    BY <2>1, <2>2, <2>3, <2>4 DEF Register!Next, Register!vars
<1>3. IInv /\ [Next]_vars /\ RevisionNamesLock =>
        (disk'.lock # disk.lock => disk'.lock.revision > disk.lock.revision)
  <2> SUFFICES ASSUME IInv, [Next]_vars, RevisionNamesLock, disk'.lock # disk.lock
               PROVE  disk'.lock.revision > disk.lock.revision
    OBVIOUS
  <2>1. disk'.lock = state.lock
    BY NextMaps DEF Register!Next, Register!Change, Register!Write, Register!Crash,
                    Register!vars
  <2>2. disk.lock.revision # state.lock.revision /\ disk.lock.revision <= state.lock.revision
    BY <2>1 DEF RevisionNamesLock, IInv
  <2> QED
    BY <2>1, <2>2, Given
<1> QED
  BY <1>1, <1>2, <1>3, Invariant, PTL DEF Spec, WrittenLockStays

-----------------------------------------------------------------------------
(* What holds of every evaluation holds of those the router makes.          *)

(* No configuration is one in which a situation is evaluated unsoundly.     *)
LEMMA NoneUnsound == UnsoundIn = {}
<1> SUFFICES ASSUME NEW cfg \in Configs, NEW s \in Imagined
             PROVE  SoundEvaluation(s, cfg.mode, cfg.blacklist,
                                    CircuitIn(s, {"open", "half-open"}))
  BY DEF UnsoundIn
<1>1. IsSituation(s) /\ cfg.mode \in Modes
  BY ControlAssumption
<1> QED
  BY <1>1, EvaluationsAreSound

(* scoring.ts: in every configuration the router gets into, every           *)
(* evaluation keeps its promise.                                            *)
THEOREM EvaluationsStaySound == Spec => []EvaluationSound
<1>1. IInv => EvaluationSound
  BY NoneUnsound DEF EvaluationSound
<1> QED
  BY <1>1, Invariant, PTL

(* The situation the manual lock judges: the group g and no other.          *)
Alone(s, g) == [s EXCEPT !.items = [h \in {g} |-> s.items[h]]]

LEMMA AloneIsSituation ==
  ASSUME NEW s, IsSituation(s), NEW g \in DOMAIN s.items
  PROVE  /\ IsSituation(Alone(s, g)) /\ DOMAIN Alone(s, g).items = {g}
         /\ Alone(s, g).items[g] = s.items[g]
         /\ Alone(s, g).allowed = s.allowed /\ Alone(s, g).record = s.record
<1> DEFINE t == Alone(s, g)
           only == [h \in {g} |-> s.items[h]]
<1>1. /\ s = [items |-> s.items, allowed |-> s.allowed, circuit |-> s.circuit,
              record |-> s.record]
      /\ DOMAIN s.items \subseteq Groups /\ s.items \in [DOMAIN s.items -> Stat]
      /\ s.allowed \subseteq Groups
      /\ s.circuit \in [Groups -> Circuits] /\ s.record \in [Groups -> Records]
  BY Zenon DEF IsSituation
<1>2. t = [items |-> only, allowed |-> s.allowed, circuit |-> s.circuit,
           record |-> s.record]
  BY <1>1 DEF Alone
<1>3. DOMAIN only = {g} /\ only[g] = s.items[g] /\ only \in [{g} -> Stat]
  BY <1>1
<1> HIDE DEF t, only
<1>4. /\ t.items = only /\ t.allowed = s.allowed /\ t.circuit = s.circuit
      /\ t.record = s.record
  BY <1>2
<1>5. IsSituation(t)
  BY <1>1, <1>2, <1>3, <1>4, Zenon DEF IsSituation
<1> QED
  BY <1>3, <1>4, <1>5 DEF t

LEMMA OfferedIsPre ==
  ASSUME NEW s, NEW mode, NEW blacklist, NEW open,
         NEW g \in Forceable(Evaluate(s, mode, blacklist, open))
  PROVE  g \in Pre(s, blacklist, open)
<1> DEFINE e == Evaluate(s, mode, blacklist, open)
           all == Priced(s, mode, blacklist, open)
<1>1. g \in e.eligible \cup e.standby \cup e.weak
  BY DEF Forceable
<1>2. /\ e.eligible = Eligible(s, mode, all)
      /\ e.standby = all \ Eligible(s, mode, all)
      /\ e.weak = WeakGroups(s, mode, blacklist, open)
  BY Parts
<1> HIDE DEF e, all
<1>3. g \in all \/ g \in WeakGroups(s, mode, blacklist, open)
  BY <1>1, <1>2 DEF Eligible
<1> QED
  BY <1>3 DEF all, Priced, WeakGroups

(* In the balanced mode a usable group that competes with nobody is worthy. *)
LEMMA AloneIsWorthy ==
  ASSUME NEW t, IsSituation(t), NEW g, DOMAIN t.items = {g}, g \in t.allowed,
         NEW blacklist, NEW open, g \notin blacklist, g \notin open,
         t.items[g].rate <= MaxRate, t.items[g].latency # Unmeasured,
         t.record[g] # "failing", NEW mode, mode = "balanced"
  PROVE  g \in Evaluate(t, mode, blacklist, open).worthy
<1> DEFINE e == Evaluate(t, mode, blacklist, open)
           rivals == Priced(t, mode, blacklist, open)
<1>1. rivals = {g}
  BY PricedIsUsable
<1>2. e.worthy = Worthy(t, rivals) \cap Eligible(t, mode, rivals)
  BY Parts
<1> HIDE DEF e, rivals
<1>3. Minimum(t, rivals) = t.items[g].rate
  <2>1. {t.items[h].rate : h \in rivals} = {t.items[g].rate}
    BY <1>1
  <2>2. t.items[g].rate \in Nat
    BY SituationFields
  <2> QED
    BY <2>1, <2>2, LeastIsLeast DEF Minimum
<1> QED
  BY <1>1, <1>2, <1>3 DEF Worthy, Eligible, e

(* Whatever the console offers has no hard reason against it and no circuit *)
(* that excludes it, so that alone it is usable in the balanced mode, where *)
(* it competes with nobody and scores finitely.                             *)
LEMMA ForceableIsLockable ==
  ASSUME NEW s, IsSituation(s), NEW cfg \in Configs,
         NEW g \in Forceable(RoundEvaluation(s, cfg))
  PROVE  Lockable(s, cfg, g)
<1> DEFINE open == CircuitIn(s, {"open"})
           shut == CircuitIn(s, {"open", "half-open"})
           t == Alone(s, g)
<1>1. g \in Pre(s, cfg.blacklist, shut)
  BY OfferedIsPre DEF RoundEvaluation
<1>2. open \subseteq shut
  BY DEF CircuitIn
<1>3. /\ g \in DOMAIN s.items /\ g \in s.allowed /\ g \notin cfg.blacklist /\ g \notin open
      /\ s.items[g].latency # Unmeasured /\ s.record[g] # "failing"
      /\ ~(s.items[g].rate > MaxRate)
  <2> HIDE DEF open, shut
  <2> QED
    BY <1>1, <1>2 DEF Pre, Barred, Excused
<1>4. s.items[g].rate <= MaxRate
  BY <1>3, SituationFields, ScoringAssumption
<1>5. /\ IsSituation(t) /\ DOMAIN t.items = {g} /\ t.items[g] = s.items[g]
      /\ t.allowed = s.allowed /\ t.record = s.record
  BY <1>3, AloneIsSituation
<1> HIDE DEF open, shut, t
<1>6. g \in Evaluate(t, "balanced", cfg.blacklist, open).worthy
  BY <1>3, <1>4, <1>5, AloneIsWorthy
<1> QED
  BY <1>6 DEF Lockable, Alone, t, open

(* server.ts:129: what the console offers for locking can be locked as long *)
(* as nothing changes, in every configuration the router gets into.         *)
THEOREM ConsoleOffersHold == Spec => []ConsoleOffersOnlyLockable
<1>1. MisleadingIn = {}
  <2> SUFFICES ASSUME NEW cfg \in Configs, NEW s \in Imagined,
                      NEW g \in Forceable(RoundEvaluation(s, cfg))
               PROVE  Lockable(s, cfg, g)
    BY DEF MisleadingIn
  <2>1. IsSituation(s)
    BY ControlAssumption
  <2> QED
    BY <2>1, ForceableIsLockable
<1>2. IInv => ConsoleOffersOnlyLockable
  BY <1>1 DEF ConsoleOffersOnlyLockable
<1> QED
  BY <1>2, Invariant, PTL

-----------------------------------------------------------------------------
(* The safety half of OperationsReturn: the chain is served in its order,   *)
(* and every call in it for a bounded number of steps.                      *)

(* How many steps the first call has left.                                  *)
StepsLeft(stage) ==
  IF stage = "queued" THEN 5
  ELSE IF stage = "fetching" THEN 4
  ELSE IF stage = "keying" THEN 3
  ELSE IF stage = "adopting" THEN 2
  ELSE 1

(* A new call queues up behind all others.                                  *)
Joins ==
  /\ Len(chain') = Len(chain) + 1 /\ chain'[Len(chain) + 1].stage = "queued"
  /\ \A i \in 1 .. Len(chain) : chain'[i] = chain[i]

(* The first call, and no other, gets closer to its end.                    *)
FirstGoesOn ==
  /\ Len(chain) > 0 /\ Len(chain') = Len(chain)
  /\ StepsLeft(chain'[1].stage) < StepsLeft(chain[1].stage)
  /\ chain'[1].kind = chain[1].kind
  /\ \A i \in 2 .. Len(chain) : chain'[i] = chain[i]

(* The first call is over, the others move up; the round of a lock or a     *)
(* configuration queues up behind them.                                     *)
FirstLeaves ==
  /\ Len(chain) > 0
  /\ \/ Len(chain') = Len(chain) - 1
     \/ Len(chain') = Len(chain) /\ chain'[Len(chain)].stage = "queued"
  /\ \A i \in 2 .. Len(chain) : chain'[i - 1] = chain[i]

(* Whatever happens to the chain (runExclusive): a call joins at its end,   *)
(* the first gets closer to its end, the first leaves, or the process dies  *)
(* and all are gone. So nobody overtakes, and no call is served for ever.   *)
CallsRunOut == [][Joins \/ FirstGoesOn \/ FirstLeaves \/ chain' = <<>>]_chain

LEMMA BecomesGoesOn ==
  ASSUME IInv, Len(chain) > 0, NEW c \in Call, c.kind = chain[1].kind,
         StepsLeft(c.stage) < StepsLeft(chain[1].stage), chain' = WithFirst(chain, c)
  PROVE  FirstGoesOn
<1>1. chain \in Seq(Call) /\ Len(chain) \in Nat
  BY DEF IInv, ChainOk
<1>2. /\ Len(chain') = Len(chain) /\ chain'[1] = c
      /\ \A i \in 2 .. Len(chain) : chain'[i] = chain[i]
  BY <1>1 DEF WithFirst
<1> QED
  BY <1>2 DEF FirstGoesOn

LEMMA GoesGoesOn ==
  ASSUME IInv, Len(chain) > 0, NEW stage \in Stages, Goes(1, stage),
         StepsLeft(stage) < StepsLeft(chain[1].stage)
  PROVE  FirstGoesOn
<1> DEFINE c == [chain[1] EXCEPT !.stage = stage]
<1>1. chain[1] \in Call
  BY Given DEF CallOk
<1>2. c \in Call /\ c.stage = stage /\ c.kind = chain[1].kind
  BY <1>1, Staged
<1>3. chain' = WithFirst(chain, c)
  BY DEF Goes, WithFirst
<1> HIDE DEF c
<1> QED
  BY <1>2, <1>3, BecomesGoesOn

LEMMA EndsLeaves ==
  ASSUME IInv, Len(chain) > 0, Ends(1)
  PROVE  FirstLeaves
<1>1. /\ Len(chain') = Len(chain) - 1 /\ Len(chain) \in Nat
      /\ \A i \in 1 .. Len(chain) - 1 : chain'[i] = chain[i + 1]
  BY Removed, Given DEF IInv, Ends
<1>2. \A i \in 2 .. Len(chain) : i - 1 \in 1 .. Len(chain) - 1 /\ (i - 1) + 1 = i
  BY <1>1
<1> QED
  BY <1>1, <1>2 DEF FirstLeaves

LEMMA FollowedLeaves ==
  ASSUME IInv, Len(chain) > 0, NEW told \in Revisions, FollowedByRound(1, told)
  PROVE  FirstLeaves
<1> DEFINE rest == RemoveAt(chain, 1)
           round == [NewCall("round") EXCEPT !.told = told]
<1>1. /\ Len(rest) = Len(chain) - 1 /\ Len(chain) \in Nat /\ rest \in Seq(Call)
      /\ \A i \in 1 .. Len(chain) - 1 : rest[i] = chain[i + 1]
  BY Removed, Given DEF IInv, ChainOk
<1>2. round \in Call /\ round.stage = "queued"
  BY FollowUp
<1>3. chain' = Append(rest, round)
  BY DEF FollowedByRound
<1> HIDE DEF rest, round
<1>4. /\ Len(chain') = Len(chain) /\ chain'[Len(chain)] = round
      /\ \A i \in 1 .. Len(chain) - 1 : chain'[i] = chain[i + 1]
  BY <1>1, <1>2, <1>3
<1>5. \A i \in 2 .. Len(chain) : i - 1 \in 1 .. Len(chain) - 1 /\ (i - 1) + 1 = i
  BY <1>1
<1> QED
  BY <1>2, <1>4, <1>5 DEF FirstLeaves

LEMMA RoundStepMoves ==
  ASSUME IInv, NEW i,
         \/ StartRound(i)
         \/ \E s \in Situations, traffic \in Traffic : DecideRound(i, s, traffic)
         \/ KeyReady(i) \/ KeyFails(i) \/ Adopted(i) \/ AdoptFails(i)
         \/ RoundSaved(i) \/ RoundNotSaved(i)
  PROVE  FirstGoesOn \/ FirstLeaves
<1>1. CASE StartRound(i)
  <2> DEFINE p == chain[1]
             q == [p EXCEPT !.stage = "fetching", !.at = now]
  <2>1. i = 1 /\ Len(chain) > 0 /\ p.stage = "queued" /\ p \in Call
    BY <1>1, FirstStarts DEF StartRound
  <2>2. chain' = WithFirst(chain, q)
    BY <1>1, <2>1 DEF StartRound, WithFirst
  <2> HIDE DEF p
  <2>3. now \in Times /\ "fetching" \in Stages
    BY DEF IInv, Stages
  <2>4. q \in Call
    BY <2>1, <2>3, Zenon DEF Call
  <2>5. q.stage = "fetching" /\ q.kind = p.kind
    BY <2>1 DEF Call
  <2> HIDE DEF q
  <2> QED
    BY <2>1, <2>2, <2>4, <2>5, BecomesGoesOn DEF StepsLeft, p
<1>2. ASSUME NEW s \in Situations, NEW traffic \in Traffic, DecideRound(i, s, traffic)
      PROVE  FirstGoesOn \/ FirstLeaves
  <2> DEFINE d == RoundDecision(s, traffic, chain[1].at)
             plan == [target |-> d.target, weighed |-> d.weighed,
                      unusable |-> Groups \ (LockableGroups[s][config] \cup {d.target})]
             c == WithPlan(chain[1], "keying", plan)
  <2>1. i = 1 /\ Len(chain) > 0 /\ chain[1].stage = "fetching" /\ chain[1] \in Call
    BY <1>2, FirstOnly DEF DecideRound
  <2>2. \/ Ends(1) \/ Goes(1, "saving")
        \/ d.switch /\ chain' = WithFirst(chain, c)
    BY <1>2, <2>1 DEF DecideRound, WithFirst, WithPlan
  <2>3. CASE Ends(1)
    BY <2>1, <2>3, EndsLeaves
  <2>4. CASE Goes(1, "saving")
    BY <2>1, <2>4, GoesGoesOn DEF Stages, StepsLeft
  <2>5. CASE d.switch /\ chain' = WithFirst(chain, c)
    <3>1. d.target \in Groups \cup {NoGroup} /\ d.weighed \in BOOLEAN
      <4> HIDE DEF d
      <4>1. d = RoundDecision(s, traffic, chain[1].at) /\ d.switch
        BY <2>5 DEF d
      <4> QED
        BY <4>1, Decided
    <3> HIDE DEF d
    <3>2. plan \in [target : Groups \cup {NoGroup}, weighed : BOOLEAN,
                    unusable : SUBSET Groups]
      BY <3>1
    <3> HIDE DEF plan
    <3>3. c \in Call /\ c.stage = "keying" /\ c.kind = chain[1].kind
      BY <2>1, <3>2, Planned DEF Stages
    <3> HIDE DEF c
    <3> QED
      BY <2>1, <2>5, <3>3, BecomesGoesOn DEF StepsLeft
  <2> QED
    BY <2>2, <2>3, <2>4, <2>5
<1>3. CASE KeyReady(i) \/ KeyFails(i)
  <2> DEFINE stage == IF KeyReady(i) THEN "adopting" ELSE "saving"
             c == WithPlan(chain[1], stage, NoPlan)
  <2>1. i = 1 /\ Len(chain) > 0 /\ chain[1].stage = "keying" /\ chain[1] \in Call
    BY <1>3, FirstOnly DEF KeyReady, KeyFails
  <2>2. chain' = WithFirst(chain, c)
    BY <1>3, <2>1 DEF KeyReady, KeyFails, WithFirst, WithPlan
  <2>3. stage \in {"adopting", "saving"} /\ stage \in Stages
    BY DEF Stages
  <2> HIDE DEF stage
  <2>4. c \in Call /\ c.stage = stage /\ c.kind = chain[1].kind
    BY <2>1, <2>3, NoPlanTyped, Planned
  <2> HIDE DEF c
  <2> QED
    BY <2>1, <2>2, <2>3, <2>4, BecomesGoesOn DEF StepsLeft
<1>4. CASE Adopted(i) \/ AdoptFails(i)
  <2>1. /\ i = 1 /\ Len(chain) > 0 /\ chain[1].stage = "adopting" /\ Goes(1, "saving")
    BY <1>4, FirstOnly DEF Adopted, AdoptFails
  <2> QED
    BY <2>1, GoesGoesOn DEF Stages, StepsLeft
<1>5. CASE RoundSaved(i) \/ RoundNotSaved(i)
  <2>1. i = 1 /\ Len(chain) > 0 /\ Ends(1)
    BY <1>5, FirstOnly DEF RoundSaved, RoundNotSaved, Rejects
  <2> QED
    BY <2>1, EndsLeaves
<1> QED
  BY <1>1, <1>2, <1>3, <1>4, <1>5

LEMMA LockStepMoves ==
  ASSUME IInv, NEW i,
         \/ StartLock(i) \/ (\E s \in Situations : JudgeLock(i, s))
         \/ LockSaved(i) \/ LockNotSaved(i)
  PROVE  FirstGoesOn \/ FirstLeaves
<1>1. state.lock.revision \in Revisions
  BY StateFields DEF IInv
<1>2. CASE StartLock(i)
  <2>1. i = 1 /\ Len(chain) > 0 /\ chain[1].stage = "queued"
    BY <1>2, FirstStarts DEF StartLock
  <2>2. \/ Ends(1) \/ FollowedByRound(1, state.lock.revision)
        \/ Goes(1, "saving") \/ Goes(1, "fetching")
    BY <1>2, <2>1 DEF StartLock, SetLock
  <2>3. CASE Ends(1) \/ FollowedByRound(1, state.lock.revision)
    BY <1>1, <2>1, <2>3, EndsLeaves, FollowedLeaves
  <2>4. CASE Goes(1, "saving") \/ Goes(1, "fetching")
    BY <2>1, <2>4, GoesGoesOn DEF Stages, StepsLeft
  <2> QED
    BY <2>2, <2>3, <2>4
<1>3. CASE \E s \in Situations : JudgeLock(i, s)
  <2>1. /\ i = 1 /\ Len(chain) > 0 /\ chain[1].stage = "fetching"
        /\ Ends(1) \/ Goes(1, "saving")
    BY <1>3, FirstOnly DEF JudgeLock, SetLock
  <2> QED
    BY <2>1, EndsLeaves, GoesGoesOn DEF Stages, StepsLeft
<1>4. CASE LockSaved(i) \/ LockNotSaved(i)
  <2>1. /\ i = 1 /\ Len(chain) > 0
        /\ Ends(1) \/ FollowedByRound(1, state.lock.revision)
    BY <1>4, FirstOnly DEF LockSaved, LockNotSaved, Rejects
  <2> QED
    BY <1>1, <2>1, EndsLeaves, FollowedLeaves
<1> QED
  BY <1>2, <1>3, <1>4

LEMMA ConfigStepMoves ==
  ASSUME IInv, NEW i,
         \/ \E cfg \in Configs : StartConfig(i, cfg)
         \/ InvalidConfig(i) \/ ConfigSaved(i) \/ ConfigNotSaved(i)
  PROVE  FirstGoesOn \/ FirstLeaves
<1>1. 0 \in Revisions
  BY ControlAssumption DEF Revisions
<1>2. CASE \E cfg \in Configs : StartConfig(i, cfg)
  <2>1. i = 1 /\ Len(chain) > 0 /\ chain[1].stage = "queued" /\ Goes(1, "saving")
    BY <1>2, FirstStarts DEF StartConfig
  <2> QED
    BY <2>1, GoesGoesOn DEF Stages, StepsLeft
<1>3. CASE InvalidConfig(i)
  BY <1>3, FirstStarts, EndsLeaves DEF InvalidConfig
<1>4. CASE ConfigSaved(i) \/ ConfigNotSaved(i)
  <2>1. i = 1 /\ Len(chain) > 0 /\ (Ends(1) \/ FollowedByRound(1, 0))
    BY <1>4, FirstOnly DEF ConfigSaved, ConfigNotSaved, Rejects
  <2> QED
    BY <1>1, <2>1, EndsLeaves, FollowedLeaves
<1> QED
  BY <1>2, <1>3, <1>4

LEMMA AskJoins ==
  ASSUME IInv, NEW kind \in Kinds, NEW group \in Groups \cup {NoGroup},
         NEW seen \in Revisions, Asks(kind, group, seen)
  PROVE  Joins
<1> DEFINE c == Wish(kind, group, seen)
<1>1. c \in Call /\ c.stage = "queued"
  BY WishedCall
<1>2. chain' = Append(chain, c)
  BY DEF Asks, Wish
<1> HIDE DEF c
<1>3. chain \in Seq(Call) /\ Len(chain) \in Nat
  BY DEF IInv, ChainOk
<1> QED
  BY <1>1, <1>2, <1>3 DEF Joins

(* daemon.ts:873: rounds, locks and configurations are served one at a      *)
(* time in the order in which they were asked for, each in five steps at    *)
(* most, however any of them ends and whatever fails on the way.            *)
THEOREM CallsEnd == Spec => CallsRunOut
<1>1. IInv /\ [Next]_vars => [Joins \/ FirstGoesOn \/ FirstLeaves \/ chain' = <<>>]_chain
  <2> SUFFICES ASSUME IInv, [Next]_vars, chain' # chain
               PROVE  Joins \/ FirstGoesOn \/ FirstLeaves \/ chain' = <<>>
    OBVIOUS
  <2>1. ASSUME NEW i \in 1 .. MaxCalls, Step(i) PROVE FirstGoesOn \/ FirstLeaves
    BY <2>1, RoundStepMoves, LockStepMoves, ConfigStepMoves, Zenon DEF Step
  <2>2. CASE AskRound \/ PostConfig
    <3>1. NoGroup \in Groups \cup {NoGroup} /\ 0 \in Revisions
      BY ControlAssumption DEF Revisions
    <3> QED
      BY <2>2, <3>1, AskJoins DEF AskRound, PostConfig, Kinds
  <2>3. ASSUME NEW g \in Groups \cup {NoGroup}, NEW seen \in 0 .. MaxRevision - 1,
               PutLock(g, seen)
        PROVE  Joins
    <3>1. seen \in Revisions
      BY ControlAssumption DEF Revisions
    <3> QED
      BY <2>3, <3>1, AskJoins DEF PutLock, Kinds
  <2>4. CASE Restart
    BY <2>4 DEF Restart
  <2>5. CASE SavedElsewhere \/ Tick \/ UNCHANGED vars
    BY <2>5 DEF SavedElsewhere, Tick, vars
  <2> QED
    BY <2>1, <2>2, <2>3, <2>4, <2>5, Zenon DEF Next
<1> QED
  BY <1>1, Invariant, PTL DEF Spec, CallsRunOut
=============================================================================
