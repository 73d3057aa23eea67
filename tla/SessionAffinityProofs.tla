------------------------ MODULE SessionAffinityProofs ------------------------
(***************************************************************************)
(* The safety properties of SessionAffinity for any number of sessions,    *)
(* groups, responses and attempts.  Revisions of attempts under way are    *)
(* distinct and were issued by this process, so a binding with a higher    *)
(* revision is nobody's; that makes the owner of a binding unique, and its *)
(* evidence that of its group.  Both records stay within their limits      *)
(* because every insertion is followed by a prune if it exceeds them.      *)
(* Without revisions and times it is an AbstractBinding.                   *)
(***************************************************************************)
EXTENDS SessionAffinity, FiniteSetTheorems, TLAPS

InUse(i) == attempts[i].phase # "none"

Issued == \A i \in Attempts : InUse(i) => attempts[i].revision <= revision

Distinct ==
  \A i, j \in Attempts :
    i # j /\ InUse(i) /\ InUse(j) => attempts[i].revision # attempts[j].revision

OwnsItsBinding ==
  \A i \in Attempts : Holds(i) => sessions[attempts[i].session].group = attempts[i].group

(* Evidence of a binding was measured on its group.                         *)
Evident(b) == b.cache # NoEvidence => b.cache[2] = b.group

AllEvident ==
  /\ \A s \in Sessions : Evident(sessions[s]) /\ Evident(saved[1][s])
  /\ \A i \in Attempts : Evident(attempts[i].previous)

Within(entries, limit) ==
  IsFiniteSet(Present(entries)) /\ Cardinality(Present(entries)) <= limit

AllWithin ==
  /\ Within(sessions, MaxEntries) /\ Within(aliases, 2 * MaxEntries)
  /\ Within(saved[1], MaxEntries) /\ Within(saved[2], 2 * MaxEntries)

IInv == TypeOK /\ Issued /\ Distinct /\ OwnsItsBinding /\ AllEvident /\ AllWithin

-----------------------------------------------------------------------------
(* Bindings, aliases and attempts as records.                               *)

LEMMA Absent ==
  /\ Unbound \in Binding /\ Unbound.group = NoGroup /\ Evident(Unbound)
  /\ NoAlias \in Alias /\ NoAlias.group = NoGroup
  /\ NoAttempt \in Attempt /\ NoAttempt.phase = "none" /\ NoAttempt.previous = Unbound
<1> DEFINE any == CHOOSE s \in Sessions : TRUE
<1>1. any \in Sessions
  BY AffinityAssumption
<1>2. 0 \in Times /\ 0 \in Nat /\ NoEvidence \in Evidence
  BY AffinityAssumption DEF Times, Evidence
<1>3. Unbound \in Binding
  BY <1>2 DEF Unbound, Binding
<1>4. NoAlias \in Alias
  BY <1>1, <1>2 DEF NoAlias, Alias
<1>5. NoAttempt \in Attempt
  BY <1>1, <1>3 DEF NoAttempt, Attempt
<1> QED
  BY <1>3, <1>4, <1>5 DEF Unbound, NoAlias, NoAttempt, Evident

LEMMA BindingFields ==
  ASSUME NEW b \in Binding
  PROVE  /\ b.group \in Groups \cup {NoGroup} /\ b.used \in Times
         /\ b.revision \in Nat /\ b.cache \in Evidence
BY DEF Binding

LEMMA AttemptFields ==
  ASSUME NEW a \in Attempt
  PROVE  /\ a.phase \in {"none", "trying", "streaming"} /\ a.session \in Sessions
         /\ a.group \in Groups \cup {NoGroup} /\ a.revision \in Nat
         /\ a.previous \in Binding
BY DEF Attempt

LEMMA Used ==
  ASSUME NEW b \in Binding, NEW at \in Times
  PROVE  LET q == [b EXCEPT !.used = at]
         IN  /\ q \in Binding /\ q.group = b.group /\ q.revision = b.revision
             /\ q.cache = b.cache
BY DEF Binding

LEMMA Revised ==
  ASSUME NEW b \in Binding, NEW n \in Nat
  PROVE  LET q == [b EXCEPT !.revision = n]
         IN  /\ q \in Binding /\ q.group = b.group /\ q.revision = n
             /\ q.cache = b.cache
BY DEF Binding

LEMMA AliasUsed ==
  ASSUME NEW a \in Alias, NEW at \in Times
  PROVE  LET q == [a EXCEPT !.used = at]
         IN  q \in Alias /\ q.group = a.group
BY DEF Alias

-----------------------------------------------------------------------------
(* Pruning.                                                                 *)

LEMMA WithoutPresent ==
  ASSUME NEW entries, NEW keys, NEW absent, absent.group = NoGroup
  PROVE  Present(Without(entries, keys, absent)) = Present(entries) \ keys
BY DEF Without, Present

(* A trim keeps entries or drops them, and leaves no more than the limit.   *)
LEMMA TrimsShrink ==
  ASSUME NEW entries, NEW absent, absent.group = NoGroup,
         NEW limit \in Nat, NEW at, NEW kept \in Trims(entries, limit, at, absent),
         IsFiniteSet(Present(entries))
  PROVE  /\ \E gone : kept = Without(entries, gone, absent)
         /\ Within(kept, limit)
<1> DEFINE fresh == Without(entries, Expired(entries, at), absent)
           live == Present(fresh)
<1>1. PICK old \in OldestSets(fresh, limit) : kept = Without(fresh, old, absent)
  BY DEF Trims
<1>2. kept = Without(entries, Expired(entries, at) \cup old, absent)
  BY <1>1 DEF Without
<1>3. live = Present(entries) \ Expired(entries, at)
  BY WithoutPresent
<1>4. IsFiniteSet(live) /\ Cardinality(live) \in Nat
  BY <1>3, FS_Difference, FS_CardinalityType
<1>5. Present(kept) = live \ old
  BY <1>1, WithoutPresent
<1>6. /\ old \subseteq live
      /\ Cardinality(old) = IF Cardinality(live) > limit THEN Cardinality(live) - limit ELSE 0
  BY <1>1 DEF OldestSets
<1> HIDE DEF fresh, live
<1>7. /\ IsFiniteSet(live \ old)
      /\ Cardinality(live \ old) = Cardinality(live) - Cardinality(live \cap old)
  BY <1>4, FS_Difference
<1>8. live \cap old = old
  BY <1>6
<1>9. Cardinality(live \ old) = Cardinality(live) - Cardinality(old)
  BY <1>7, <1>8
<1>10. Cardinality(live \ old) <= limit
  <2> DEFINE n == Cardinality(live)
  <2>1. n \in Nat /\ Cardinality(live \ old) = n - IF n > limit THEN n - limit ELSE 0
    BY <1>4, <1>6, <1>9
  <2> HIDE DEF n
  <2> QED
    BY <2>1
<1> QED
  BY <1>2, <1>5, <1>7, <1>10 DEF Within

(* Whatever pruneMaybe leaves is within the limits, and nothing but less    *)
(* than there was.                                                          *)
LEMMA PruneShrinks ==
  ASSUME NEW s \in [Sessions -> Binding], NEW a \in [Responses -> Alias], NEW at,
         IsFiniteSet(Present(s)), IsFiniteSet(Present(a)),
         NEW kept \in PruneMaybe(s, a, at) \cup Prune(s, a, at)
  PROVE  /\ kept[1] \in [Sessions -> Binding] /\ kept[2] \in [Responses -> Alias]
         /\ \A k \in Sessions : kept[1][k] \in {s[k], Unbound}
         /\ \A k \in Responses : kept[2][k] \in {a[k], NoAlias}
         /\ Within(kept[1], MaxEntries) /\ Within(kept[2], 2 * MaxEntries)
<1>1. MaxEntries \in Nat /\ 2 * MaxEntries \in Nat
  BY AffinityAssumption
<1>2. CASE kept \in Prune(s, a, at)
  <2>1. /\ kept[1] \in Trims(s, MaxEntries, at, Unbound)
        /\ kept[2] \in Trims(a, 2 * MaxEntries, at, NoAlias)
    BY <1>2 DEF Prune
  <2>2. PICK gone : kept[1] = Without(s, gone, Unbound)
    BY <1>1, <2>1, Absent, TrimsShrink
  <2>3. Within(kept[1], MaxEntries)
    BY <1>1, <2>1, Absent, TrimsShrink
  <2>4. PICK gone2 : kept[2] = Without(a, gone2, NoAlias)
    BY <1>1, <2>1, Absent, TrimsShrink
  <2>5. Within(kept[2], 2 * MaxEntries)
    BY <1>1, <2>1, Absent, TrimsShrink
  <2>6. kept[1] \in [Sessions -> Binding] /\ \A k \in Sessions : kept[1][k] \in {s[k], Unbound}
    BY <2>2, Absent DEF Without
  <2>7. kept[2] \in [Responses -> Alias] /\ \A k \in Responses : kept[2][k] \in {a[k], NoAlias}
    BY <2>4, Absent DEF Without
  <2> QED
    BY <2>3, <2>5, <2>6, <2>7
<1>3. CASE kept = <<s, a>> /\ ~PruneDue(s, a, at)
  <2>1. kept[1] = s /\ kept[2] = a
    BY <1>3
  <2>2. Cardinality(Present(s)) \in Nat /\ Cardinality(Present(a)) \in Nat
    BY FS_CardinalityType
  <2>3. ~(Cardinality(Present(s)) > MaxEntries) /\ ~(Cardinality(Present(a)) > 2 * MaxEntries)
    BY <1>3 DEF PruneDue
  <2>4. Within(s, MaxEntries) /\ Within(a, 2 * MaxEntries)
    BY <1>1, <2>2, <2>3 DEF Within
  <2> QED
    BY <2>1, <2>4
<1> QED
  BY <1>2, <1>3 DEF PruneMaybe

LEMMA FewerPresent ==
  ASSUME NEW D, NEW entries, NEW kept, DOMAIN entries = D, DOMAIN kept = D, NEW limit \in Nat,
         \A k \in D : kept[k].group \in {entries[k].group, NoGroup},
         Within(entries, limit)
  PROVE  Within(kept, limit)
<1>1. Present(kept) \subseteq Present(entries)
  BY DEF Present
<1>2. IsFiniteSet(Present(entries)) /\ Cardinality(Present(entries)) <= limit
  BY DEF Within
<1>3. /\ IsFiniteSet(Present(kept))
      /\ Cardinality(Present(kept)) <= Cardinality(Present(entries))
  BY <1>1, <1>2, FS_Subset
<1>4. Cardinality(Present(entries)) \in Nat /\ Cardinality(Present(kept)) \in Nat
  BY <1>2, <1>3, FS_CardinalityType
<1> QED
  BY <1>2, <1>3, <1>4 DEF Within

LEMMA OneMorePresent ==
  ASSUME NEW entries, NEW k \in DOMAIN entries, NEW entry,
         IsFiniteSet(Present(entries))
  PROVE  IsFiniteSet(Present([entries EXCEPT ![k] = entry]))
<1> DEFINE next == [entries EXCEPT ![k] = entry]
<1>1. Present(next) \subseteq Present(entries) \cup {k}
  BY DEF Present
<1>2. IsFiniteSet(Present(entries) \cup {k})
  BY FS_AddElement
<1>3. IsFiniteSet(Present(next))
  BY <1>1, <1>2, FS_Subset
<1> QED
  BY <1>3

-----------------------------------------------------------------------------
(* What steps do to bindings and attempts.                                  *)

LEMMA Given ==
  ASSUME IInv
  PROVE  /\ sessions \in [Sessions -> Binding] /\ aliases \in [Responses -> Alias]
         /\ attempts \in [Attempts -> Attempt] /\ erased \in SUBSET Groups
         /\ revision \in Nat /\ lastPrune \in Times /\ now \in Times
         /\ saved[1] \in [Sessions -> Binding] /\ saved[2] \in [Responses -> Alias]
         /\ IsFiniteSet(Present(sessions)) /\ IsFiniteSet(Present(aliases))
         /\ Within(sessions, MaxEntries) /\ Within(aliases, 2 * MaxEntries)
BY DEF IInv, TypeOK, AllWithin, Within

(* The binding of t is dropped or keeps what the properties are about.      *)
KeepsBinding(t) ==
  \/ sessions'[t] = Unbound
  \/ /\ sessions'[t].group = sessions[t].group
     /\ sessions'[t].revision = sessions[t].revision
     /\ sessions'[t].cache = sessions[t].cache

(* The binding of t gets a revision no attempt has had.                     *)
RaisesBinding(t) ==
  /\ revision' > revision /\ sessions'[t].revision = revision'
  /\ sessions'[t].revision >= sessions[t].revision
  /\ Evident(sessions'[t])

KeepsAttempt(i) ==
  \/ attempts'[i].phase = "none"
  \/ /\ InUse(i)
     /\ attempts'[i].session = attempts[i].session
     /\ attempts'[i].group = attempts[i].group
     /\ attempts'[i].revision = attempts[i].revision

GrowingRevisions ==
  \A t \in Sessions :
    sessions'[t].group # NoGroup /\ sessions[t].group # NoGroup
    => sessions'[t].revision >= sessions[t].revision

LEMMA BindingsGrow ==
  ASSUME IInv, sessions' \in [Sessions -> Binding],
         \A t \in Sessions : KeepsBinding(t) \/ RaisesBinding(t)
  PROVE  /\ GrowingRevisions
         /\ \A t \in Sessions : Evident(sessions'[t])
<1> SUFFICES ASSUME NEW t \in Sessions
             PROVE  /\ sessions'[t].group # NoGroup
                       => sessions'[t].revision >= sessions[t].revision
                    /\ Evident(sessions'[t])
  BY DEF GrowingRevisions
<1>1. sessions[t] \in Binding /\ sessions'[t] \in Binding /\ Evident(sessions[t])
  BY Given DEF IInv, AllEvident
<1>2. sessions[t].revision \in Nat
  BY <1>1, BindingFields
<1>3. CASE sessions'[t] = Unbound
  BY <1>3, Absent
<1>4. CASE RaisesBinding(t)
  BY <1>4 DEF RaisesBinding
<1>5. CASE /\ sessions'[t].group = sessions[t].group
           /\ sessions'[t].revision = sessions[t].revision
           /\ sessions'[t].cache = sessions[t].cache
  BY <1>1, <1>2, <1>5 DEF Evident
<1> QED
  BY <1>3, <1>4, <1>5 DEF KeepsBinding

(* An attempt that goes on keeps its revision, and owns, if it still owns a *)
(* binding, the one it made.                                                *)
LEMMA OwnerKept ==
  ASSUME IInv, NEW i \in Attempts, attempts[i] \in Attempt,
         \A t \in Sessions : KeepsBinding(t) \/ RaisesBinding(t),
         KeepsAttempt(i), InUse(i)'
  PROVE  /\ InUse(i) /\ attempts'[i].revision = attempts[i].revision
         /\ attempts[i].revision \in Nat /\ attempts[i].revision <= revision
         /\ Holds(i)' => sessions'[attempts'[i].session].group = attempts'[i].group
<1> DEFINE s == attempts[i].session
<1>1. /\ InUse(i) /\ attempts'[i].session = s /\ s \in Sessions
      /\ attempts'[i].group = attempts[i].group
      /\ attempts'[i].revision = attempts[i].revision
      /\ attempts[i].revision \in Nat /\ attempts[i].revision <= revision
  <2>1. attempts'[i].phase # "none"
    BY DEF InUse
  <2> QED
    BY <2>1, AttemptFields DEF KeepsAttempt, IInv, Issued
<1>2. ASSUME Holds(i)'
      PROVE  sessions'[attempts'[i].session].group = attempts'[i].group
  <2>1. /\ sessions'[attempts'[i].session].group # NoGroup
        /\ sessions'[attempts'[i].session].revision = attempts'[i].revision
    BY <1>2 DEF Holds, IsCurrent
  <2>2. ~RaisesBinding(s)
    BY <1>1, <2>1, Given DEF RaisesBinding
  <2>3. sessions'[s] # Unbound
    BY <1>1, <2>1, Absent
  <2>4. /\ sessions'[s].group = sessions[s].group
        /\ sessions'[s].revision = sessions[s].revision
    BY <1>1, <2>2, <2>3 DEF KeepsBinding
  <2>5. Holds(i)
    BY <1>1, <2>1, <2>4 DEF Holds, IsCurrent, InUse
  <2> QED
    BY <1>1, <2>4, <2>5 DEF IInv, OwnsItsBinding
<1> QED
  BY <1>1, <1>2

LEMMA OwnersKept ==
  ASSUME IInv, revision' \in Nat, revision' >= revision,
         \A t \in Sessions : KeepsBinding(t) \/ RaisesBinding(t),
         \A i \in Attempts : KeepsAttempt(i)
  PROVE  Issued' /\ Distinct' /\ OwnsItsBinding'
<1>1. ASSUME NEW i \in Attempts, InUse(i)'
      PROVE  /\ InUse(i) /\ attempts'[i].revision = attempts[i].revision
             /\ attempts[i].revision \in Nat /\ attempts[i].revision <= revision
             /\ Holds(i)' => sessions'[attempts'[i].session].group = attempts'[i].group
  <2>1. attempts[i] \in Attempt
    BY Given
  <2> QED
    BY <1>1, <2>1, OwnerKept
<1>2. Issued'
  BY <1>1, Given DEF Issued
<1>3. Distinct'
  BY <1>1 DEF IInv, Distinct
<1>4. ASSUME NEW i \in Attempts, Holds(i)' PROVE InUse(i)'
  BY <1>4 DEF Holds, InUse
<1>5. OwnsItsBinding'
  BY <1>1, <1>4 DEF OwnsItsBinding
<1> QED
  BY <1>2, <1>3, <1>5

(* A step that starts no attempt and does not restart.                      *)
LEMMA StepKeeps ==
  ASSUME IInv, revision' \in Nat, revision' >= revision,
         sessions' \in [Sessions -> Binding], aliases' \in [Responses -> Alias],
         attempts' \in [Attempts -> Attempt],
         \A t \in Sessions : KeepsBinding(t) \/ RaisesBinding(t),
         \A i \in Attempts : KeepsAttempt(i),
         \A i \in Attempts : attempts'[i].previous \in {attempts[i].previous, Unbound},
         Within(sessions, MaxEntries)', Within(aliases, 2 * MaxEntries)',
         lastPrune' \in Times, now' \in Times, erased' \in SUBSET Groups,
         saved' = saved
  PROVE  IInv' /\ GrowingRevisions
<1>1. TypeOK'
  BY DEF IInv, TypeOK
<1>2. Issued' /\ Distinct' /\ OwnsItsBinding'
  BY OwnersKept
<1>3. GrowingRevisions /\ \A t \in Sessions : Evident(sessions'[t])
  BY BindingsGrow
<1>4. \A i \in Attempts : Evident(attempts'[i].previous)
  BY Absent DEF IInv, AllEvident
<1>5. AllEvident'
  BY <1>3, <1>4 DEF IInv, AllEvident
<1>6. AllWithin'
  BY DEF IInv, AllWithin
<1> QED
  BY <1>1, <1>2, <1>3, <1>5, <1>6 DEF IInv

-----------------------------------------------------------------------------
(* The actions.                                                             *)

LEMMA PrunedTimes ==
  ASSUME IInv, NEW s, NEW a, NEW at \in Times
  PROVE  PrunedAt(s, a, at) \in Times
BY Given DEF PrunedAt

LEMMA Attempting ==
  ASSUME IInv, NEW i \in Attempts
  PROVE  /\ attempts[i] \in Attempt /\ attempts[i].session \in Sessions
         /\ attempts[i].group \in Groups \cup {NoGroup} /\ attempts[i].revision \in Nat
         /\ attempts[i].previous \in Binding /\ Evident(attempts[i].previous)
         /\ sessions[attempts[i].session] \in Binding
<1>1. attempts[i] \in Attempt
  BY Given
<1> QED
  BY <1>1, AttemptFields, Given DEF IInv, AllEvident

LEMMA NextRevisionHigher ==
  ASSUME IInv, NEW persisted \in Nat
  PROVE  /\ NextRevision(persisted) \in Nat /\ NextRevision(persisted) > revision
         /\ NextRevision(persisted) > persisted
BY Given DEF NextRevision, Higher

LEMMA AttemptEnds ==
  ASSUME IInv, NEW i \in Attempts, EndAttempt(i)
  PROVE  /\ attempts' \in [Attempts -> Attempt]
         /\ \A j \in Attempts : KeepsAttempt(j)
         /\ \A j \in Attempts : attempts'[j].previous \in {attempts[j].previous, Unbound}
<1>1. /\ attempts' \in [Attempts -> Attempt]
      /\ \A j \in Attempts : attempts'[j] = IF j = i THEN NoAttempt ELSE attempts[j]
  BY Given, Absent DEF EndAttempt
<1> QED
  BY <1>1, Absent DEF KeepsAttempt, InUse

LEMMA AttemptsStay ==
  ASSUME IInv, UNCHANGED attempts
  PROVE  /\ attempts' \in [Attempts -> Attempt]
         /\ \A j \in Attempts : KeepsAttempt(j)
         /\ \A j \in Attempts : attempts'[j].previous \in {attempts[j].previous, Unbound}
BY Given DEF KeepsAttempt, InUse

(* Steps that only shrink the two records, or mark entries as used.         *)
LEMMA PrunedKeeps ==
  ASSUME IInv, sessions' \in [Sessions -> Binding], aliases' \in [Responses -> Alias],
         \A t \in Sessions : KeepsBinding(t), UNCHANGED <<revision, attempts, saved, now>>,
         Within(sessions, MaxEntries)', Within(aliases, 2 * MaxEntries)',
         lastPrune' \in Times, erased' \in SUBSET Groups
  PROVE  IInv' /\ GrowingRevisions /\ \A t \in Sessions : KeepsBinding(t)
BY Given, AttemptsStay, StepKeeps

LEMMA ResolveKeeps ==
  ASSUME IInv, NEW s \in Sessions, NEW at \in Times, Resolve(s, at)
  PROVE  IInv' /\ GrowingRevisions /\ \A t \in Sessions : KeepsBinding(t)
<1>1. PICK kept \in PruneMaybe(sessions, aliases, at) :
        /\ sessions' = IF s \notin Present(kept[1]) THEN kept[1]
                       ELSE IF s \in Expired(kept[1], at)
                         THEN Without(kept[1], {s}, Unbound)
                         ELSE [kept[1] EXCEPT ![s] = [@ EXCEPT !.used = at]]
        /\ aliases' = kept[2]
  BY DEF Resolve
<1>2. /\ kept[1] \in [Sessions -> Binding] /\ kept[2] \in [Responses -> Alias]
      /\ \A k \in Sessions : kept[1][k] \in {sessions[k], Unbound}
      /\ Within(kept[1], MaxEntries) /\ Within(kept[2], 2 * MaxEntries)
  BY Given, PruneShrinks
<1> DEFINE touched == [kept[1][s] EXCEPT !.used = at]
<1>3. /\ touched \in Binding /\ touched.group = kept[1][s].group
      /\ touched.revision = kept[1][s].revision /\ touched.cache = kept[1][s].cache
  BY <1>2, Used
<1>4. /\ sessions' \in [Sessions -> Binding]
      /\ \A k \in Sessions \ {s} : sessions'[k] = kept[1][k]
      /\ sessions'[s] \in {kept[1][s], Unbound, touched}
  <2> HIDE DEF touched
  <2>1. sessions' \in {kept[1], Without(kept[1], {s}, Unbound), [kept[1] EXCEPT ![s] = touched]}
    BY <1>1 DEF touched
  <2> QED
    BY <1>2, <1>3, <2>1, Absent DEF Without
<1> HIDE DEF touched
<1>5. ASSUME NEW t \in Sessions PROVE KeepsBinding(t)
  <2>1. CASE t # s
    BY <1>2, <1>4, <2>1 DEF KeepsBinding
  <2>2. CASE t = s
    <3>1. kept[1][s] \in {sessions[s], Unbound}
      BY <1>2
    <3>2. CASE kept[1][s] = sessions[s]
      BY <1>3, <1>4, <2>2, <3>2 DEF KeepsBinding
    <3>3. CASE kept[1][s] = Unbound
      <4>1. s \notin Present(kept[1])
        BY <3>3, Absent DEF Present
      <4> QED
        BY <1>1, <2>2, <3>3, <4>1 DEF KeepsBinding
    <3> QED
      BY <3>1, <3>2, <3>3
  <2> QED
    BY <2>1, <2>2
<1>6. Within(sessions', MaxEntries)
  <2>1. \A k \in Sessions : sessions'[k].group \in {kept[1][k].group, NoGroup}
    BY <1>3, <1>4, Absent
  <2>2. DOMAIN sessions' = Sessions /\ DOMAIN kept[1] = Sessions
    BY <1>2, <1>4
  <2>3. MaxEntries \in Nat
    BY AffinityAssumption
  <2> QED
    BY <1>2, <2>1, <2>2, <2>3, FewerPresent
<1>7. lastPrune' \in Times
  BY PrunedTimes DEF Resolve
<1> QED
  BY <1>1, <1>2, <1>4, <1>5, <1>6, <1>7, Given, PrunedKeeps DEF Resolve, Within

LEMMA PruneNowKeeps ==
  ASSUME IInv, PruneNow
  PROVE  IInv' /\ GrowingRevisions /\ \A t \in Sessions : KeepsBinding(t)
<1>1. PICK kept \in Prune(sessions, aliases, now) :
        sessions' = kept[1] /\ aliases' = kept[2]
  BY DEF PruneNow
<1>2. /\ kept[1] \in [Sessions -> Binding] /\ kept[2] \in [Responses -> Alias]
      /\ \A k \in Sessions : kept[1][k] \in {sessions[k], Unbound}
      /\ Within(kept[1], MaxEntries) /\ Within(kept[2], 2 * MaxEntries)
  BY Given, PruneShrinks
<1>3. \A t \in Sessions : KeepsBinding(t)
  BY <1>1, <1>2 DEF KeepsBinding
<1> QED
  BY <1>1, <1>2, <1>3, Given, PrunedKeeps DEF PruneNow, Within

LEMMA BindResponseKeeps ==
  ASSUME IInv, NEW i \in Attempts, NEW p \in Responses, BindResponse(i, p)
  PROVE  IInv' /\ GrowingRevisions /\ \A t \in Sessions : KeepsBinding(t)
<1> DEFINE alias == [session |-> attempts[i].session, group |-> attempts[i].group,
                     used |-> now]
           next == [aliases EXCEPT ![p] = alias]
<1>1. PICK kept \in PruneMaybe(sessions, next, now) :
        sessions' = kept[1] /\ aliases' = kept[2]
  BY DEF BindResponse
<1>2. alias \in Alias
  BY Attempting, Given DEF Alias
<1>3. IsFiniteSet(Present(next))
  BY Given, OneMorePresent
<1> HIDE DEF alias
<1>4. next \in [Responses -> Alias]
  BY <1>2, Given
<1> HIDE DEF next
<1>5. /\ kept[1] \in [Sessions -> Binding] /\ kept[2] \in [Responses -> Alias]
      /\ \A k \in Sessions : kept[1][k] \in {sessions[k], Unbound}
      /\ Within(kept[1], MaxEntries) /\ Within(kept[2], 2 * MaxEntries)
  BY <1>1, <1>3, <1>4, Given, PruneShrinks
<1>6. \A t \in Sessions : KeepsBinding(t)
  BY <1>1, <1>5 DEF KeepsBinding
<1>7. lastPrune' \in Times
  BY Given, PrunedTimes DEF BindResponse
<1> QED
  BY <1>1, <1>5, <1>6, <1>7, Given, PrunedKeeps DEF BindResponse, Within

LEMMA ResolveResponseKeeps ==
  ASSUME IInv, NEW p \in Responses, ResolveResponse(p)
  PROVE  IInv' /\ GrowingRevisions /\ \A t \in Sessions : KeepsBinding(t)
<1>1. PICK kept \in PruneMaybe(sessions, aliases, now) :
        /\ sessions' = kept[1]
        /\ aliases' = IF p \in Present(kept[2]) \ Expired(kept[2], now)
                        THEN [kept[2] EXCEPT ![p] = [@ EXCEPT !.used = now]] ELSE kept[2]
  BY DEF ResolveResponse
<1>2. /\ kept[1] \in [Sessions -> Binding] /\ kept[2] \in [Responses -> Alias]
      /\ \A k \in Sessions : kept[1][k] \in {sessions[k], Unbound}
      /\ Within(kept[1], MaxEntries) /\ Within(kept[2], 2 * MaxEntries)
  BY Given, PruneShrinks
<1>3. \A t \in Sessions : KeepsBinding(t)
  BY <1>1, <1>2 DEF KeepsBinding
<1> DEFINE touched == [kept[2][p] EXCEPT !.used = now]
<1>4. touched \in Alias /\ touched.group = kept[2][p].group
  BY <1>2, AliasUsed, Given
<1> HIDE DEF touched
<1>5. aliases' \in {kept[2], [kept[2] EXCEPT ![p] = touched]}
  BY <1>1 DEF touched
<1>6. aliases' \in [Responses -> Alias]
  BY <1>2, <1>4, <1>5
<1>7. \A k \in Responses : aliases'[k].group \in {kept[2][k].group, NoGroup}
  BY <1>2, <1>4, <1>5
<1>8. Within(aliases', 2 * MaxEntries)
  <2>1. 2 * MaxEntries \in Nat
    BY AffinityAssumption
  <2>2. DOMAIN aliases' = Responses /\ DOMAIN kept[2] = Responses
    BY <1>2, <1>6
  <2> QED
    BY <1>2, <1>7, <2>1, <2>2, FewerPresent
<1>9. lastPrune' \in Times
  BY Given, PrunedTimes DEF ResolveResponse
<1> QED
  BY <1>1, <1>2, <1>3, <1>6, <1>8, <1>9, Given, PrunedKeeps DEF ResolveResponse, Within

LEMMA WithoutSessions ==
  ASSUME IInv, NEW gone, sessions' = Without(sessions, gone, Unbound)
  PROVE  /\ sessions' \in [Sessions -> Binding]
         /\ \A t \in Sessions : KeepsBinding(t)
         /\ Within(sessions', MaxEntries)
<1>1. /\ sessions' \in [Sessions -> Binding]
      /\ \A t \in Sessions : sessions'[t] = IF t \in gone THEN Unbound ELSE sessions[t]
  BY Given, Absent DEF Without
<1>2. \A t \in Sessions : sessions'[t].group \in {sessions[t].group, NoGroup}
  BY <1>1, Absent
<1>3. DOMAIN sessions' = Sessions /\ DOMAIN sessions = Sessions /\ MaxEntries \in Nat
  BY <1>1, Given, AffinityAssumption
<1>4. Within(sessions', MaxEntries)
  BY <1>2, <1>3, Given, FewerPresent
<1> QED
  BY <1>1, <1>4 DEF KeepsBinding

LEMMA ForgetGroupKeeps ==
  ASSUME IInv, NEW g \in Groups, ForgetGroup(g)
  PROVE  IInv' /\ GrowingRevisions /\ \A t \in Sessions : KeepsBinding(t)
<1> DEFINE gone == {p \in Responses : aliases[p].group = g}
<1>1. /\ sessions' \in [Sessions -> Binding] /\ Within(sessions', MaxEntries)
      /\ \A t \in Sessions : KeepsBinding(t)
  BY WithoutSessions DEF ForgetGroup
<1>2. aliases' = Without(aliases, gone, NoAlias)
  BY DEF ForgetGroup
<1>3. /\ aliases' \in [Responses -> Alias]
      /\ \A p \in Responses : aliases'[p] = IF p \in gone THEN NoAlias ELSE aliases[p]
  BY <1>2, Given, Absent DEF Without
<1>4. \A p \in Responses : aliases'[p].group \in {aliases[p].group, NoGroup}
  BY <1>3, Absent
<1>5. Within(aliases', 2 * MaxEntries)
  <2>1. DOMAIN aliases' = Responses /\ DOMAIN aliases = Responses /\ 2 * MaxEntries \in Nat
    BY <1>3, Given, AffinityAssumption
  <2> QED
    BY <1>4, <2>1, Given, FewerPresent
<1>6. lastPrune' \in Times /\ erased' \in SUBSET Groups
  BY Given DEF ForgetGroup
<1> QED
  BY <1>1, <1>3, <1>5, <1>6, PrunedKeeps DEF ForgetGroup, Within

(* Steps of an attempt that leave the Responses branches alone.             *)
LEMMA AttemptStepKeeps ==
  ASSUME IInv, NEW i \in Attempts, EndAttempt(i),
         sessions' \in [Sessions -> Binding], Within(sessions', MaxEntries),
         \A t \in Sessions : KeepsBinding(t) \/ RaisesBinding(t),
         revision' \in Nat, revision' >= revision,
         UNCHANGED <<aliases, lastPrune, saved, erased, now>>
  PROVE  IInv' /\ GrowingRevisions
<1>1. Within(sessions, MaxEntries)' /\ Within(aliases, 2 * MaxEntries)'
  BY Given DEF Within
<1>2. /\ attempts' \in [Attempts -> Attempt]
      /\ \A j \in Attempts : KeepsAttempt(j)
      /\ \A j \in Attempts : attempts'[j].previous \in {attempts[j].previous, Unbound}
  BY AttemptEnds
<1> QED
  BY <1>1, <1>2, Given, StepKeeps

(* An attempt that owns its binding replaces it by one of a new revision.   *)
LEMMA ReplacedKeeps ==
  ASSUME IInv, NEW i \in Attempts, IsCurrent(i), EndAttempt(i),
         NEW b \in Binding, Evident(b), b.revision > revision,
         b.revision >= sessions[attempts[i].session].revision,
         sessions' = [sessions EXCEPT ![attempts[i].session] = b],
         revision' = b.revision,
         UNCHANGED <<aliases, lastPrune, saved, erased, now>>
  PROVE  IInv' /\ GrowingRevisions
<1> DEFINE s == attempts[i].session
<1>1. s \in Sessions /\ b.revision \in Nat
  BY Attempting, BindingFields
<1>2. /\ sessions' \in [Sessions -> Binding]
      /\ \A t \in Sessions : sessions'[t] = IF t = s THEN b ELSE sessions[t]
  BY <1>1, Given
<1>3. sessions[s].group # NoGroup
  BY DEF IsCurrent
<1> HIDE DEF s
<1>4. ASSUME NEW t \in Sessions PROVE KeepsBinding(t) \/ RaisesBinding(t)
  <2>1. CASE t = s
    BY <1>2, <2>1 DEF RaisesBinding, s
  <2>2. CASE t # s
    BY <1>2, <2>2 DEF KeepsBinding
  <2> QED
    BY <2>1, <2>2
<1>5. Within(sessions', MaxEntries)
  <2>1. DOMAIN sessions' = Sessions /\ DOMAIN sessions = Sessions /\ MaxEntries \in Nat
    BY <1>2, Given, AffinityAssumption
  <2>2. Present(sessions') \subseteq Present(sessions)
    BY <1>2, <1>3, <2>1 DEF Present
  <2>3. IsFiniteSet(Present(sessions)) /\ Cardinality(Present(sessions)) <= MaxEntries
    BY Given DEF Within
  <2>4. /\ IsFiniteSet(Present(sessions'))
        /\ Cardinality(Present(sessions')) <= Cardinality(Present(sessions))
    BY <2>2, <2>3, FS_Subset
  <2>5. Cardinality(Present(sessions)) \in Nat /\ Cardinality(Present(sessions')) \in Nat
    BY <2>3, <2>4, FS_CardinalityType
  <2> QED
    BY <2>1, <2>3, <2>4, <2>5 DEF Within
<1>6. revision' \in Nat /\ revision' >= revision
  BY <1>1, Given
<1> QED
  BY <1>2, <1>4, <1>5, <1>6, AttemptStepKeeps

LEMMA SessionsStay ==
  ASSUME IInv, UNCHANGED sessions
  PROVE  /\ sessions' \in [Sessions -> Binding] /\ Within(sessions', MaxEntries)
         /\ \A t \in Sessions : KeepsBinding(t)
BY Given DEF KeepsBinding

LEMMA RollbackKeeps ==
  ASSUME IInv, NEW i \in Attempts, Rollback(i)
  PROVE  IInv' /\ GrowingRevisions
<1> DEFINE s == attempts[i].session
           previous == attempts[i].previous
           next == NextRevision(attempts[i].revision)
<1>1. EndAttempt(i) /\ UNCHANGED <<aliases, lastPrune, saved, erased, now>>
  BY DEF Rollback
<1>2. revision \in Nat
  BY Given
<1>3. CASE UNCHANGED <<sessions, revision>>
  BY <1>1, <1>2, <1>3, SessionsStay, AttemptStepKeeps
<1>4. CASE sessions' = Without(sessions, {s}, Unbound) /\ UNCHANGED revision
  BY <1>1, <1>2, <1>4, WithoutSessions, AttemptStepKeeps
<1>5. CASE /\ IsCurrent(i) /\ revision' = next
           /\ sessions' = [sessions EXCEPT ![s] = [previous EXCEPT !.revision = next]]
  <2> DEFINE b == [previous EXCEPT !.revision = next]
  <2>1. /\ previous \in Binding /\ Evident(previous)
        /\ attempts[i].revision \in Nat /\ sessions[s].revision = attempts[i].revision
    BY <1>5, Attempting DEF IsCurrent
  <2>2. next \in Nat /\ next > revision /\ next > attempts[i].revision
    BY <2>1, NextRevisionHigher
  <2> HIDE DEF previous, next
  <2>3. b \in Binding /\ b.group = previous.group /\ b.revision = next /\ b.cache = previous.cache
    BY <2>1, <2>2, Revised
  <2>4. sessions' = [sessions EXCEPT ![s] = b] /\ revision' = b.revision
    BY <1>5, <2>3
  <2> HIDE DEF b
  <2>5. Evident(b)
    BY <2>1, <2>3 DEF Evident
  <2>6. b.revision > revision /\ b.revision >= sessions[s].revision
    BY <2>1, <2>2, <2>3
  <2> QED
    BY <1>1, <1>5, <2>3, <2>4, <2>5, <2>6, ReplacedKeeps
<1> QED
  BY <1>3, <1>4, <1>5 DEF Rollback

LEMMA CommitKeeps ==
  ASSUME IInv, NEW i \in Attempts, Commit(i)
  PROVE  IInv' /\ GrowingRevisions
<1> DEFINE a == [attempts[i] EXCEPT !.phase = "streaming", !.previous = Unbound]
<1>1. attempts[i] \in Attempt /\ attempts[i].phase = "trying"
  BY Attempting DEF Commit
<1>2. a \in Attempt
  BY <1>1, Absent, Zenon DEF Attempt
<1>3. /\ a.session = attempts[i].session /\ a.group = attempts[i].group
      /\ a.revision = attempts[i].revision /\ a.previous = Unbound
  BY <1>1 DEF Attempt
<1>4. attempts' = [attempts EXCEPT ![i] = a]
  BY DEF Commit
<1> HIDE DEF a
<1>5. /\ attempts' \in [Attempts -> Attempt]
      /\ \A j \in Attempts : attempts'[j] = IF j = i THEN a ELSE attempts[j]
  BY <1>2, <1>4, Given
<1>6. \A j \in Attempts : KeepsAttempt(j)
  BY <1>1, <1>3, <1>5 DEF KeepsAttempt, InUse
<1>7. \A j \in Attempts : attempts'[j].previous \in {attempts[j].previous, Unbound}
  BY <1>3, <1>5
<1>8. UNCHANGED <<sessions, aliases, revision, lastPrune, saved, erased, now>>
  BY DEF Commit
<1>9. Within(sessions, MaxEntries)' /\ Within(aliases, 2 * MaxEntries)'
  BY <1>8, Given DEF Within
<1> QED
  BY <1>5, <1>6, <1>7, <1>8, <1>9, Given, SessionsStay, StepKeeps

LEMMA InvalidateKeeps ==
  ASSUME IInv, NEW i \in Attempts, Invalidate(i)
  PROVE  IInv' /\ GrowingRevisions
<1>1. EndAttempt(i) /\ UNCHANGED <<aliases, revision, lastPrune, saved, erased, now>>
  BY DEF Invalidate
<1>2. revision \in Nat
  BY Given
<1>3. CASE sessions' = sessions
  BY <1>1, <1>2, <1>3, SessionsStay, AttemptStepKeeps
<1>4. CASE sessions' = Without(sessions, {attempts[i].session}, Unbound)
  BY <1>1, <1>2, <1>4, WithoutSessions, AttemptStepKeeps
<1> QED
  BY <1>3, <1>4 DEF Invalidate

LEMMA CompleteKeeps ==
  ASSUME IInv, NEW i \in Attempts, NEW status \in Statuses \cup {"none"},
         Complete(i, status)
  PROVE  IInv' /\ GrowingRevisions
<1> DEFINE s == attempts[i].session
           next == NextRevision(sessions[s].revision)
<1>1. EndAttempt(i) /\ UNCHANGED <<aliases, lastPrune, saved, erased, now>>
  BY DEF Complete
<1>2. revision \in Nat
  BY Given
<1>3. CASE UNCHANGED <<sessions, revision>>
  BY <1>1, <1>2, <1>3, SessionsStay, AttemptStepKeeps
<1>4. CASE /\ status # "none" /\ IsCurrent(i) /\ attempts[i].phase = "streaming"
           /\ revision' = next
           /\ sessions' = [sessions EXCEPT ![s] =
                [@ EXCEPT !.revision = next, !.cache = <<status, attempts[i].group>>]]
  <2> DEFINE old == sessions[s]
             evidence == <<status, attempts[i].group>>
             b == [old EXCEPT !.revision = next, !.cache = evidence]
  <2>1. s \in Sessions /\ old \in Binding
    BY Attempting
  <2>2. next \in Nat /\ next > revision /\ next > old.revision /\ old.revision \in Nat
    BY <2>1, BindingFields, NextRevisionHigher
  <2>3. old.group = attempts[i].group /\ old.group # NoGroup
    BY <1>4 DEF IInv, OwnsItsBinding, Holds, IsCurrent
  <2>4. evidence \in Evidence /\ evidence[2] = old.group
    BY <1>4, <2>1, <2>3, BindingFields DEF Evidence
  <2>5. sessions' = [sessions EXCEPT ![s] = b] /\ revision' = next
    BY <1>4
  <2> HIDE DEF old, evidence, next
  <2>6. b \in Binding
    BY <2>1, <2>2, <2>4, Zenon DEF Binding
  <2>7. b.group = old.group /\ b.revision = next /\ b.cache = evidence
    BY <2>1 DEF Binding
  <2> HIDE DEF b
  <2>8. Evident(b)
    BY <2>4, <2>7 DEF Evident
  <2>9. b.revision > revision /\ b.revision >= sessions[s].revision
    BY <2>2, <2>7 DEF old
  <2> QED
    BY <1>1, <1>4, <2>5, <2>6, <2>7, <2>8, <2>9, ReplacedKeeps
<1> QED
  BY <1>3, <1>4 DEF Complete

LEMMA BindKeeps ==
  ASSUME IInv, NEW i \in Attempts, NEW s \in Sessions, NEW g \in Groups, NEW at \in Times,
         BindForRoute(i, s, g, at)
  PROVE  IInv' /\ GrowingRevisions
<1> DEFINE previous == sessions[s]
           next == NextRevision(previous.revision)
           b == [group |-> g, used |-> at, revision |-> next,
                 cache |-> IF previous.group = g THEN previous.cache ELSE NoEvidence]
           bound == [sessions EXCEPT ![s] = b]
           a == [phase |-> "trying", session |-> s, group |-> g,
                 revision |-> next, previous |-> previous]
<1>1. /\ previous \in Binding /\ Evident(previous) /\ previous.revision \in Nat
      /\ previous.cache \in Evidence
  BY Given, BindingFields DEF IInv, AllEvident
<1>2. next \in Nat /\ next > revision /\ next > previous.revision
  BY <1>1, NextRevisionHigher
<1>3. PICK kept \in PruneMaybe(bound, aliases, at) :
        sessions' = kept[1] /\ aliases' = kept[2]
  BY DEF BindForRoute, Install
<1>4. lastPrune' = PrunedAt(bound, aliases, at) /\ revision' = next
      /\ erased' = erased \ {g}
  BY DEF BindForRoute, Install
<1>5. attempts' = [attempts EXCEPT ![i] = a] /\ UNCHANGED <<saved, now>>
  BY DEF BindForRoute
<1> HIDE DEF next
<1>6. /\ b \in Binding /\ Evident(b) /\ b.revision = next
  <2>1. b.cache \in Evidence
    BY <1>1 DEF Evidence
  <2>2. b \in Binding
    BY <1>2, <2>1 DEF Binding
  <2>3. Evident(b)
    BY <1>1 DEF Evident
  <2> QED
    BY <2>2, <2>3
<1>7. a \in Attempt /\ a.phase = "trying" /\ a.session = s /\ a.group = g
      /\ a.revision = next /\ a.previous = previous /\ b.group = g
  BY <1>1, <1>2 DEF Attempt
<1>8. IsFiniteSet(Present(bound))
  BY Given, OneMorePresent
<1> HIDE DEF a, b
<1>9. /\ bound \in [Sessions -> Binding]
      /\ \A t \in Sessions : bound[t] = IF t = s THEN b ELSE sessions[t]
  BY <1>6, Given
<1> HIDE DEF bound
<1>10. /\ kept[1] \in [Sessions -> Binding] /\ kept[2] \in [Responses -> Alias]
       /\ \A t \in Sessions : kept[1][t] \in {bound[t], Unbound}
       /\ Within(kept[1], MaxEntries) /\ Within(kept[2], 2 * MaxEntries)
  BY <1>8, <1>9, Given, PruneShrinks
<1>11. ASSUME NEW t \in Sessions PROVE KeepsBinding(t) \/ RaisesBinding(t)
  <2>1. CASE sessions'[t] = Unbound
    BY <2>1 DEF KeepsBinding
  <2>2. CASE sessions'[t] = b /\ t = s
    BY <1>1, <1>2, <1>4, <1>6, <2>2 DEF RaisesBinding
  <2>3. CASE sessions'[t] = sessions[t]
    BY <2>3 DEF KeepsBinding
  <2> QED
    BY <1>3, <1>9, <1>10, <2>1, <2>2, <2>3
<1>12. sessions'[s] = Unbound \/ sessions'[s] = b
  BY <1>3, <1>9, <1>10
<1>13. GrowingRevisions /\ \A t \in Sessions : Evident(sessions'[t])
  BY <1>3, <1>10, <1>11, BindingsGrow
<1>14. /\ attempts' \in [Attempts -> Attempt]
       /\ \A j \in Attempts : attempts'[j] = IF j = i THEN a ELSE attempts[j]
  BY <1>5, <1>7, Given
<1>15. TypeOK'
  <2>1. lastPrune' \in Times
    BY <1>4, PrunedTimes
  <2>2. saved' \in [Sessions -> Binding] \X [Responses -> Alias]
    BY <1>5 DEF IInv, TypeOK
  <2> QED
    BY <1>2, <1>3, <1>4, <1>5, <1>10, <1>14, <2>1, <2>2, Given DEF TypeOK
<1>16. ASSUME NEW j \in Attempts, j # i, InUse(j)'
       PROVE  /\ InUse(j) /\ attempts'[j].revision = attempts[j].revision
              /\ attempts[j].revision \in Nat /\ attempts[j].revision <= revision
              /\ Holds(j)' => sessions'[attempts'[j].session].group = attempts'[j].group
  <2>1. attempts[j] \in Attempt
    BY Given
  <2>2. KeepsAttempt(j)
    BY <1>14, <1>16 DEF KeepsAttempt, InUse
  <2> QED
    BY <1>11, <1>16, <2>1, <2>2, OwnerKept
<1>17. attempts'[i].revision = next
  BY <1>7, <1>14
<1>18. Issued'
  BY <1>2, <1>4, <1>16, <1>17, Given DEF Issued
<1>19. Distinct'
  <2>1. \A j \in Attempts : j # i /\ InUse(j)' => attempts'[j].revision # attempts'[i].revision
    BY <1>2, <1>16, <1>17, Given
  <2>2. \A j, k \in Attempts : j # i /\ k # i /\ j # k /\ InUse(j)' /\ InUse(k)'
                             => attempts'[j].revision # attempts'[k].revision
    BY <1>16 DEF IInv, Distinct
  <2> QED
    BY <2>1, <2>2 DEF Distinct
<1>20. OwnsItsBinding'
  <2>1. ASSUME NEW j \in Attempts, Holds(j)'
        PROVE  sessions'[attempts'[j].session].group = attempts'[j].group
    <3>1. InUse(j)' /\ sessions'[attempts'[j].session].group # NoGroup
      BY <2>1 DEF Holds, InUse, IsCurrent
    <3>2. CASE j = i
      BY <1>7, <1>12, <1>14, <3>1, <3>2, Absent
    <3>3. CASE j # i
      BY <1>16, <2>1, <3>1, <3>3
    <3> QED
      BY <3>2, <3>3
  <2> QED
    BY <2>1 DEF OwnsItsBinding
<1>21. AllEvident'
  <2>1. \A j \in Attempts : Evident(attempts'[j].previous)
    BY <1>1, <1>7, <1>14 DEF IInv, AllEvident
  <2> QED
    BY <1>5, <1>13, <2>1 DEF IInv, AllEvident
<1>22. AllWithin'
  BY <1>3, <1>5, <1>10 DEF IInv, AllWithin, Within
<1> QED
  BY <1>13, <1>15, <1>18, <1>19, <1>20, <1>21, <1>22 DEF IInv

LEMMA SaveKeeps ==
  ASSUME IInv, Save
  PROVE  IInv' /\ GrowingRevisions
<1>1. UNCHANGED <<sessions, aliases, revision, lastPrune, attempts, erased, now>>
      /\ saved' = <<sessions, aliases>>
  BY DEF Save
<1>2. GrowingRevisions
  BY <1>1, BindingsGrow, SessionsStay
<1>3. TypeOK' /\ AllEvident' /\ AllWithin'
  BY <1>1 DEF IInv, TypeOK, AllEvident, AllWithin, Within, Present
<1>4. Issued' /\ Distinct' /\ OwnsItsBinding'
  BY <1>1 DEF IInv, Issued, Distinct, OwnsItsBinding, InUse, Holds, IsCurrent
<1> QED
  BY <1>2, <1>3, <1>4 DEF IInv

LEMMA RestartKeeps ==
  ASSUME IInv, Restart
  PROVE  IInv'
<1>1. \A j \in Attempts : attempts'[j] = NoAttempt
  BY DEF Restart
<1>2. TypeOK'
  <2>1. 0 \in Times
    BY AffinityAssumption DEF Times
  <2> QED
    BY <2>1, Absent, Given DEF Restart, IInv, TypeOK
<1>3. Issued' /\ Distinct' /\ OwnsItsBinding'
  BY <1>1, Absent DEF Issued, Distinct, OwnsItsBinding, InUse, Holds
<1>4. AllEvident'
  BY <1>1, Absent DEF Restart, IInv, AllEvident
<1>5. AllWithin'
  BY DEF Restart, IInv, AllWithin, Within, Present
<1> QED
  BY <1>2, <1>3, <1>4, <1>5 DEF IInv

-----------------------------------------------------------------------------
(* The theorems.                                                            *)

(* Without bindings, aliases and attempts there is nothing to violate.      *)
THEOREM InvInit == Init => IInv
<1> SUFFICES ASSUME Init PROVE IInv
  OBVIOUS
<1>1. 0 \in Times /\ 0 \in Nat /\ MaxEntries \in Nat /\ 2 * MaxEntries \in Nat
      /\ 0 <= MaxEntries /\ 0 <= 2 * MaxEntries
  BY AffinityAssumption DEF Times
<1>2. /\ saved[1] = sessions /\ saved[2] = aliases
      /\ \A t \in Sessions : sessions[t] = Unbound
      /\ \A i \in Attempts : attempts[i] = NoAttempt
  BY DEF Init
<1>3. TypeOK
  BY <1>1, Absent DEF Init, TypeOK
<1>4. Present(sessions) = {} /\ Present(aliases) = {}
  BY Absent DEF Init, Present
<1>5. AllWithin
  BY <1>1, <1>2, <1>4, FS_EmptySet DEF AllWithin, Within
<1>6. Issued /\ Distinct /\ OwnsItsBinding
  BY <1>2, Absent DEF Issued, Distinct, OwnsItsBinding, InUse, Holds
<1>7. AllEvident
  BY <1>2, Absent DEF AllEvident
<1> QED
  BY <1>3, <1>5, <1>6, <1>7 DEF IInv

(* Every step keeps the invariant, and every step but a restart lets the    *)
(* revisions of bindings grow.                                              *)
THEOREM InvNext == IInv /\ [Next]_vars => IInv' /\ (Restart \/ GrowingRevisions)
<1> SUFFICES ASSUME IInv, [Next]_vars PROVE IInv' /\ (Restart \/ GrowingRevisions)
  OBVIOUS
<1>1. ASSUME NEW s \in Sessions, NEW at \in CallTimes, Resolve(s, at)
      PROVE  IInv' /\ GrowingRevisions
  BY <1>1, ResolveKeeps DEF CallTimes
<1>2. ASSUME NEW s \in Sessions, NEW at \in CallTimes, NEW i \in Attempts, NEW g \in Groups,
             BindForRoute(i, s, g, at)
      PROVE  IInv' /\ GrowingRevisions
  BY <1>2, BindKeeps DEF CallTimes
<1>3. CASE \E i \in Attempts : Rollback(i)
  BY <1>3, RollbackKeeps
<1>4. CASE \E i \in Attempts : Commit(i)
  BY <1>4, CommitKeeps
<1>5. CASE \E i \in Attempts : Invalidate(i)
  BY <1>5, InvalidateKeeps
<1>6. CASE \E i \in Attempts, status \in Statuses \cup {"none"} : Complete(i, status)
  BY <1>6, CompleteKeeps
<1>7. CASE \E i \in Attempts, p \in Responses : BindResponse(i, p)
  BY <1>7, BindResponseKeeps
<1>8. CASE \E p \in Responses : ResolveResponse(p)
  BY <1>8, ResolveResponseKeeps
<1>9. CASE \E g \in Groups : ForgetGroup(g)
  BY <1>9, ForgetGroupKeeps
<1>10. CASE PruneNow
  BY <1>10, PruneNowKeeps
<1>11. CASE Save
  BY <1>11, SaveKeeps
<1>12. CASE Restart
  BY <1>12, RestartKeeps
<1>13. CASE Tick \/ UNCHANGED vars
  <2>1. UNCHANGED <<sessions, aliases, revision, lastPrune, attempts, saved, erased>>
    BY <1>13 DEF Tick, vars
  <2>2. now' \in Times
    BY <1>13, Given, AffinityAssumption DEF Tick, vars, Times
  <2>3. Within(sessions, MaxEntries)' /\ Within(aliases, 2 * MaxEntries)'
    BY <2>1, Given DEF Within
  <2> QED
    BY <2>1, <2>2, <2>3, Given, SessionsStay, AttemptsStay, StepKeeps
<1> QED
  BY <1>1, <1>2, <1>3, <1>4, <1>5, <1>6, <1>7, <1>8, <1>9, <1>10, <1>11, <1>12, <1>13 DEF Next

(* In every reachable state revisions of attempts are distinct and issued,  *)
(* and records are within their limits.                                     *)
THEOREM Invariant == Spec => []IInv
BY InvInit, InvNext, PTL DEF Spec

(* The records and closures of session.ts keep their types.                 *)
THEOREM TypesHold == Spec => []TypeOK
<1>1. IInv => TypeOK
  BY DEF IInv
<1> QED
  BY <1>1, Invariant, PTL

(* At most one attempt of a session owns its binding, and that binding is   *)
(* the one bindForRoute made for it.                                        *)
THEOREM BindingHasOneOwner == Spec => []OneOwner
<1>1. IInv => OneOwner
  <2> SUFFICES ASSUME IInv, NEW i \in Attempts, Holds(i)
               PROVE  /\ sessions[attempts[i].session].group = attempts[i].group
                      /\ \A j \in Attempts \ {i} :
                           Holds(j) => attempts[j].session # attempts[i].session
    BY DEF OneOwner
  <2>1. sessions[attempts[i].session].group = attempts[i].group
    BY DEF IInv, OwnsItsBinding
  <2>2. ASSUME NEW j \in Attempts \ {i}, Holds(j), attempts[j].session = attempts[i].session
        PROVE  FALSE
    <3>1. attempts[j].revision = attempts[i].revision
      BY <2>2 DEF Holds, IsCurrent
    <3>2. InUse(i) /\ InUse(j)
      BY <2>2 DEF Holds, InUse
    <3> QED
      BY <3>1, <3>2 DEF IInv, Distinct
  <2> QED
    BY <2>1, <2>2
<1> QED
  BY <1>1, Invariant, PTL

(* Evidence on the prefix cache never moves to another group, whatever      *)
(* bindForRoute, rollback and recordCache do.                               *)
THEOREM EvidenceStays == Spec => []EvidenceMatchesGroup
<1>1. IInv => EvidenceMatchesGroup
  BY DEF IInv, AllEvident, Evident, EvidenceMatchesGroup
<1> QED
  BY <1>1, Invariant, PTL

(* pruneMaybe keeps both records within their limits.                       *)
THEOREM RecordsBounded == Spec => []CapacityBound
<1>1. IInv => CapacityBound
  BY DEF IInv, AllWithin, Within, CapacityBound
<1> QED
  BY <1>1, Invariant, PTL

(* While the process lives, nextRevision only raises the revision of a      *)
(* binding.                                                                 *)
THEOREM RevisionsOnlyGrow == Spec => RevisionsGrow
<1>1. IInv /\ [Next]_vars =>
        [\/ Restart
         \/ \A s \in Sessions :
              sessions'[s].group # NoGroup /\ sessions[s].group # NoGroup
              => sessions'[s].revision >= sessions[s].revision]_vars
  BY InvNext DEF GrowingRevisions
<1> QED
  BY <1>1, Invariant, PTL DEF Spec, RevisionsGrow

-----------------------------------------------------------------------------
(* The refinement of AbstractBinding.                                       *)

(* Once its response is under way, an attempt can not go back.              *)
Settled ==
  \A i \in Attempts : attempts[i].phase = "streaming" => attempts[i].previous = Unbound

LEMMA SettledNext == IInv /\ Settled /\ [Next]_vars => Settled'
<1> SUFFICES ASSUME IInv, Settled, [Next]_vars PROVE Settled'
  OBVIOUS
<1> attempts \in [Attempts -> Attempt]
  BY Given
<1>1. ASSUME NEW i \in Attempts, EndAttempt(i) PROVE Settled'
  BY <1>1, Absent DEF EndAttempt, Settled
<1>2. ASSUME NEW i \in Attempts, Commit(i) PROVE Settled'
  <2> DEFINE a == [attempts[i] EXCEPT !.phase = "streaming", !.previous = Unbound]
  <2>1. a.previous = Unbound
    BY DEF Attempt
  <2>2. attempts' = [attempts EXCEPT ![i] = a]
    BY <1>2 DEF Commit
  <2> HIDE DEF a
  <2> QED
    BY <2>1, <2>2 DEF Settled
<1>3. ASSUME NEW i \in Attempts, NEW s \in Sessions, NEW g \in Groups, NEW at \in CallTimes,
             BindForRoute(i, s, g, at)
      PROVE  Settled'
  <2> DEFINE a == [phase |-> "trying", session |-> s, group |-> g,
                   revision |-> NextRevision(sessions[s].revision), previous |-> sessions[s]]
  <2>1. a.phase = "trying" /\ attempts' = [attempts EXCEPT ![i] = a]
    BY <1>3 DEF BindForRoute
  <2> HIDE DEF a
  <2> QED
    BY <2>1 DEF Settled
<1>4. CASE UNCHANGED attempts
  BY <1>4 DEF Settled
<1>5. CASE Restart
  BY <1>5, Absent DEF Restart, Settled
<1> QED
  BY <1>1, <1>2, <1>3, <1>4, <1>5
     DEF Next, vars, Resolve, Rollback, Invalidate, Complete, BindResponse,
         ResolveResponse, ForgetGroup, PruneNow, Save, Tick

(* Pruning and forgetting drop bindings, and their owners with them.        *)
LEMMA DropMaps ==
  ASSUME IInv, \A t \in Sessions : KeepsBinding(t), UNCHANGED <<attempts, saved>>
  PROVE  Bindings!Next
<1>0. PICK lost \in SUBSET Sessions : lost = {t \in Sessions : sessions'[t] = Unbound}
  OBVIOUS
<1>1. ASSUME NEW t \in Sessions
      PROVE  sessions'[t].group = IF t \in lost THEN NoGroup ELSE sessions[t].group
  BY <1>0, Absent DEF KeepsBinding
<1>2. ASSUME NEW t \in Sessions, NEW i \in Attempts, attempts[i].session = t
      PROVE  Holds(i)' <=> t \notin lost /\ Holds(i)
  BY <1>0, <1>2, Absent DEF KeepsBinding, Holds, IsCurrent
<1>3. ASSUME NEW t \in Sessions
      PROVE  {i \in Attempts : Holds(i)' /\ attempts'[i].session = t}
               = IF t \in lost THEN {} ELSE {i \in Attempts : Holds(i) /\ attempts[i].session = t}
  BY <1>2
<1>5. Bindings!Drop(lost)
  BY <1>1, <1>3 DEF Bindings!Drop, Bindings!Dropped
<1> QED
  BY <1>5 DEF Bindings!Next

(* An attempt that ends has no session afterwards.                          *)
LEMMA EndedBefore ==
  ASSUME IInv, NEW i \in Attempts, EndAttempt(i)
  PROVE  /\ [j \in Attempts |-> attempts'[j].previous.group]
              = [[j \in Attempts |-> attempts[j].previous.group] EXCEPT ![i] = NoGroup]
         /\ attempts'[i].phase = "none"
         /\ \A j \in Attempts \ {i} : attempts'[j] = attempts[j]
<1>1. \A j \in Attempts : attempts'[j] = IF j = i THEN NoAttempt ELSE attempts[j]
  BY Given DEF EndAttempt
<1> QED
  BY <1>1, Absent

LEMMA LostMaps ==
  ASSUME IInv, NEW i \in Attempts, EndAttempt(i), ~IsCurrent(i), UNCHANGED <<sessions, saved>>
  PROVE  Bindings!Next
<1>1. ASSUME NEW j \in Attempts
      PROVE  /\ Holds(j)' <=> Holds(j)
             /\ Holds(j) => attempts'[j].session = attempts[j].session
  BY EndedBefore DEF Holds, IsCurrent
<1>2. ASSUME NEW t \in Sessions
      PROVE  {j \in Attempts : Holds(j)' /\ attempts'[j].session = t}
               = {j \in Attempts : Holds(j) /\ attempts[j].session = t}
  BY <1>1
<1>3. Bindings!Commit(i)
  BY <1>2, EndedBefore DEF Bindings!Commit
<1> QED
  BY <1>3 DEF Bindings!Next

(* The owner ends, and what it leaves behind is nobody's.                   *)
LEMMA OwnerMaps ==
  ASSUME IInv, NEW i \in Attempts, EndAttempt(i), Holds(i), UNCHANGED saved,
         NEW b, sessions' = [sessions EXCEPT ![attempts[i].session] = b],
         b \in {Unbound, sessions[attempts[i].session]} \/ b.revision > revision,
         b.group \in {attempts[i].previous.group, sessions[attempts[i].session].group}
  PROVE  Bindings!Next
<1>0. PICK s \in Sessions : s = attempts[i].session
  BY Attempting
<1> DEFINE owned(t) == {j \in Attempts : Holds(j) /\ attempts[j].session = t}
<1>1. /\ s \in Sessions /\ i \in owned(s)
      /\ \A t \in Sessions : sessions'[t] = IF t = s THEN b ELSE sessions[t]
  BY <1>0, Given
<1>2. ASSUME NEW j \in Attempts \ {i}, attempts[j].session = s
      PROVE  ~Holds(j) /\ ~Holds(j)'
  <2>1. ASSUME InUse(j)
        PROVE  attempts[j].revision # sessions[s].revision /\ attempts[j].revision <= revision
    BY <1>0, <2>1 DEF IInv, Issued, Distinct, Holds, IsCurrent, InUse
  <2>2. attempts[j].revision \in Nat /\ revision \in Nat
    BY Attempting, Given
  <2>3. ~Holds(j)
    BY <1>0, <1>2, <2>1 DEF Holds, IsCurrent, InUse
  <2>4. ASSUME Holds(j)' PROVE FALSE
    <3>1. /\ InUse(j) /\ b.group # NoGroup /\ b.revision = attempts[j].revision
      <4>1. attempts'[j] = attempts[j] /\ sessions'[s] = b
        BY <1>1, EndedBefore
      <4> QED
        BY <1>2, <2>4, <4>1 DEF Holds, IsCurrent, InUse
    <3> QED
      BY <1>0, <2>1, <2>2, <3>1, Absent
  <2> QED
    BY <2>3, <2>4
<1>3. ASSUME NEW j \in Attempts \ {i}, attempts[j].session # s
      PROVE  Holds(j)' <=> Holds(j)
  <2>1. attempts[j].session \in Sessions
    BY Attempting
  <2> QED
    BY <1>0, <1>1, <1>3, <2>1, EndedBefore DEF Holds, IsCurrent
<1>4. ~Holds(i)'
  BY EndedBefore DEF Holds
<1>5. ASSUME NEW t \in Sessions
      PROVE  {j \in Attempts : Holds(j)' /\ attempts'[j].session = t}
               = IF t = s THEN {} ELSE owned(t)
  <2>1. \A j \in Attempts \ {i} : attempts'[j].session = attempts[j].session
    BY EndedBefore
  <2>2. t # s => i \notin owned(t)
    BY <1>0
  <2> QED
    BY <1>0, <1>2, <1>3, <1>4, <2>1, <2>2
<1>6. [t \in Sessions |-> {j \in Attempts : Holds(j)' /\ attempts'[j].session = t}]
        = [[t \in Sessions |-> owned(t)] EXCEPT ![s] = {}]
  BY <1>1, <1>5
<1>7. [t \in Sessions |-> sessions'[t].group]
        = [[t \in Sessions |-> sessions[t].group] EXCEPT ![s] = b.group]
  <2>1. ASSUME NEW t \in Sessions
        PROVE  sessions'[t].group = IF t = s THEN b.group ELSE sessions[t].group
    BY <1>1
  <2> QED
    BY <2>1
<1>8. CASE b.group = attempts[i].previous.group
  <2>1. Bindings!GiveBack(i, s)
    BY <1>1, <1>6, <1>7, <1>8, EndedBefore DEF Bindings!GiveBack
  <2> QED
    BY <1>1, <2>1 DEF Bindings!Next
<1>9. CASE b.group = sessions[s].group
  <2>1. [t \in Sessions |-> sessions'[t].group] = [t \in Sessions |-> sessions[t].group]
    BY <1>1, <1>9
  <2>2. Bindings!Leave(i, s)
    BY <1>1, <1>6, <2>1, EndedBefore DEF Bindings!Leave
  <2> QED
    BY <1>1, <2>2 DEF Bindings!Next
<1> QED
  BY <1>0, <1>8, <1>9

LEMMA UnboundMaps ==
  ASSUME IInv, NEW i \in Attempts, EndAttempt(i), Holds(i), UNCHANGED saved,
         sessions' = Without(sessions, {attempts[i].session}, Unbound),
         attempts[i].previous.group = NoGroup
  PROVE  Bindings!Next
<1>1. sessions' = [sessions EXCEPT ![attempts[i].session] = Unbound]
  BY Given DEF Without
<1> QED
  BY <1>1, Absent, OwnerMaps

LEMMA RollbackMaps ==
  ASSUME IInv, NEW i \in Attempts, Rollback(i)
  PROVE  Bindings!Next
<1> DEFINE s == attempts[i].session
           previous == attempts[i].previous
           next == NextRevision(attempts[i].revision)
<1>1. EndAttempt(i) /\ UNCHANGED saved /\ attempts[i].phase # "none"
  BY DEF Rollback
<1>2. CASE ~IsCurrent(i)
  BY <1>1, <1>2, LostMaps DEF Rollback
<1>3. CASE IsCurrent(i) /\ previous.group = NoGroup
  BY <1>1, <1>3, UnboundMaps DEF Rollback, Holds
<1>4. CASE IsCurrent(i) /\ previous.group # NoGroup
  <2> DEFINE b == [previous EXCEPT !.revision = next]
  <2>1. next \in Nat /\ next > revision /\ previous \in Binding
    BY Attempting, NextRevisionHigher
  <2>2. b.group = previous.group /\ b.revision = next
    BY <2>1 DEF Binding
  <2>3. sessions' = [sessions EXCEPT ![s] = b]
    BY <1>4 DEF Rollback
  <2> HIDE DEF b, next
  <2>4. b.revision > revision
    BY <2>1, <2>2
  <2> QED
    BY <1>1, <1>4, <2>2, <2>3, <2>4, OwnerMaps DEF Holds
<1> QED
  BY <1>2, <1>3, <1>4

LEMMA InvalidateMaps ==
  ASSUME IInv, Settled, NEW i \in Attempts, Invalidate(i)
  PROVE  Bindings!Next
<1>1. EndAttempt(i) /\ UNCHANGED saved /\ attempts[i].phase = "streaming"
  BY DEF Invalidate
<1>2. attempts[i].previous.group = NoGroup
  BY <1>1, Absent DEF Settled
<1>3. CASE IsCurrent(i)
  BY <1>1, <1>2, <1>3, UnboundMaps DEF Invalidate, Holds
<1>4. CASE ~IsCurrent(i)
  BY <1>1, <1>4, LostMaps DEF Invalidate
<1> QED
  BY <1>3, <1>4

LEMMA CompleteMaps ==
  ASSUME IInv, NEW i \in Attempts, NEW status \in Statuses \cup {"none"},
         Complete(i, status)
  PROVE  Bindings!Next
<1> DEFINE s == attempts[i].session
           next == NextRevision(sessions[s].revision)
<1>1. EndAttempt(i) /\ UNCHANGED saved /\ attempts[i].phase = "streaming"
  BY DEF Complete
<1>2. CASE ~IsCurrent(i)
  BY <1>1, <1>2, LostMaps DEF Complete
<1>3. CASE IsCurrent(i) /\ UNCHANGED sessions
  <2>1. sessions' = [sessions EXCEPT ![s] = sessions[s]]
    BY <1>3, Given
  <2> QED
    BY <1>1, <1>3, <2>1, OwnerMaps DEF Holds
<1>4. CASE IsCurrent(i) /\ status # "none"
  <2> DEFINE b == [sessions[s] EXCEPT !.revision = next, !.cache = <<status, attempts[i].group>>]
  <2>1. sessions[s] \in Binding /\ sessions[s].revision \in Nat
    BY Attempting, BindingFields
  <2>2. next \in Nat /\ next > revision
    BY <2>1, NextRevisionHigher
  <2>3. b.group = sessions[s].group /\ b.revision = next
    BY <2>1 DEF Binding
  <2>4. sessions' = [sessions EXCEPT ![s] = b]
    BY <1>4 DEF Complete
  <2> HIDE DEF b, next
  <2>5. b.revision > revision
    BY <2>2, <2>3
  <2> QED
    BY <1>1, <1>4, <2>3, <2>4, <2>5, OwnerMaps DEF Holds
<1> QED
  BY <1>2, <1>3, <1>4 DEF Complete

LEMMA CommitMaps ==
  ASSUME IInv, NEW i \in Attempts, Commit(i)
  PROVE  Bindings!Next
<1> DEFINE a == [attempts[i] EXCEPT !.phase = "streaming", !.previous = Unbound]
<1>1. attempts[i] \in Attempt /\ attempts[i].phase = "trying"
  BY Attempting DEF Commit
<1>2. /\ a.phase = "streaming" /\ a.session = attempts[i].session
      /\ a.revision = attempts[i].revision /\ a.previous = Unbound
  BY <1>1 DEF Attempt
<1>3. attempts' = [attempts EXCEPT ![i] = a] /\ UNCHANGED <<sessions, saved>>
  BY DEF Commit
<1> HIDE DEF a
<1>4. \A j \in Attempts : attempts'[j] = IF j = i THEN a ELSE attempts[j]
  BY <1>3, Given
<1>5. ASSUME NEW j \in Attempts
      PROVE  attempts'[j].session = attempts[j].session /\ (Holds(j)' <=> Holds(j))
  BY <1>1, <1>2, <1>3, <1>4 DEF Holds, IsCurrent
<1>6. [j \in Attempts |-> attempts'[j].previous.group]
        = [[j \in Attempts |-> attempts[j].previous.group] EXCEPT ![i] = NoGroup]
  BY <1>2, <1>4, Absent
<1>7. ASSUME NEW t \in Sessions
      PROVE  {j \in Attempts : Holds(j)' /\ attempts'[j].session = t}
               = {j \in Attempts : Holds(j) /\ attempts[j].session = t}
  BY <1>5
<1>8. Bindings!Commit(i)
  BY <1>3, <1>6, <1>7 DEF Bindings!Commit
<1> QED
  BY <1>8 DEF Bindings!Next

(* A new attempt takes the session; pruning may drop any binding with it.   *)
LEMMA BindMaps ==
  ASSUME IInv, NEW i \in Attempts, NEW s \in Sessions, NEW g \in Groups, NEW at \in Times,
         BindForRoute(i, s, g, at)
  PROVE  Bindings!Next
<1>0. PICK lost \in SUBSET Sessions : lost = {t \in Sessions : sessions'[t] = Unbound}
  OBVIOUS
<1> DEFINE previous == sessions[s]
           next == NextRevision(previous.revision)
           b == [group |-> g, used |-> at, revision |-> next,
                 cache |-> IF previous.group = g THEN previous.cache ELSE NoEvidence]
           bound == [sessions EXCEPT ![s] = b]
           a == [phase |-> "trying", session |-> s, group |-> g,
                 revision |-> next, previous |-> previous]
           owned(t) == {j \in Attempts : Holds(j) /\ attempts[j].session = t}
<1>1. previous \in Binding /\ previous.revision \in Nat /\ previous.cache \in Evidence
  BY Given, BindingFields
<1>2. next \in Nat /\ next > revision
  BY <1>1, NextRevisionHigher
<1>3. PICK kept \in PruneMaybe(bound, aliases, at) : sessions' = kept[1]
  BY DEF BindForRoute, Install
<1>4. /\ attempts' = [attempts EXCEPT ![i] = a] /\ UNCHANGED saved
      /\ attempts[i].phase = "none"
  BY DEF BindForRoute
<1> HIDE DEF next
<1>5. b \in Binding /\ b.group = g /\ b.revision = next
  <2>1. b.cache \in Evidence
    BY <1>1 DEF Evidence
  <2> QED
    BY <1>2, <2>1 DEF Binding
<1>6. a.phase = "trying" /\ a.session = s /\ a.revision = next /\ a.previous = previous
  OBVIOUS
<1>7. IsFiniteSet(Present(bound))
  BY Given, OneMorePresent
<1> HIDE DEF a, b
<1>8. /\ bound \in [Sessions -> Binding]
      /\ \A t \in Sessions : bound[t] = IF t = s THEN b ELSE sessions[t]
  BY <1>5, Given
<1> HIDE DEF bound
<1>9. \A t \in Sessions : sessions'[t] \in {bound[t], Unbound}
  BY <1>3, <1>7, <1>8, Given, PruneShrinks
<1>10. \A j \in Attempts : attempts'[j] = IF j = i THEN a ELSE attempts[j]
  BY <1>4, Given
<1>11. g # NoGroup
  BY AffinityAssumption
<1>12. ASSUME NEW t \in Sessions
       PROVE  sessions'[t].group = IF t \in lost THEN NoGroup ELSE bound[t].group
  BY <1>0, <1>9, Absent
<1>13. ASSUME NEW j \in Attempts, NEW t \in Sessions, attempts'[j].session = t
       PROVE  Holds(j)' <=> /\ t \notin lost
                            /\ IF t = s THEN j = i
                                        ELSE j # i /\ Holds(j)
  <2>1. CASE j = i
    <3>1. t = s
      BY <1>6, <1>10, <1>13, <2>1
    <3>2. t \in lost => ~Holds(j)'
      BY <1>0, <1>13, Absent DEF Holds, IsCurrent
    <3>3. t \notin lost => sessions'[s] = b
      BY <1>0, <1>8, <1>9, <3>1
    <3>4. t \notin lost => Holds(j)'
      BY <1>5, <1>6, <1>10, <1>11, <1>13, <2>1, <3>1, <3>3 DEF Holds, IsCurrent
    <3> QED
      BY <2>1, <3>1, <3>2, <3>4
  <2>2. CASE j # i
    <3>1. attempts'[j] = attempts[j] /\ attempts[j].session = t
      BY <1>10, <1>13, <2>2
    <3>2. t \in lost => ~Holds(j)'
      BY <1>0, <1>13, Absent DEF Holds, IsCurrent
    <3>3. CASE t # s /\ t \notin lost
      <4>1. sessions'[t] = sessions[t]
        BY <1>0, <1>8, <1>9, <3>3
      <4>2. Holds(j)' <=> Holds(j)
        BY <3>1, <4>1 DEF Holds, IsCurrent
      <4> QED
        BY <2>2, <3>3, <4>2
    <3>4. CASE t = s /\ t \notin lost
      <4>1. sessions'[t].revision = next
        BY <1>0, <1>5, <1>8, <1>9, <3>4
      <4>2. InUse(j) => attempts[j].revision <= revision
        BY DEF IInv, Issued
      <4>3. attempts[j].revision \in Nat /\ revision \in Nat
        BY Attempting, Given
      <4>4. InUse(j) => attempts[j].revision # next
        BY <1>2, <4>2, <4>3
      <4>5. ~Holds(j)'
        BY <3>1, <4>1, <4>4 DEF Holds, IsCurrent, InUse
      <4> QED
        BY <2>2, <3>4, <4>5
    <3> QED
      BY <3>2, <3>3, <3>4
  <2> QED
    BY <2>1, <2>2
<1>14. ASSUME NEW t \in Sessions
       PROVE  {j \in Attempts : Holds(j)' /\ attempts'[j].session = t}
                = IF t \in lost THEN {} ELSE IF t = s THEN {i} ELSE owned(t)
  <2>1. attempts'[i].session = s
    BY <1>6, <1>10
  <2>2. \A j \in Attempts \ {i} : attempts'[j].session = attempts[j].session
    BY <1>10
  <2>3. ~Holds(i)
    BY <1>4 DEF Holds
  <2> QED
    BY <1>13, <2>1, <2>2, <2>3
<1>15. \A t \in Sessions : i \notin owned(t)
  BY <1>4 DEF Holds
<1>16. [t \in Sessions |-> sessions'[t].group]
         = [t \in Sessions |-> IF t \in lost THEN NoGroup
                               ELSE [[u \in Sessions |-> sessions[u].group] EXCEPT ![s] = g][t]]
  BY <1>5, <1>8, <1>12
<1>17. [t \in Sessions |-> {j \in Attempts : Holds(j)' /\ attempts'[j].session = t}]
         = [t \in Sessions |-> IF t \in lost THEN {}
                               ELSE [[u \in Sessions |-> owned(u)] EXCEPT ![s] = {i}][t]]
  BY <1>14
<1>18. [j \in Attempts |-> attempts'[j].previous.group]
         = [[j \in Attempts |-> attempts[j].previous.group] EXCEPT ![i] = sessions[s].group]
  BY <1>6, <1>10
<1>19. Bindings!Take(i, s, g)
  BY <1>4, <1>15, <1>16, <1>17, <1>18 DEF Bindings!Take, Bindings!Dropped
<1> QED
  BY <1>19 DEF Bindings!Next

LEMMA RestartMaps ==
  ASSUME IInv, Restart
  PROVE  Bindings!Next
<1>1. \A j \in Attempts : attempts'[j] = NoAttempt
  BY DEF Restart
<1>2. \A j \in Attempts : ~Holds(j)' /\ attempts'[j].previous.group = NoGroup
  BY <1>1, Absent DEF Holds
<1>3. sessions' = saved[1] /\ UNCHANGED saved
  BY DEF Restart
<1>4. \A t \in Sessions : {j \in Attempts : Holds(j)' /\ attempts'[j].session = t} = {}
  BY <1>2
<1>5. Bindings!Restart
  BY <1>2, <1>3, <1>4 DEF Bindings!Restart
<1> QED
  BY <1>5 DEF Bindings!Next

(* Whatever concurrent attempts of a session do, and whatever pruning and   *)
(* restarts take away, a session has at most one owner, only it gives the   *)
(* session back, and losers change nothing (bindForRoute, session.ts:233).  *)
THEOREM ImplementsAbstractBinding == Spec => RefinesAbstractBinding
<1>1. Init => Settled /\ Bindings!Init
  <2> SUFFICES ASSUME Init PROVE Settled /\ Bindings!Init
    OBVIOUS
  <2>1. \A i \in Attempts : attempts[i] = NoAttempt
    BY DEF Init
  <2>2. \A i \in Attempts : ~Holds(i) /\ attempts[i].previous = Unbound
    BY <2>1, Absent DEF Holds
  <2>3. /\ saved[1] = sessions
        /\ \A t \in Sessions : sessions[t].group = NoGroup
    BY Absent DEF Init
  <2>4. \A t \in Sessions : {i \in Attempts : Holds(i) /\ attempts[i].session = t} = {}
    BY <2>2
  <2> QED
    BY <2>2, <2>3, <2>4, Absent DEF Settled, Bindings!Init
<1>2. IInv /\ Settled /\ [Next]_vars => [Bindings!Next]_(Bindings!vars)
  <2> SUFFICES ASSUME IInv, Settled, [Next]_vars PROVE [Bindings!Next]_(Bindings!vars)
    OBVIOUS
  <2>1. ASSUME NEW s \in Sessions, NEW at \in CallTimes, Resolve(s, at)
        PROVE  Bindings!Next
    BY <2>1, ResolveKeeps, DropMaps DEF CallTimes, Resolve
  <2>2. ASSUME NEW s \in Sessions, NEW at \in CallTimes, NEW i \in Attempts, NEW g \in Groups,
               BindForRoute(i, s, g, at)
        PROVE  Bindings!Next
    BY <2>2, BindMaps DEF CallTimes
  <2>3. ASSUME NEW i \in Attempts, Rollback(i) \/ Commit(i) \/ Invalidate(i)
        PROVE  Bindings!Next
    BY <2>3, RollbackMaps, CommitMaps, InvalidateMaps
  <2>4. ASSUME NEW i \in Attempts, NEW status \in Statuses \cup {"none"}, Complete(i, status)
        PROVE  Bindings!Next
    BY <2>4, CompleteMaps
  <2>5. ASSUME NEW i \in Attempts, NEW p \in Responses, BindResponse(i, p)
        PROVE  Bindings!Next
    BY <2>5, BindResponseKeeps, DropMaps DEF BindResponse
  <2>6. ASSUME NEW p \in Responses, ResolveResponse(p)
        PROVE  Bindings!Next
    BY <2>6, ResolveResponseKeeps, DropMaps DEF ResolveResponse
  <2>7. ASSUME NEW g \in Groups, ForgetGroup(g)
        PROVE  Bindings!Next
    BY <2>7, ForgetGroupKeeps, DropMaps DEF ForgetGroup
  <2>8. CASE PruneNow
    BY <2>8, PruneNowKeeps, DropMaps DEF PruneNow
  <2>9. CASE Save
    <3>1. saved'[1] = sessions /\ UNCHANGED <<sessions, attempts>>
      BY <2>9 DEF Save
    <3>2. \A j \in Attempts : Holds(j)' <=> Holds(j)
      BY <3>1 DEF Holds, IsCurrent
    <3>3. Bindings!Save
      BY <3>1, <3>2 DEF Bindings!Save
    <3> QED
      BY <3>3 DEF Bindings!Next
  <2>10. CASE Restart
    BY <2>10, RestartMaps
  <2>11. CASE Tick \/ UNCHANGED vars
    <3>1. UNCHANGED <<sessions, attempts, saved>>
      BY <2>11 DEF Tick, vars
    <3>2. \A j \in Attempts : Holds(j)' <=> Holds(j)
      BY <3>1 DEF Holds, IsCurrent
    <3> QED
      BY <3>1, <3>2 DEF Bindings!vars
  <2> QED
    BY <2>1, <2>2, <2>3, <2>4, <2>5, <2>6, <2>7, <2>8, <2>9, <2>10, <2>11 DEF Next
<1> QED
  BY <1>1, <1>2, SettledNext, Invariant, PTL DEF Spec, RefinesAbstractBinding, Bindings!Spec
=============================================================================
