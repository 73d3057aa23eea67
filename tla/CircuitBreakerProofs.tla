------------------------ MODULE CircuitBreakerProofs ------------------------
(***************************************************************************)
(* Theorems about CircuitBreaker, for any groups, thresholds, windows,     *)
(* cooldowns and lags.                                                     *)
(*                                                                         *)
(* The invariant is local to one breaker: Good(b, t) says that b is well   *)
(* typed, that a closed breaker carries nothing over from an outage and    *)
(* that an outage can be timed at instant t.  Each helper of the code is   *)
(* shown to keep it, whatever the time argument its caller captured; the   *)
(* actions then only apply helpers to the live breakers, copy live         *)
(* breakers to the saved ones, or back.                                    *)
(***************************************************************************)
EXTENDS CircuitBreaker, FiniteSets, FiniteSetTheorems, TLAPS

Timed(b, t) ==
  /\ b.state # "closed" => b.openedAt \in 0 .. t /\ b.openCount > 0
  /\ b.probe => b.state = "half-open"

Good(b, t) == b \in Breaker /\ ClosedClean(b) /\ Timed(b, t)

Inv ==
  /\ TypeOK
  /\ \A g \in Groups : Good(groups[g], now) /\ Good(saved[g], now)

-----------------------------------------------------------------------------
(* The helpers.                                                             *)

LEMMA RecentWindow ==
  ASSUME NEW w \in Window, NEW at \in Times
  PROVE  Recent(w, at) \in Window
  BY BreakerAssumption DEF Recent, Window, Times

LEMMA CooldownInt ==
  ASSUME NEW b \in Breaker
  PROVE  CooldownMs(b) \in Int
<1>. DEFINE exp == IF b.openCount > 1 THEN b.openCount - 1 ELSE 0
<1>1. b.openCount \in Nat
  BY DEF Breaker
<1>2. exp \in Nat
  BY <1>1
<1>3. 2 ^ exp \in Int
  <2>. HIDE DEF exp
  <2>. QED BY <1>2, SMT
<1>. QED BY <1>3, BreakerAssumption DEF CooldownMs

(* Pure fields of a fresh breaker: it is good at any instant.               *)
LEMMA FreshGood ==
  ASSUME NEW t \in Times
  PROVE  Good(FreshBreaker, t)
<1>1. EmptyWindow \in Window
  BY DEF EmptyWindow, Window
<1>. QED
  BY <1>1, BreakerAssumption
  DEF Good, Timed, ClosedClean, FreshBreaker, Breaker, States

LEMMA LaterGood ==
  ASSUME NEW b, NEW t \in Int, NEW u \in Int, t <= u, Good(b, t)
  PROVE  Good(b, u)
  BY DEF Good, Timed

(* refresh: only a cooled open group changes state, to half-open with its   *)
(* slot free; the rest of the outage stays.                                 *)
LEMMA RefreshFields ==
  ASSUME NEW b \in Breaker, NEW at \in Times
  PROVE  LET r == Refresh(b, at) IN
         /\ r \in Breaker
         /\ r.state = IF Cooled(b, at) THEN "half-open" ELSE b.state
         /\ r.probe = (b.probe /\ ~Cooled(b, at))
         /\ r.consecutive = b.consecutive
         /\ r.openedAt = b.openedAt
         /\ r.openCount = b.openCount
<1>1. Recent(b.window, at) \in Window
  BY RecentWindow DEF Breaker
<1>2. Cooled(b, at) \in BOOLEAN
  BY DEF Cooled
<1>3. (b.probe /\ ~Cooled(b, at)) \in BOOLEAN
  BY <1>2 DEF Breaker
<1>. HIDE DEF Cooled, Recent
<1>. QED
  BY <1>1, <1>2, <1>3 DEF Refresh, Breaker, States

LEMMA RefreshGood ==
  ASSUME NEW b, NEW at \in Times, NEW t \in Times, Good(b, t)
  PROVE  Good(Refresh(b, at), t)
<1>1. b \in Breaker /\ ClosedClean(b) /\ Timed(b, t)
  BY DEF Good
<1>2. Cooled(b, at) => b.state = "open"
  BY DEF Cooled
<1>. QED
  BY <1>1, <1>2, RefreshFields DEF Good, Timed, ClosedClean, Breaker

LEMMA AskedGood ==
  ASSUME NEW b, NEW at \in Times, NEW t \in Times, Good(b, t)
  PROVE  Good(Asked(b, at), t)
<1>. DEFINE r == Refresh(b, at)
<1>1. Good(r, t)
  BY RefreshGood
<1>2. r \in Breaker
  BY <1>1 DEF Good
<1>3. (r.probe \/ r.state = "half-open") \in BOOLEAN
  BY <1>2 DEF Breaker
<1>4. Asked(b, at) = [r EXCEPT !.probe = r.probe \/ r.state = "half-open"]
  BY DEF Asked
<1>. HIDE DEF r
<1>. QED
  BY <1>1, <1>2, <1>3, <1>4 DEF Good, Timed, ClosedClean, Breaker

LEMMA ReleasedGood ==
  ASSUME NEW b, NEW at \in Times, NEW t \in Times, Good(b, t)
  PROVE  Good(Released(b, at), t) /\ ~Released(b, at).probe
<1>. DEFINE r == Refresh(b, at)
<1>1. Good(r, t)
  BY RefreshGood
<1>2. r \in Breaker
  BY <1>1 DEF Good
<1>3. (r.probe /\ r.state # "half-open") \in BOOLEAN
  BY <1>2 DEF Breaker
<1>4. Released(b, at) = [r EXCEPT !.probe = r.probe /\ r.state # "half-open"]
  BY DEF Released
<1>. HIDE DEF r
<1>. QED
  BY <1>1, <1>2, <1>3, <1>4 DEF Good, Timed, ClosedClean, Breaker

(* One more outcome in the window leaves it a window.                       *)
LEMMA CountedWindow ==
  ASSUME NEW w \in Window, NEW at \in Times
  PROVE  /\ [w EXCEPT ![at].ok = @ + 1] \in Window
         /\ [w EXCEPT ![at].fail = @ + 1] \in Window
         /\ [w EXCEPT ![at].ok = 1] \in Window
  BY DEF Window

(* The fields of an updated record.                                         *)
Counted(b, w, c) == [b EXCEPT !.window = w, !.consecutive = c]

LEMMA CountedFields ==
  ASSUME NEW b \in Breaker, NEW w \in Window, NEW c \in Nat
  PROVE  LET u == Counted(b, w, c) IN
         /\ u \in Breaker
         /\ u.state = b.state /\ u.probe = b.probe
         /\ u.openedAt = b.openedAt /\ u.openCount = b.openCount
         /\ u.consecutive = c /\ u.window = w
  BY Zenon DEF Counted, Breaker

LEMMA TrippedFields ==
  ASSUME NEW b \in Breaker, NEW at \in Times
  PROVE  LET u == Tripped(b, at) IN
         /\ u \in Breaker
         /\ u.state = "open" /\ u.probe = FALSE
         /\ u.openedAt = at /\ u.openCount = b.openCount + 1
<1>1. b.openCount + 1 \in Nat
  BY DEF Breaker
<1>. QED BY <1>1, Zenon DEF Tripped, Breaker, States

(* recordSuccess closes a half-open group from scratch, and otherwise only  *)
(* forgets its consecutive failures.  Like every report, it leaves the      *)
(* probe slot free.                                                         *)
LEMMA SucceededGood ==
  ASSUME NEW b, NEW at \in Times, NEW t \in Times, Good(b, t)
  PROVE  Good(Succeeded(b, at), t) /\ ~Succeeded(b, at).probe
<1>. DEFINE r == Refresh(b, at)
<1>1. Good(r, t) /\ r \in Breaker
  BY RefreshGood DEF Good
<1>2. CASE r.state = "half-open"
  <2>1. Succeeded(b, at) = [FreshBreaker EXCEPT !.window[at].ok = 1]
    BY <1>2 DEF Succeeded
  <2>2. FreshBreaker \in Breaker /\ Good(FreshBreaker, t)
    BY FreshGood DEF Good
  <2>3. [FreshBreaker.window EXCEPT ![at].ok = 1] \in Window
    BY <2>2, CountedWindow DEF Breaker
  <2>. HIDE DEF r
  <2>. QED
    BY <2>1, <2>2, <2>3 DEF Good, Timed, ClosedClean, Breaker, FreshBreaker
<1>3. CASE r.state # "half-open"
  <2>. DEFINE w == [r.window EXCEPT ![at].ok = @ + 1]
              u == Counted(r, w, 0)
  <2>1. Succeeded(b, at) = u
    BY <1>3, Zenon DEF Succeeded, Counted
  <2>2. w \in Window
    BY <1>1, CountedWindow DEF Breaker
  <2>. HIDE DEF r, w
  <2>3. /\ u \in Breaker
        /\ u.state = r.state /\ u.probe = r.probe
        /\ u.openedAt = r.openedAt /\ u.openCount = r.openCount
        /\ u.consecutive = 0
    BY <1>1, <2>2, CountedFields
  <2>. HIDE DEF u
  <2>4. ~u.probe
    BY <1>1, <1>3, <2>3 DEF Good, Timed
  <2>. QED
    BY <1>1, <2>1, <2>3, <2>4, BreakerAssumption DEF Good, Timed, ClosedClean
<1>. QED BY <1>2, <1>3

(* recordFailure trips a half-open group and a closed one that failed too   *)
(* often; a closed group it leaves closed is still below the threshold.     *)
LEMMA FailedGood ==
  ASSUME NEW b, NEW at \in Times, NEW t \in Times, at <= t, Good(b, t)
  PROVE  Good(Failed(b, at), t) /\ ~Failed(b, at).probe
<1>. DEFINE r == Refresh(b, at)
            w == [r.window EXCEPT ![at].fail = @ + 1]
            f == Counted(r, w, r.consecutive + 1)
            trip == \/ f.state = "half-open"
                    \/ /\ f.state = "closed"
                       /\ f.consecutive >= Threshold \/ RateTrip(f.window)
<1>1. Good(r, t) /\ r \in Breaker
  BY RefreshGood DEF Good
<1>2. Failed(b, at) = IF trip THEN Tripped(f, at) ELSE f
  BY Zenon DEF Failed, Counted
<1>. HIDE DEF r
<1>3. w \in Window
  <2>1. r.window \in Window
    BY <1>1 DEF Breaker
  <2>. QED BY <2>1, CountedWindow
<1>. HIDE DEF w
<1>4. /\ f \in Breaker
      /\ f.state = r.state /\ f.probe = r.probe
      /\ f.openedAt = r.openedAt /\ f.openCount = r.openCount
      /\ f.consecutive = r.consecutive + 1
  <2>1. r.consecutive + 1 \in Nat
    BY <1>1 DEF Breaker
  <2>. QED BY <1>1, <1>3, <2>1, CountedFields
<1>. HIDE DEF f
<1>5. CASE trip
  <2>. DEFINE u == Tripped(f, at)
  <2>1. Failed(b, at) = u
    BY <1>2, <1>5
  <2>2. /\ u \in Breaker
        /\ u.state = "open" /\ u.probe = FALSE
        /\ u.openedAt = at /\ u.openCount = f.openCount + 1
    BY <1>4, TrippedFields
  <2>3. f.openCount \in Nat
    BY <1>4 DEF Breaker
  <2>. HIDE DEF u
  <2>. QED
    BY <2>1, <2>2, <2>3, BreakerAssumption DEF Good, Timed, ClosedClean, Times
<1>6. CASE ~trip
  <2>1. Failed(b, at) = f
    BY <1>2, <1>6
  <2>2. f.consecutive \in Nat
    BY <1>4 DEF Breaker
  <2>3. f.state = "closed" => f.consecutive < Threshold
    BY <2>2, <1>6, BreakerAssumption
  <2>4. f.state # "half-open"
    BY <1>6
  <2>. HIDE DEF trip
  <2>5. ~f.probe
    BY <1>1, <1>4, <2>4 DEF Good, Timed
  <2>. QED
    BY <1>1, <1>4, <2>1, <2>3, <2>5 DEF Good, Timed, ClosedClean
<1>. QED BY <1>5, <1>6

LEMMA SerializedGood ==
  ASSUME NEW b, NEW t \in Times, Good(b, t)
  PROVE  Good(Serialized(b), t) /\ ~Serialized(b).probe
  BY DEF Good, Timed, ClosedClean, Serialized, Breaker

-----------------------------------------------------------------------------
(* The actions.                                                             *)

(* A step at one instant that leaves every breaker good keeps the invariant.*)
LEMMA StepGood ==
  ASSUME Inv,
         groups' \in [Groups -> Breaker],
         saved' \in [Groups -> Breaker],
         \A g \in Groups : Good(groups'[g], now) /\ Good(saved'[g], now),
         UNCHANGED now
  PROVE  Inv'
  BY DEF Inv, TypeOK, Good, Timed, ClosedClean

(* A method call that turns the breaker of one group into a good one.       *)
LEMMA CallGood ==
  ASSUME Inv, NEW g \in Groups, NEW b, Good(b, now),
         groups' = [groups EXCEPT ![g] = b],
         UNCHANGED <<saved, now>>
  PROVE  Inv'
<1>1. groups' \in [Groups -> Breaker]
  BY DEF Inv, TypeOK, Good
<1>2. \A h \in Groups : Good(groups'[h], now)
  BY DEF Inv, TypeOK
<1>. QED
  BY <1>1, <1>2, StepGood DEF Inv, TypeOK

LEMMA InitInv == Init => Inv
<1>. SUFFICES ASSUME Init PROVE Inv
  OBVIOUS
<1>1. now \in Times
  BY BreakerAssumption DEF Init, Times
<1>2. Good(FreshBreaker, now)
  BY <1>1, FreshGood
<1>. QED
  BY <1>1, <1>2 DEF Init, Inv, TypeOK, Good

LEMMA NextInv == Inv /\ [Next]_vars => Inv'
<1>. SUFFICES ASSUME Inv, [Next]_vars PROVE Inv'
  OBVIOUS
<1>. USE DEF CallTimes
<1>0. /\ now \in Times
      /\ groups \in [Groups -> Breaker] /\ saved \in [Groups -> Breaker]
      /\ \A g \in Groups : Good(groups[g], now) /\ Good(saved[g], now)
  BY DEF Inv, TypeOK
<1>1. ASSUME NEW g \in Groups, NEW at \in CallTimes, AllowRequest(g, at)
      PROVE  Inv'
  BY <1>0, <1>1, AskedGood, CallGood DEF AllowRequest
<1>2. ASSUME NEW g \in Groups, NEW at \in CallTimes, ReleaseRequest(g, at)
      PROVE  Inv'
  BY <1>0, <1>2, ReleasedGood, CallGood DEF ReleaseRequest
<1>3. ASSUME NEW g \in Groups, NEW at \in CallTimes, IsTripped(g, at)
      PROVE  Inv'
  BY <1>0, <1>3, RefreshGood, CallGood DEF IsTripped
<1>4. ASSUME NEW at \in CallTimes, Snapshot(at)
      PROVE  Inv'
  <2>1. \A g \in Groups : Good(Refresh(groups[g], at), now)
    BY <1>0, RefreshGood
  <2>. QED
    BY <1>0, <1>4, <2>1, StepGood DEF Snapshot, Good
<1>5. ASSUME NEW g \in Groups, RecordSuccess(g)
      PROVE  Inv'
  BY <1>0, <1>5, SucceededGood, CallGood DEF RecordSuccess
<1>6. ASSUME NEW g \in Groups, RecordFailure(g)
      PROVE  Inv'
  <2>1. Good(Failed(groups[g], now), now)
    BY <1>0, FailedGood DEF Times
  <2>. QED
    BY <1>6, <2>1, CallGood DEF RecordFailure
<1>7. CASE ToJSON
  <2>1. \A g \in Groups : Good(Serialized(groups[g]), now)
    BY <1>0, SerializedGood
  <2>. QED
    BY <1>0, <1>7, <2>1, StepGood DEF ToJSON, Good
<1>8. CASE FromJSON
  BY <1>0, <1>8, StepGood DEF FromJSON
<1>9. CASE Tick
  <2>1. now' \in Times /\ now <= now'
    BY <1>0, <1>9, BreakerAssumption DEF Tick, Times
  <2>2. \A g \in Groups : Good(groups[g], now') /\ Good(saved[g], now')
    BY <1>0, <2>1, LaterGood DEF Times
  <2>. QED
    BY <1>0, <1>9, <2>1, <2>2 DEF Tick, Inv, TypeOK, Good, Timed, ClosedClean
<1>10. CASE UNCHANGED vars
  BY <1>0, <1>10, StepGood DEF vars
<1>. QED
  BY <1>1, <1>2, <1>3, <1>4, <1>5, <1>6, <1>7, <1>8, <1>9, <1>10 DEF Next

-----------------------------------------------------------------------------
(* The theorems.                                                            *)

(* Every breaker, live or saved, stays good whatever is called and whenever *)
(* the process restarts from its saved copy.                                *)
THEOREM BreakersStayGood == Spec => []Inv
  BY InitInv, NextInv, PTL DEF Spec

(* The variables keep their types: windows of counts, known states, opening *)
(* times that are instants.                                                 *)
THEOREM TypeCorrect == Spec => []TypeOK
<1>1. Inv => TypeOK
  BY DEF Inv
<1>. QED BY <1>1, BreakersStayGood, PTL

(* A closed group carries nothing over from an outage and has fewer         *)
(* consecutive failures than trip it, live and in the saved copy.           *)
THEOREM ClosedStaysClean == Spec => []ClosedIsClean
<1>1. Inv => ClosedIsClean
  BY DEF Inv, Good, ClosedIsClean
<1>. QED BY <1>1, BreakersStayGood, PTL

(* Every outage, live and saved, knows since when it lasts, so that refresh *)
(* can end it, and only a half-open group lends a probe slot.               *)
THEOREM OutageStaysTimed == Spec => []OutageIsTimed
<1>1. Inv => OutageIsTimed
  BY DEF Inv, Good, Timed, OutageIsTimed, OutageTimed
<1>. QED BY <1>1, BreakersStayGood, PTL

-----------------------------------------------------------------------------
(* The cooldown of an open group.                                           *)

SameOutage(b, c) ==
  /\ c.state = "open"
  /\ c.openedAt = b.openedAt
  /\ c.openCount = b.openCount

(* No helper called with a time up to t touches an outage that cools at t.  *)
LEMMA CoolingKept ==
  ASSUME NEW b, NEW t \in Times, NEW at \in Times, at <= t, Good(b, t),
         b.state = "open", t - b.openedAt < CooldownMs(b)
  PROVE  /\ SameOutage(b, Refresh(b, at))
         /\ SameOutage(b, Asked(b, at))
         /\ SameOutage(b, Released(b, at))
         /\ SameOutage(b, Succeeded(b, at))
         /\ SameOutage(b, Failed(b, at))
<1>. DEFINE r == Refresh(b, at)
<1>1. b \in Breaker /\ b.openedAt \in Int
  BY DEF Good, Timed
<1>2. ~Cooled(b, at)
  BY <1>1, CooldownInt DEF Cooled, Times
<1>3. /\ r \in Breaker
      /\ r.state = "open" /\ r.openedAt = b.openedAt /\ r.openCount = b.openCount
  BY <1>1, <1>2, RefreshFields
<1>. HIDE DEF r
<1>4. SameOutage(b, r)
  BY <1>3 DEF SameOutage
<1>5. SameOutage(b, Asked(b, at)) /\ SameOutage(b, Released(b, at))
  <2>1. Asked(b, at) = [r EXCEPT !.probe = r.probe \/ r.state = "half-open"]
    BY DEF Asked, r
  <2>2. Released(b, at) = [r EXCEPT !.probe = r.probe /\ r.state # "half-open"]
    BY DEF Released, r
  <2>. QED BY <1>3, <2>1, <2>2 DEF SameOutage, Breaker
<1>6. SameOutage(b, Succeeded(b, at))
  <2>. DEFINE w == [r.window EXCEPT ![at].ok = @ + 1]
              u == Counted(r, w, 0)
  <2>1. Succeeded(b, at) = u
    BY <1>3, Zenon DEF Succeeded, Counted, r
  <2>2. r.window \in Window
    BY <1>3 DEF Breaker
  <2>3. w \in Window
    BY <2>2, CountedWindow
  <2>. HIDE DEF w
  <2>. QED BY <1>3, <2>1, <2>3, CountedFields DEF SameOutage
<1>7. SameOutage(b, Failed(b, at))
  <2>. DEFINE w == [r.window EXCEPT ![at].fail = @ + 1]
              f == Counted(r, w, r.consecutive + 1)
  <2>1. r.window \in Window /\ r.consecutive + 1 \in Nat
    BY <1>3 DEF Breaker
  <2>2. w \in Window
    BY <2>1, CountedWindow
  <2>3. f.state = "open" /\ SameOutage(b, f)
    <3>. HIDE DEF w
    <3>. QED BY <1>3, <2>1, <2>2, CountedFields DEF SameOutage
  <2>4. Failed(b, at) = IF \/ f.state = "half-open"
                           \/ /\ f.state = "closed"
                              /\ f.consecutive >= Threshold \/ RateTrip(f.window)
                          THEN Tripped(f, at) ELSE f
    BY Zenon DEF Failed, Counted, r
  <2>. HIDE DEF f
  <2>. QED BY <2>3, <2>4
<1>. QED BY <1>4, <1>5, <1>6, <1>7 DEF r

(* While the cooldown of an open group runs, no call, whichever request it  *)
(* comes from, ends it, restarts it or raises the back-off.                 *)
THEOREM CooldownKept == Spec => CooldownUndisturbed
<1>. DEFINE Cooling(g) == groups[g].state = "open"
                          /\ now - groups[g].openedAt < CooldownMs(groups[g])
            Kept(g) == /\ groups'[g].state = "open"
                       /\ groups'[g].openedAt = groups[g].openedAt
                       /\ groups'[g].openCount = groups[g].openCount
<1>1. ASSUME Inv, [Next]_vars, NEW g \in Groups, Cooling(g)
      PROVE  FromJSON \/ Kept(g)
  <2>. DEFINE b == groups[g]
  <2>0. /\ now \in Times /\ Good(b, now) /\ groups \in [Groups -> Breaker]
        /\ CallTimes \subseteq Times /\ \A at \in CallTimes : at <= now
    BY <1>1 DEF Inv, TypeOK, CallTimes
  <2>1. \A at \in CallTimes :
          /\ SameOutage(b, Refresh(b, at))
          /\ SameOutage(b, Asked(b, at))
          /\ SameOutage(b, Released(b, at))
    BY <1>1, <2>0, CoolingKept
  <2>2. SameOutage(b, Succeeded(b, now)) /\ SameOutage(b, Failed(b, now))
    BY <1>1, <2>0, CoolingKept DEF Times
  <2>3. CASE \/ \E h \in Groups, at \in CallTimes :
                  AllowRequest(h, at) \/ ReleaseRequest(h, at) \/ IsTripped(h, at)
             \/ \E at \in CallTimes : Snapshot(at)
    BY <1>1, <2>0, <2>1, <2>3
    DEF AllowRequest, ReleaseRequest, IsTripped, Snapshot, SameOutage
  <2>4. CASE \E h \in Groups : RecordSuccess(h) \/ RecordFailure(h)
    BY <1>1, <2>0, <2>2, <2>4 DEF RecordSuccess, RecordFailure, SameOutage
  <2>5. CASE ToJSON \/ Tick \/ UNCHANGED vars
    BY <1>1, <2>5 DEF ToJSON, Tick, vars
  <2>. QED BY <1>1, <2>3, <2>4, <2>5 DEF Next
<1>2. Inv /\ [Next]_vars =>
        [\A g \in Groups :
           groups[g].state = "open" /\ now - groups[g].openedAt < CooldownMs(groups[g])
           => \/ FromJSON
              \/ /\ groups'[g].state = "open"
                 /\ groups'[g].openedAt = groups[g].openedAt
                 /\ groups'[g].openCount = groups[g].openCount]_vars
  BY <1>1
<1>. HIDE DEF Cooling, Kept
<1>. QED
  BY <1>2, BreakersStayGood, PTL DEF Spec, CooldownUndisturbed

-----------------------------------------------------------------------------
(* What opens a closed group.                                               *)

(* No helper but recordFailure opens a closed breaker, and that one leaves  *)
(* the failure it has just counted in the window: refresh never drops the   *)
(* present instant, however short the window.                               *)
LEMMA ClosedOpens ==
  ASSUME NEW b \in Breaker, NEW at \in Times, b.state = "closed"
  PROVE  /\ Refresh(b, at).state = "closed"
         /\ Asked(b, at).state = "closed"
         /\ Released(b, at).state = "closed"
         /\ Succeeded(b, at).state = "closed"
         /\ Failed(b, at).window[at].fail = b.window[at].fail + 1
<1>. DEFINE r == Refresh(b, at)
<1>1. r \in Breaker /\ r.state = "closed"
  BY RefreshFields DEF Cooled
<1>2. r.window[at] = b.window[at]
  <2>1. r.window = Recent(b.window, at)
    BY DEF Refresh, Breaker
  <2>2. at >= at - WindowMs
    BY BreakerAssumption DEF Times
  <2>. QED BY <2>1, <2>2 DEF Recent
<1>3. Asked(b, at) = [r EXCEPT !.probe = r.probe \/ r.state = "half-open"]
  BY DEF Asked
<1>4. Released(b, at) = [r EXCEPT !.probe = r.probe /\ r.state # "half-open"]
  BY DEF Released
<1>5. Succeeded(b, at).state = "closed"
  <2>. DEFINE w == [r.window EXCEPT ![at].ok = @ + 1]
  <2>1. Succeeded(b, at) = Counted(r, w, 0)
    BY <1>1, Zenon DEF Succeeded, Counted
  <2>. HIDE DEF r
  <2>2. r.window \in Window
    BY <1>1 DEF Breaker
  <2>3. w \in Window
    BY <2>2, CountedWindow
  <2>. HIDE DEF w
  <2>. QED BY <1>1, <2>1, <2>3, CountedFields
<1>6. Failed(b, at).window[at].fail = b.window[at].fail + 1
  <2>. DEFINE w == [r.window EXCEPT ![at].fail = @ + 1]
              f == Counted(r, w, r.consecutive + 1)
  <2>1. \/ Failed(b, at) = f
        \/ Failed(b, at) = Tripped(f, at)
    BY Zenon DEF Failed, Counted
  <2>. HIDE DEF r
  <2>2. r.window \in Window /\ r.consecutive + 1 \in Nat
    BY <1>1 DEF Breaker
  <2>3. w \in Window /\ w[at].fail = r.window[at].fail + 1
    BY <2>2, CountedWindow DEF Window
  <2>. HIDE DEF w
  <2>4. f \in Breaker /\ f.window = w
    BY <1>1, <2>2, <2>3, CountedFields
  <2>. HIDE DEF f
  <2>5. Tripped(f, at).window = f.window
    BY <2>4, Zenon DEF Tripped, Breaker
  <2>. QED BY <1>2, <2>1, <2>3, <2>4, <2>5
<1>. HIDE DEF r
<1>7. Asked(b, at).state = "closed" /\ Released(b, at).state = "closed"
  BY <1>1, <1>3, <1>4 DEF Breaker
<1>. QED BY <1>1, <1>5, <1>6, <1>7 DEF r

(* A closed group opens only by a failure recorded in that very step, or by *)
(* a restart that loads it open: no success, no old failure and no look at  *)
(* it trips it, for any window and any threshold.                           *)
THEOREM FailureTripsOnly == Spec => OnlyFailureTrips
<1>. DEFINE Counts(g) == groups'[g].window[now].fail = groups[g].window[now].fail + 1
<1>1. ASSUME Inv, [Next]_vars, NEW g \in Groups,
             groups[g].state = "closed", groups'[g].state = "open"
      PROVE  FromJSON \/ Counts(g)
  <2>. DEFINE b == groups[g]
  <2>0. /\ now \in Times /\ b \in Breaker /\ groups \in [Groups -> Breaker]
        /\ CallTimes \subseteq Times
    BY <1>1 DEF Inv, TypeOK, CallTimes
  <2>1. \A at \in Times :
          /\ Refresh(b, at).state = "closed"
          /\ Asked(b, at).state = "closed"
          /\ Released(b, at).state = "closed"
          /\ Succeeded(b, at).state = "closed"
          /\ Failed(b, at).window[at].fail = b.window[at].fail + 1
    BY <1>1, <2>0, ClosedOpens
  <2>2. CASE \/ \E h \in Groups, at \in CallTimes :
                  AllowRequest(h, at) \/ ReleaseRequest(h, at) \/ IsTripped(h, at)
             \/ \E at \in CallTimes : Snapshot(at)
    BY <1>1, <2>0, <2>1, <2>2
    DEF AllowRequest, ReleaseRequest, IsTripped, Snapshot
  <2>3. CASE \E h \in Groups : RecordSuccess(h) \/ RecordFailure(h)
    BY <1>1, <2>0, <2>1, <2>3 DEF RecordSuccess, RecordFailure
  <2>4. CASE ToJSON \/ Tick \/ UNCHANGED vars
    BY <1>1, <2>4 DEF ToJSON, Tick, vars
  <2>. QED BY <1>1, <2>2, <2>3, <2>4 DEF Next
<1>2. Inv /\ [Next]_vars =>
        [\A g \in Groups :
           groups[g].state = "closed" /\ groups'[g].state = "open"
           => \/ FromJSON
              \/ groups'[g].window[now].fail = groups[g].window[now].fail + 1]_vars
  BY <1>1
<1>. QED
  BY <1>2, BreakersStayGood, PTL DEF Spec, OnlyFailureTrips

-----------------------------------------------------------------------------
(* The back-off.                                                            *)

(* The subsets of 1 .. n + 1 are those of 1 .. n, and the same with n + 1.  *)
LEMMA SubsetsDouble ==
  ASSUME NEW n \in Nat
  PROVE  LET c == Cardinality(SUBSET (1 .. n)) IN
         /\ c \in Nat /\ c >= 1
         /\ Cardinality(SUBSET (1 .. n + 1)) = 2 * c
<1>. DEFINE W == SUBSET (1 .. n)
            T == {A \cup {n + 1} : A \in W}
            f == [A \in W |-> A \cup {n + 1}]
<1>1. IsFiniteSet(W)
  <2>1. IsFiniteSet(1 .. n)
    BY FS_Interval
  <2>. QED BY <2>1, FS_SUBSET, Zenon
<1>2. \A A \in W : n + 1 \notin A
  OBVIOUS
<1>3. IsFiniteSet(T) /\ Cardinality(T) = Cardinality(W)
  <2>1. \A A, B \in W : A \cup {n + 1} = B \cup {n + 1} => A = B
    BY <1>2
  <2>. HIDE DEF W
  <2>2. f \in [W -> T] /\ \A A \in W : f[A] = A \cup {n + 1}
    OBVIOUS
  <2>3. \A B \in T : \E A \in W : f[A] = B
    BY <2>2
  <2>. HIDE DEF f, T
  <2>4. \A A, B \in W : f[A] = f[B] => A = B
    BY <2>1, <2>2
  <2>5. f \in Bijection(W, T)
    BY <2>2, <2>3, <2>4 DEF Bijection, Injection, Surjection, IsInjective
  <2>. QED BY <1>1, <2>5, FS_Bijection DEF ExistsBijection
<1>4. SUBSET (1 .. n + 1) = W \cup T
  <2>1. ASSUME NEW B \in SUBSET (1 .. n + 1), n + 1 \in B PROVE B \in T
    <3>1. B \ {n + 1} \in W /\ B = (B \ {n + 1}) \cup {n + 1}
      BY <2>1
    <3>. HIDE DEF W
    <3>. QED BY <3>1
  <2>2. ASSUME NEW B \in SUBSET (1 .. n + 1), n + 1 \notin B PROVE B \in W
    BY <2>2
  <2>3. W \subseteq SUBSET (1 .. n + 1)
    OBVIOUS
  <2>4. ASSUME NEW B \in T PROVE B \in SUBSET (1 .. n + 1)
    <3>1. PICK A \in W : B = A \cup {n + 1}
      BY <2>4
    <3>. QED BY <2>3, <3>1
  <2>. HIDE DEF W, T
  <2>. QED BY <2>1, <2>2, <2>3, <2>4
<1>5. W \cap T = {}
  BY <1>2
<1>6. {} \in W
  OBVIOUS
<1>. HIDE DEF W, T
<1>7. Cardinality(W) \in Nat /\ Cardinality(W) # 0 /\ Cardinality(W \cap T) = 0
  BY <1>1, <1>5, <1>6, FS_CardinalityType, FS_EmptySet
<1>8. Cardinality(W \cup T) = Cardinality(W) + Cardinality(T) - Cardinality(W \cap T)
  BY <1>1, <1>3, FS_Union
<1>9. Cardinality(W \cup T) = 2 * Cardinality(W) /\ Cardinality(W) >= 1
  BY <1>3, <1>7, <1>8
<1>. QED BY <1>4, <1>7, <1>9 DEF W

(* A power of two is the number of subsets, which the library knows.        *)
LEMMA PowerDoubles ==
  ASSUME NEW n \in Nat
  PROVE  2 ^ n \in Nat /\ 2 ^ n >= 1 /\ 2 ^ (n + 1) = 2 * 2 ^ n
<1>1. /\ IsFiniteSet(1 .. n) /\ Cardinality(1 .. n) = n
      /\ IsFiniteSet(1 .. n + 1) /\ Cardinality(1 .. n + 1) = n + 1
  BY FS_Interval
<1>2. /\ Cardinality(SUBSET (1 .. n)) = 2 ^ n
      /\ Cardinality(SUBSET (1 .. n + 1)) = 2 ^ (n + 1)
  BY <1>1, FS_SUBSET, Zenon
<1>. QED BY <1>2, SubsetsDouble, Zenon

(* The cooldown of the n-th opening.                                        *)
NthCooldown(n) ==
  LET raw == BaseCooldown * 2 ^ (IF n > 1 THEN n - 1 ELSE 0)
  IN  IF raw < MaxCooldown THEN raw ELSE MaxCooldown

LEMMA CooldownIsNth ==
  ASSUME NEW b
  PROVE  CooldownMs(b) = NthCooldown(b.openCount)
  BY Zenon DEF CooldownMs, NthCooldown

LEMMA CooldownBounds ==
  ASSUME NEW n \in Nat
  PROVE  NthCooldown(n) \in BaseCooldown .. MaxCooldown
<1>. DEFINE e == IF n > 1 THEN n - 1 ELSE 0
            p == 2 ^ e
<1>1. e \in Nat
  OBVIOUS
<1>. HIDE DEF e
<1>2. p \in Nat /\ p >= 1
  BY <1>1, PowerDoubles, Zenon
<1>. HIDE DEF p
<1>3. BaseCooldown * p >= BaseCooldown /\ BaseCooldown * p \in Int
  BY <1>2, BreakerAssumption
<1>4. NthCooldown(n) = IF BaseCooldown * p < MaxCooldown THEN BaseCooldown * p ELSE MaxCooldown
  BY Zenon DEF NthCooldown, p, e
<1>. QED BY <1>3, <1>4, BreakerAssumption

LEMMA CooldownDoubles ==
  ASSUME NEW n \in Nat \ {0}
  PROVE  NthCooldown(n + 1) = IF 2 * NthCooldown(n) < MaxCooldown
                                THEN 2 * NthCooldown(n) ELSE MaxCooldown
<1>. DEFINE p == 2 ^ (n - 1)
            q == 2 ^ n
<1>1. n - 1 \in Nat /\ (n - 1) + 1 = n /\ (n + 1) - 1 = n /\ n + 1 > 1 /\ (n > 1 \/ n = 1)
  OBVIOUS
<1>2. p \in Nat /\ p >= 1 /\ q = 2 * p
  BY <1>1, PowerDoubles
<1>3. (IF n > 1 THEN n - 1 ELSE 0) = n - 1 /\ (IF n + 1 > 1 THEN (n + 1) - 1 ELSE 0) = n
  BY <1>1
<1>4. /\ NthCooldown(n) = IF BaseCooldown * p < MaxCooldown THEN BaseCooldown * p
                                                            ELSE MaxCooldown
      /\ NthCooldown(n + 1) = IF BaseCooldown * q < MaxCooldown THEN BaseCooldown * q
                                                                ELSE MaxCooldown
  BY <1>3, Zenon DEF NthCooldown
<1>. HIDE DEF p, q
<1>5. BaseCooldown * q = 2 * (BaseCooldown * p) /\ BaseCooldown * p \in Nat
  BY <1>2, BreakerAssumption
<1>. QED BY <1>4, <1>5, BreakerAssumption
-----------------------------------------------------------------------------
(* What the helpers make of an outage.                                      *)

Alike(b, c) ==
  c.state = b.state /\ c.openedAt = b.openedAt /\ c.openCount = b.openCount

(* Apart from windows and slots, every helper does what refresh does, but   *)
(* recordSuccess may close a half-open group and recordFailure may trip one *)
(* that is not open.                                                        *)
LEMMA HelperOutage ==
  ASSUME NEW b \in Breaker, NEW at \in Times
  PROVE  LET r == Refresh(b, at)
             u == Failed(b, at)
         IN  /\ Alike(r, Asked(b, at)) /\ Alike(r, Released(b, at))
             /\ IF r.state = "half-open"
                  THEN Succeeded(b, at).state = "closed"
                  ELSE Alike(r, Succeeded(b, at))
             /\ \/ r.state # "half-open" /\ Alike(r, u)
                \/ /\ r.state # "open"
                   /\ u.state = "open" /\ u.openedAt = at /\ u.openCount = r.openCount + 1
<1>. DEFINE r == Refresh(b, at)
<1>1. r \in Breaker
  BY RefreshFields
<1>2. Alike(r, Asked(b, at)) /\ Alike(r, Released(b, at))
  <2>1. /\ Asked(b, at) = [r EXCEPT !.probe = r.probe \/ r.state = "half-open"]
        /\ Released(b, at) = [r EXCEPT !.probe = r.probe /\ r.state # "half-open"]
    BY DEF Asked, Released
  <2>. HIDE DEF r
  <2>. QED BY <1>1, <2>1 DEF Alike, Breaker
<1>3. IF r.state = "half-open" THEN Succeeded(b, at).state = "closed"
                               ELSE Alike(r, Succeeded(b, at))
  <2>1. CASE r.state = "half-open"
    <3>1. Succeeded(b, at) = [FreshBreaker EXCEPT !.window[at].ok = 1]
      BY <2>1 DEF Succeeded
    <3>. QED BY <2>1, <3>1 DEF FreshBreaker
  <2>2. CASE r.state # "half-open"
    <3>. DEFINE w == [r.window EXCEPT ![at].ok = @ + 1]
    <3>1. Succeeded(b, at) = Counted(r, w, 0)
      BY <2>2, Zenon DEF Succeeded, Counted
    <3>. HIDE DEF r
    <3>2. r.window \in Window
      BY <1>1 DEF Breaker
    <3>3. w \in Window
      BY <3>2, CountedWindow
    <3>. HIDE DEF w
    <3>. QED BY <1>1, <2>2, <3>1, <3>3, CountedFields DEF Alike
  <2>. QED BY <2>1, <2>2
<1>4. \/ r.state # "half-open" /\ Alike(r, Failed(b, at))
      \/ /\ r.state # "open"
         /\ Failed(b, at).state = "open" /\ Failed(b, at).openedAt = at
         /\ Failed(b, at).openCount = r.openCount + 1
  <2>. DEFINE w == [r.window EXCEPT ![at].fail = @ + 1]
              f == Counted(r, w, r.consecutive + 1)
              trip == \/ f.state = "half-open"
                      \/ /\ f.state = "closed"
                         /\ f.consecutive >= Threshold \/ RateTrip(f.window)
  <2>1. Failed(b, at) = IF trip THEN Tripped(f, at) ELSE f
    BY Zenon DEF Failed, Counted
  <2>. HIDE DEF r
  <2>2. r.window \in Window /\ r.consecutive + 1 \in Nat
    BY <1>1 DEF Breaker
  <2>3. w \in Window
    BY <2>2, CountedWindow
  <2>. HIDE DEF w
  <2>4. /\ f \in Breaker
        /\ f.state = r.state /\ f.openedAt = r.openedAt /\ f.openCount = r.openCount
    <3>1. r.consecutive + 1 \in Nat
      BY <2>2
    <3>. QED BY <1>1, <2>3, <3>1, CountedFields
  <2>. HIDE DEF f
  <2>5. CASE trip
    <3>. DEFINE u == Tripped(f, at)
    <3>1. r.state # "open" /\ Failed(b, at) = u
      BY <2>1, <2>4, <2>5
    <3>2. u.state = "open" /\ u.openedAt = at /\ u.openCount = f.openCount + 1
      BY <2>4, TrippedFields
    <3>. HIDE DEF u
    <3>. QED BY <2>4, <3>1, <3>2
  <2>6. CASE ~trip
    BY <2>1, <2>4, <2>6 DEF Alike
  <2>. QED BY <2>5, <2>6
<1>. QED BY <1>2, <1>3, <1>4 DEF r

(* A call of a helper, at most as late as now, leaves the openings of an    *)
(* outage that lasts as they are, or counts one more.                       *)
Deepens(b, c) ==
  \/ c.openedAt = b.openedAt /\ c.openCount = b.openCount
  \/ c.openCount = b.openCount + 1

LEMMA OutageDeepens ==
  ASSUME NEW b \in Breaker, NEW at \in Times, b.state # "closed"
  PROVE  /\ Deepens(b, Refresh(b, at))
         /\ Deepens(b, Asked(b, at))
         /\ Deepens(b, Released(b, at))
         /\ Succeeded(b, at).state # "closed" => Deepens(b, Succeeded(b, at))
         /\ Deepens(b, Failed(b, at))
<1>. DEFINE r == Refresh(b, at)
<1>1. r.openedAt = b.openedAt /\ r.openCount = b.openCount
  BY RefreshFields
<1>2. /\ Alike(r, Asked(b, at)) /\ Alike(r, Released(b, at))
      /\ Succeeded(b, at).state = "closed" \/ Alike(r, Succeeded(b, at))
      /\ Alike(r, Failed(b, at)) \/ Failed(b, at).openCount = r.openCount + 1
  BY HelperOutage
<1>. HIDE DEF r
<1>. QED BY <1>1, <1>2 DEF Deepens, Alike, r

(* Until a success closes the group, its cooldown never shrinks, and every  *)
(* new opening doubles it up to the cap, for any base, cap and number of    *)
(* openings.                                                                *)
THEOREM BackoffGrows == Spec => BackoffEscalates
<1>. DEFINE Lasts(g) == groups[g].state # "closed" /\ groups'[g].state # "closed"
            Doubled(g) == LET c == CooldownMs(groups[g])
                              c2 == CooldownMs(groups'[g])
                          IN  \/ FromJSON
                              \/ c2 = c /\ groups'[g].openedAt = groups[g].openedAt
                              \/ c2 = IF 2 * c < MaxCooldown THEN 2 * c ELSE MaxCooldown
<1>1. ASSUME Inv, [Next]_vars, NEW g \in Groups, Lasts(g), ~FromJSON
      PROVE  Deepens(groups[g], groups'[g])
  <2>. DEFINE b == groups[g]
  <2>0. /\ now \in Times /\ b \in Breaker /\ groups \in [Groups -> Breaker]
        /\ CallTimes \subseteq Times /\ b.state # "closed" /\ groups'[g].state # "closed"
    BY <1>1 DEF Inv, TypeOK, CallTimes
  <2>1. \A at \in Times :
          /\ Deepens(b, Refresh(b, at))
          /\ Deepens(b, Asked(b, at))
          /\ Deepens(b, Released(b, at))
          /\ Succeeded(b, at).state # "closed" => Deepens(b, Succeeded(b, at))
          /\ Deepens(b, Failed(b, at))
    BY <2>0, OutageDeepens
  <2>2. CASE \/ \E h \in Groups, at \in CallTimes :
                  AllowRequest(h, at) \/ ReleaseRequest(h, at) \/ IsTripped(h, at)
             \/ \E at \in CallTimes : Snapshot(at)
    <3>1. Deepens(b, b)
      BY DEF Deepens
    <3>. QED BY <2>0, <2>1, <2>2, <3>1
         DEF AllowRequest, ReleaseRequest, IsTripped, Snapshot
  <2>3. CASE \E h \in Groups : RecordSuccess(h) \/ RecordFailure(h)
    <3>1. Deepens(b, b)
      BY DEF Deepens
    <3>. QED BY <2>0, <2>1, <2>3, <3>1 DEF RecordSuccess, RecordFailure
  <2>4. CASE ToJSON \/ Tick \/ UNCHANGED vars
    BY <2>4 DEF ToJSON, Tick, vars, Deepens
  <2>. QED BY <1>1, <2>2, <2>3, <2>4 DEF Next
<1>2. ASSUME Inv, [Next]_vars, NEW g \in Groups, Lasts(g)
      PROVE  Doubled(g)
  <2>1. CASE FromJSON
    BY <2>1
  <2>2. CASE ~FromJSON
    <3>1. groups[g].openCount \in Nat \ {0}
      BY <1>2 DEF Inv, Good, Timed, Breaker
    <3>2. Deepens(groups[g], groups'[g])
      BY <1>1, <1>2, <2>2
    <3>. QED BY <3>1, <3>2, CooldownIsNth, CooldownDoubles DEF Deepens
  <2>. QED BY <2>1, <2>2
<1>3. Inv /\ [Next]_vars => [\A g \in Groups : Lasts(g) => Doubled(g)]_vars
  BY <1>2
<1>4. Spec => [][\A g \in Groups : Lasts(g) => Doubled(g)]_vars
  <2>. HIDE DEF Lasts, Doubled
  <2>. QED BY <1>3, BreakersStayGood, PTL DEF Spec
<1>. QED BY <1>4 DEF BackoffEscalates
-----------------------------------------------------------------------------
(* The breaker implements the abstract one.                                 *)

(* Abstract!Probeable of an outline at instant t.                           *)
CanProbe(o, t) == o.phase = "half-open" \/ (o.phase = "open" /\ t >= o.until)

(* What a step of one group may do to its outline: what CoolDown, Recover   *)
(* and Trip do, or nothing.                                                 *)
Cools(b, c, t) ==
  \/ Outline(c) = Outline(b)
  \/ CanProbe(Outline(b), t) /\ Outline(c) = Abstract!HalfOpen

Recovers(b, c, t) == CanProbe(Outline(b), t) /\ Outline(c) = Abstract!Closed

Trips(b, c, t) ==
  /\ Outline(b).phase = "closed" \/ CanProbe(Outline(b), t)
  /\ \E d \in BaseCooldown .. MaxCooldown : Outline(c) = Abstract!Open(t + d)

LEMMA AlikeOutline ==
  ASSUME NEW b, NEW c, Alike(b, c)
  PROVE  Outline(c) = Outline(b)
  BY CooldownIsNth DEF Alike, Outline

(* refresh lets a group cool down when its cooldown has ended at its time   *)
(* argument, the more so now.                                               *)
LEMMA RefreshOutline ==
  ASSUME NEW b, NEW t \in Times, NEW at \in Times, at <= t, Good(b, t)
  PROVE  /\ Cools(b, Refresh(b, at), t)
         /\ Refresh(b, at).state = "half-open" => CanProbe(Outline(b), t)
         /\ Refresh(b, at).state # "half-open" => Outline(Refresh(b, at)) = Outline(b)
<1>. DEFINE r == Refresh(b, at)
<1>1. b \in Breaker /\ CooldownMs(b) \in Int
  BY CooldownInt DEF Good
<1>2. /\ r.state = IF Cooled(b, at) THEN "half-open" ELSE b.state
      /\ r.openedAt = b.openedAt /\ r.openCount = b.openCount
  BY <1>1, RefreshFields
<1>. HIDE DEF r
<1>3. CASE Cooled(b, at)
  <2>1. b.state = "open" /\ b.openedAt \in Int /\ at - b.openedAt >= CooldownMs(b)
    BY <1>3 DEF Cooled, Good, Timed
  <2>2. CanProbe(Outline(b), t)
    BY <1>1, <2>1 DEF CanProbe, Outline, Times
  <2>3. Outline(r) = Abstract!HalfOpen
    BY <1>2, <1>3 DEF Outline, Abstract!HalfOpen
  <2>. QED BY <1>2, <1>3, <2>2, <2>3 DEF Cools, r
<1>4. CASE ~Cooled(b, at)
  <2>1. Outline(r) = Outline(b)
    BY <1>2, <1>4, AlikeOutline DEF Alike
  <2>2. r.state = "half-open" => CanProbe(Outline(b), t)
    BY <1>2, <1>4 DEF CanProbe, Outline
  <2>. QED BY <2>1, <2>2 DEF Cools, r
<1>. QED BY <1>3, <1>4

LEMMA HelperOutlines ==
  ASSUME NEW b, NEW t \in Times, NEW at \in Times, at <= t, Good(b, t)
  PROVE  /\ Cools(b, Asked(b, at), t)
         /\ Cools(b, Released(b, at), t)
         /\ Cools(b, Succeeded(b, at), t) \/ Recovers(b, Succeeded(b, at), t)
         /\ at = t => Cools(b, Failed(b, at), t) \/ Trips(b, Failed(b, at), t)
<1>. DEFINE r == Refresh(b, at)
            s == Succeeded(b, at)
            u == Failed(b, at)
<1>1. b \in Breaker /\ r \in Breaker
  BY RefreshFields DEF Good
<1>2. /\ Cools(b, r, t)
      /\ r.state = "half-open" => CanProbe(Outline(b), t)
      /\ r.state # "half-open" => Outline(r) = Outline(b)
  BY RefreshOutline
<1>3. /\ Alike(r, Asked(b, at)) /\ Alike(r, Released(b, at))
      /\ IF r.state = "half-open" THEN s.state = "closed" ELSE Alike(r, s)
      /\ \/ r.state # "half-open" /\ Alike(r, u)
         \/ /\ r.state # "open"
            /\ u.state = "open" /\ u.openedAt = at /\ u.openCount = r.openCount + 1
  BY <1>1, HelperOutage
<1>. HIDE DEF r, s, u
<1>4. Cools(b, Asked(b, at), t) /\ Cools(b, Released(b, at), t)
  BY <1>2, <1>3, AlikeOutline DEF Cools
<1>5. Cools(b, s, t) \/ Recovers(b, s, t)
  <2>1. CASE r.state = "half-open"
    BY <1>2, <1>3, <2>1 DEF Recovers, Outline, Abstract!Closed
  <2>2. CASE r.state # "half-open"
    BY <1>2, <1>3, <2>2, AlikeOutline DEF Cools
  <2>. QED BY <2>1, <2>2
<1>6. ASSUME at = t PROVE Cools(b, u, t) \/ Trips(b, u, t)
  <2>1. CASE r.state # "half-open" /\ Alike(r, u)
    BY <1>2, <2>1, AlikeOutline DEF Cools
  <2>2. CASE /\ r.state # "open"
             /\ u.state = "open" /\ u.openedAt = at /\ u.openCount = r.openCount + 1
    <3>1. Outline(b).phase = "closed" \/ CanProbe(Outline(b), t)
      <4>1. r.state \in States
        BY <1>1 DEF Breaker
      <4>2. CASE r.state = "half-open"
        BY <1>2, <4>2
      <4>3. CASE r.state = "closed"
        BY <1>2, <4>3 DEF Outline
      <4>. QED BY <2>2, <4>1, <4>2, <4>3 DEF States
    <3>2. r.openCount + 1 \in Nat
      BY <1>1 DEF Breaker
    <3>3. CooldownMs(u) \in BaseCooldown .. MaxCooldown
      BY <2>2, <3>2, CooldownIsNth, CooldownBounds
    <3>4. Outline(u) = Abstract!Open(t + CooldownMs(u))
      BY <1>6, <2>2 DEF Outline, Abstract!Open
    <3>. QED BY <3>1, <3>3, <3>4 DEF Trips
  <2>. QED BY <1>3, <2>1, <2>2
<1>. QED BY <1>4, <1>5, <1>6 DEF s, u

(* The abstract steps.                                                      *)
Outlines(bs) == [g \in Groups |-> Outline(bs[g])]

LEMMA OneGroupMoves ==
  ASSUME groups \in [Groups -> Breaker], NEW g \in Groups, NEW c,
         groups' = [groups EXCEPT ![g] = c], now' = now,
         Outlines(saved') \in {Outlines(saved), Outlines(groups')},
         Cools(groups[g], c, now) \/ Recovers(groups[g], c, now) \/ Trips(groups[g], c, now)
  PROVE  [Abstract!Next]_(Abstract!vars)
<1>. DEFINE b == groups[g]
<1>1. Outlines(groups') = [Outlines(groups) EXCEPT ![g] = Outline(c)]
  BY DEF Outlines
<1>2. CanProbe(Outline(b), now) => Abstract!Probeable(g)
  BY DEF CanProbe, Abstract!Probeable
<1>3. Abstract!MayWrite
  BY DEF Abstract!MayWrite, Outlines
<1>4. CASE Outline(c) = Outline(b)
  <2>1. Outlines(groups') = Outlines(groups)
    BY <1>1, <1>4 DEF Outlines
  <2>2. Abstract!Save \/ UNCHANGED Abstract!vars
    BY <2>1 DEF Outlines, Abstract!Save, Abstract!vars
  <2>. QED BY <2>2 DEF Abstract!Next
<1>5. CASE CanProbe(Outline(b), now) /\ Outline(c) = Abstract!HalfOpen
  <2>1. Abstract!CoolDown({g})
    BY <1>1, <1>2, <1>3, <1>5 DEF Abstract!CoolDown, Outlines
  <2>. QED BY <2>1 DEF Abstract!Next
<1>6. CASE Recovers(b, c, now)
  <2>1. Abstract!Recover(g)
    BY <1>1, <1>2, <1>3, <1>6 DEF Abstract!Recover, Outlines, Recovers
  <2>. QED BY <2>1 DEF Abstract!Next
<1>7. CASE Trips(b, c, now)
  <2>1. Abstract!Trip(g)
    BY <1>1, <1>2, <1>3, <1>7 DEF Abstract!Trip, Outlines, Trips
  <2>. QED BY <2>1 DEF Abstract!Next
<1>. QED BY <1>4, <1>5, <1>6, <1>7 DEF Cools

LEMMA AllGroupsCool ==
  ASSUME NEW next, groups' = [g \in Groups |-> next[g]], now' = now, saved' = saved,
         \A g \in Groups : Cools(groups[g], next[g], now)
  PROVE  [Abstract!Next]_(Abstract!vars)
<1>. DEFINE S == {g \in Groups : Outline(groups'[g]) # Outline(groups[g])}
<1>1. \A g \in S : Abstract!Probeable(g) /\ Outline(groups'[g]) = Abstract!HalfOpen
  BY DEF Cools, CanProbe, Abstract!Probeable
<1>2. Abstract!MayWrite
  BY DEF Abstract!MayWrite
<1>3. Abstract!CoolDown(S)
  BY <1>1, <1>2 DEF Abstract!CoolDown
<1>. QED BY <1>3 DEF Abstract!Next

LEMMA SavedOutlines ==
  ASSUME NEW bs \in [Groups -> Breaker]
  PROVE  Outlines([g \in Groups |-> Serialized(bs[g])]) = Outlines(bs)
<1>1. \A g \in Groups : Alike(bs[g], Serialized(bs[g]))
  BY DEF Alike, Serialized, Breaker
<1>2. \A g \in Groups : Outline(Serialized(bs[g])) = Outline(bs[g])
  BY <1>1, AlikeOutline
<1>. QED BY <1>2 DEF Outlines

LEMMA InitMaps == Init => Abstract!Init
<1>1. Outline(FreshBreaker) = Abstract!Closed
  BY DEF Outline, FreshBreaker, Abstract!Closed
<1>. QED BY <1>1 DEF Init, Abstract!Init

LEMMA StepMaps == Inv /\ [Next]_vars => [Abstract!Next]_(Abstract!vars)
<1>. SUFFICES ASSUME Inv, [Next]_vars PROVE [Abstract!Next]_(Abstract!vars)
  OBVIOUS
<1>0. /\ now \in Times /\ groups \in [Groups -> Breaker]
      /\ CallTimes \subseteq Times /\ \A at \in CallTimes : at <= now
      /\ \A g \in Groups : Good(groups[g], now)
  BY DEF Inv, TypeOK, CallTimes
<1>1. ASSUME NEW g \in Groups, NEW at \in CallTimes,
             AllowRequest(g, at) \/ ReleaseRequest(g, at) \/ IsTripped(g, at)
      PROVE  [Abstract!Next]_(Abstract!vars)
  <2>1. /\ Cools(groups[g], Asked(groups[g], at), now)
        /\ Cools(groups[g], Released(groups[g], at), now)
        /\ Cools(groups[g], Refresh(groups[g], at), now)
    BY <1>0, RefreshOutline, HelperOutlines
  <2>. QED BY <1>0, <1>1, <2>1, OneGroupMoves DEF AllowRequest, ReleaseRequest, IsTripped
<1>2. ASSUME NEW at \in CallTimes, Snapshot(at)
      PROVE  [Abstract!Next]_(Abstract!vars)
  <2>. DEFINE next == [g \in Groups |-> Refresh(groups[g], at)]
  <2>1. \A g \in Groups : Cools(groups[g], next[g], now)
    BY <1>0, RefreshOutline
  <2>2. groups' = [g \in Groups |-> next[g]] /\ now' = now /\ saved' = saved
    BY <1>2 DEF Snapshot
  <2>. HIDE DEF next
  <2>. QED BY <2>1, <2>2, AllGroupsCool
<1>3. ASSUME NEW g \in Groups, RecordSuccess(g) \/ RecordFailure(g)
      PROVE  [Abstract!Next]_(Abstract!vars)
  <2>1. /\ \/ Cools(groups[g], Succeeded(groups[g], now), now)
           \/ Recovers(groups[g], Succeeded(groups[g], now), now)
        /\ \/ Cools(groups[g], Failed(groups[g], now), now)
           \/ Trips(groups[g], Failed(groups[g], now), now)
    <3>1. now <= now
      BY <1>0 DEF Times
    <3>. QED BY <1>0, <3>1, HelperOutlines
  <2>. QED BY <1>0, <1>3, <2>1, OneGroupMoves DEF RecordSuccess, RecordFailure
<1>4. CASE ToJSON
  <2>1. Outlines(saved') = Outlines(groups)
    BY <1>0, <1>4, SavedOutlines DEF ToJSON
  <2>2. Abstract!Save
    BY <1>4, <2>1 DEF ToJSON, Abstract!Save, Outlines
  <2>. QED BY <2>2 DEF Abstract!Next
<1>5. CASE FromJSON
  <2>1. Abstract!Restart
    BY <1>5 DEF FromJSON, Abstract!Restart
  <2>. QED BY <2>1 DEF Abstract!Next
<1>6. CASE Tick
  <2>1. Abstract!Tick
    BY <1>6 DEF Tick, Abstract!Tick
  <2>. QED BY <2>1 DEF Abstract!Next
<1>7. CASE UNCHANGED vars
  BY <1>7 DEF vars, Abstract!vars
<1>. QED BY <1>1, <1>2, <1>3, <1>4, <1>5, <1>6, <1>7 DEF Next

(* What the breaker promises its callers: whatever is recorded, asked,      *)
(* saved or reloaded, and in whatever order, a group leaves an outage only  *)
(* when a cooldown of BaseCooldown to MaxCooldown has ended, and closes     *)
(* only from there.                                                         *)
THEOREM ImplementsAbstractBreaker == Spec => RefinesAbstractBreaker
  BY InitMaps, StepMaps, BreakersStayGood, PTL
  DEF Spec, RefinesAbstractBreaker, Abstract!Spec
=============================================================================
