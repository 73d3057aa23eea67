------------------------- MODULE ProxyRequestsProofs -------------------------
(***************************************************************************)
(* Theorems about ProxyRequests, for any groups, requests, retries and     *)
(* breaker parameters.                                                     *)
(*                                                                         *)
(* That no probe slot leaks rests on three facts about the breaker: a good *)
(* one holds its slot only while half-open, every report about an attempt  *)
(* leaves the slot free, and no saved copy holds it.  So a step of request *)
(* r changes the slot of r's own group only, and leaves it either free or  *)
(* taken by r itself.                                                      *)
(***************************************************************************)
EXTENDS ProxyRequests, CircuitBreakerProofs, FiniteSetTheorems

SavedFree == \A g \in Groups : ~saved[g].probe

(* A request with an attempt has a group.                                   *)
PlacedAt(q) == q.phase \notin {"idle", "retrying"} => q.group \in Groups

SlotInv ==
  /\ Inv /\ SavedFree
  /\ req \in [Requests -> Request]
  /\ \A r \in Requests : PlacedAt(req[r])
  /\ ProbeSlotHeld

(* Only request r changes.                                                  *)
OnlyOf(r) == \A q \in Requests \ {r} : req'[q] = req[q]

(* Breakers after the step: all good, and no saved copy holds a slot.       *)
Kept ==
  /\ groups' \in [Groups -> Breaker] /\ saved' \in [Groups -> Breaker]
  /\ \A g \in Groups : Good(groups'[g], now) /\ Good(saved'[g], now)
  /\ \A g \in Groups : ~saved'[g].probe
  /\ now' = now

-----------------------------------------------------------------------------
(* What the operators do to the variables.                                  *)

(* A report of a breaker that is good keeps all of them good.               *)
LEMMA ReportKeeps ==
  ASSUME Inv, SavedFree, NEW g \in Groups, NEW b, Good(b, now), Report(g, b)
  PROVE  Kept /\ groups' = [groups EXCEPT ![g] = b]
<1>1. groups' = [groups EXCEPT ![g] = b] /\ now' = now
  BY DEF Report
<1>2. /\ now \in Times
      /\ groups \in [Groups -> Breaker] /\ saved \in [Groups -> Breaker]
      /\ \A h \in Groups : Good(groups[h], now) /\ Good(saved[h], now)
  BY DEF Inv, TypeOK
<1>3. /\ groups' \in [Groups -> Breaker]
      /\ \A h \in Groups : Good(groups'[h], now)
  BY <1>1, <1>2 DEF Good
<1>4. CASE saved' = saved
  BY <1>1, <1>2, <1>3, <1>4 DEF Kept, SavedFree
<1>5. CASE saved' = [h \in Groups |-> Serialized(groups'[h])]
  <2>1. \A h \in Groups : /\ Good(Serialized(groups'[h]), now)
                          /\ ~Serialized(groups'[h]).probe
    BY <1>2, <1>3, SerializedGood
  <2>. QED BY <1>1, <1>3, <1>5, <2>1 DEF Kept, Good
<1>. QED BY <1>1, <1>4, <1>5 DEF Report

LEMMA IdleTyped == IdleRequest \in Request /\ PlacedAt(IdleRequest)
  BY RequestAssumption, BreakerAssumption DEF IdleRequest, Request, Phases, Times, PlacedAt

(* The request ends: only its own record changes.                           *)
LEMMA FinishTyped ==
  ASSUME req \in [Requests -> Request], NEW r \in Requests, Finish(r)
  PROVE  req' \in [Requests -> Request] /\ OnlyOf(r) /\ PlacedAt(req'[r])
  BY IdleTyped DEF Finish, OnlyOf

(* A retry counts one more attempt, which is still within the limit.        *)
LEMMA RetryTyped ==
  ASSUME req \in [Requests -> Request], NEW r \in Requests,
         NEW failed \in SUBSET Groups, RetryOrFinish(r, failed)
  PROVE  req' \in [Requests -> Request] /\ OnlyOf(r) /\ PlacedAt(req'[r])
<1>1. CASE req[r].attempt < MaxRetries /\ r \notin Unrepeatable
  <2>. DEFINE q == [req[r] EXCEPT !.phase = "retrying", !.failed = failed,
                       !.attempt = @ + 1, !.group = NoGroup, !.lent = FALSE]
  <2>1. req' = [req EXCEPT ![r] = q]
    BY <1>1 DEF RetryOrFinish
  <2>2. req[r] \in Request
    OBVIOUS
  <2>3. q \in Request
    <3>1. req[r].attempt + 1 \in 0 .. MaxRetries
      BY <1>1, <2>2, RequestAssumption DEF Request
    <3>. QED BY <2>2, <3>1, Zenon DEF Request, Phases
  <2>4. q.phase = "retrying"
    BY <2>2 DEF Request
  <2>. HIDE DEF q
  <2>. QED BY <2>1, <2>3, <2>4 DEF OnlyOf, PlacedAt
<1>2. CASE ~(req[r].attempt < MaxRetries /\ r \notin Unrepeatable)
  BY <1>2, FinishTyped DEF RetryOrFinish
<1>. QED BY <1>1, <1>2

-----------------------------------------------------------------------------
(* A step after which the slot of the group that request r worked on is     *)
(* free keeps the invariant: the probes of other groups are other requests. *)
LEMMA FreedKeeps ==
  ASSUME SlotInv, Kept, NEW r \in Requests, req' \in [Requests -> Request], OnlyOf(r),
         PlacedAt(req'[r]),
         \A g \in Groups : groups'[g].probe => groups[g].probe /\ r \notin Probes(g)
  PROVE  SlotInv'
<1>1. Inv'
  BY StepGood DEF SlotInv, Kept
<1>2. SavedFree'
  BY DEF Kept, SavedFree
<1>3. ASSUME NEW g \in Groups, groups'[g].probe
      PROVE  Probes(g)' # {}
  <2>1. PICK q \in Requests : q \in Probes(g)
    BY <1>3 DEF SlotInv, ProbeSlotHeld, Probes
  <2>2. q # r
    BY <1>3, <2>1
  <2>3. req'[q] = req[q]
    BY <2>2 DEF OnlyOf
  <2>. QED BY <2>1, <2>3 DEF Probes, Unsettled
<1>4. \A q \in Requests : PlacedAt(req'[q])
  BY DEF SlotInv, OnlyOf
<1>. QED BY <1>1, <1>2, <1>3, <1>4 DEF SlotInv, ProbeSlotHeld, PlacedAt

(* A report about the attempt of r ends it and frees the slot of its group. *)
LEMMA ReportedKeeps ==
  ASSUME SlotInv, NEW r \in Requests, NEW b, Good(b, now), ~b.probe,
         req[r].group \in Groups, Report(req[r].group, b),
         req' \in [Requests -> Request], OnlyOf(r), PlacedAt(req'[r])
  PROVE  SlotInv'
<1>1. Kept /\ groups' = [groups EXCEPT ![req[r].group] = b]
  BY ReportKeeps DEF SlotInv
<1>2. ASSUME NEW g \in Groups, groups'[g].probe
      PROVE  groups[g].probe /\ r \notin Probes(g)
  BY <1>1, <1>2 DEF SlotInv, Inv, TypeOK, Probes
<1>. QED BY <1>1, <1>2, FreedKeeps

(* A step that leaves breakers alone, of a request without a slot.          *)
LEMMA QuietKeeps ==
  ASSUME SlotInv, UNCHANGED vars, NEW r \in Requests, ~Unsettled(r),
         req' \in [Requests -> Request], OnlyOf(r), PlacedAt(req'[r])
  PROVE  SlotInv'
<1>1. Kept
  BY DEF Kept, SlotInv, Inv, TypeOK, SavedFree, vars
<1>2. \A g \in Groups : groups'[g].probe => groups[g].probe /\ r \notin Probes(g)
  BY DEF vars, Probes
<1>. QED BY <1>1, <1>2, FreedKeeps

(* A step that moves a request on to another phase of the same attempt.     *)
LEMMA MovedKeeps ==
  ASSUME SlotInv, UNCHANGED vars, NEW r \in Requests,
         req' \in [Requests -> Request], OnlyOf(r),
         req'[r].phase \in {"sent", "streaming"},
         req'[r].group = req[r].group, req'[r].group \in Groups,
         req'[r].lent = req[r].lent
  PROVE  SlotInv'
<1>1. Inv' /\ SavedFree'
  BY StepGood DEF SlotInv, Inv, TypeOK, SavedFree, vars
<1>2. \A q \in Requests : PlacedAt(req'[q])
  BY DEF SlotInv, OnlyOf, PlacedAt
<1>3. ASSUME NEW g \in Groups, groups'[g].probe
      PROVE  Probes(g)' # {}
  <2>1. PICK q \in Requests : q \in Probes(g)
    BY <1>3 DEF SlotInv, ProbeSlotHeld, Probes, vars
  <2>2. q \in Probes(g)'
    BY <2>1 DEF Probes, Unsettled, OnlyOf
  <2>. QED BY <2>2
<1>. QED BY <1>1, <1>2, <1>3 DEF SlotInv, ProbeSlotHeld, PlacedAt

-----------------------------------------------------------------------------
(* The steps.                                                               *)

LEMMA SlotInit == PathInit => SlotInv
<1>. SUFFICES ASSUME PathInit PROVE SlotInv
  OBVIOUS
<1>1. Inv
  BY InitInv DEF PathInit
<1>2. /\ SavedFree
      /\ \A g \in Groups : ~groups[g].probe
  BY DEF PathInit, Init, SavedFree, FreshBreaker
<1>. QED
  BY <1>1, <1>2, IdleTyped DEF PathInit, SlotInv, ProbeSlotHeld

(* Routing looks at every group and asks one: its slot, when it is taken,   *)
(* is lent to the request that is routed.                                   *)
LEMMA RouteKeeps ==
  ASSUME SlotInv, NEW r \in Requests, NEW g \in Groups, NEW at \in CallTimes,
         Route(r, g, at)
  PROVE  SlotInv'
<1>0. /\ at \in Times /\ now \in Times
      /\ \A h \in Groups : Good(groups[h], now) /\ groups[h] \in Breaker
      /\ \A h \in Groups : Good(saved[h], now)
      /\ req[r] \in Request
      /\ UNCHANGED <<saved, now>>
  BY DEF SlotInv, Inv, TypeOK, CallTimes, Good, Route
<1>1. \A h \in Groups : /\ Good(Refresh(groups[h], at), now)
                        /\ Refresh(groups[h], at).probe => groups[h].probe
  BY <1>0, RefreshGood, RefreshFields
<1>. DEFINE asked == Asked(Refresh(groups[g], at), at)
<1>2. Good(asked, now)
  BY <1>0, <1>1, AskedGood
<1>3. groups' = [[h \in Groups |-> Refresh(groups[h], at)] EXCEPT ![g] = asked]
  BY DEF Route, RefreshAll
<1>4. /\ groups'[g] = asked
      /\ \A h \in Groups \ {g} : groups'[h] = Refresh(groups[h], at)
      /\ groups' \in [Groups -> Breaker]
  BY <1>1, <1>2, <1>3 DEF Good
<1>5. Inv' /\ SavedFree'
  BY <1>0, <1>1, <1>2, <1>4, StepGood DEF SlotInv, SavedFree, Inv, TypeOK
<1>. DEFINE q == [req[r] EXCEPT !.phase = "keying", !.group = g, !.at = at,
                     !.lent = groups'[g].state = "half-open"]
<1>6. req' = [req EXCEPT ![r] = q]
  BY DEF Route
<1>7. /\ q \in Request /\ q.phase = "keying" /\ q.group = g
      /\ q.lent = (groups'[g].state = "half-open")
  BY <1>0, Zenon DEF Request, Phases
<1>. HIDE DEF q, asked
<1>8. /\ req' \in [Requests -> Request] /\ OnlyOf(r) /\ req'[r] = q
      /\ \A p \in Requests : PlacedAt(req'[p])
  BY <1>6, <1>7 DEF SlotInv, OnlyOf, PlacedAt
<1>9. ~Unsettled(r)
  BY DEF Route, Unsettled
<1>10. ASSUME NEW h \in Groups, groups'[h].probe
       PROVE  Probes(h)' # {}
  <2>1. CASE h = g
    <3>1. groups'[g].state = "half-open"
      BY <1>2, <1>4, <1>10, <2>1 DEF Good, Timed
    <3>2. r \in Probes(g)'
      BY <1>7, <1>8, <3>1 DEF Probes, Unsettled
    <3>. QED BY <2>1, <3>2
  <2>2. CASE h # g
    <3>1. groups[h].probe
      BY <1>1, <1>4, <1>10, <2>2
    <3>2. PICK p \in Requests : p \in Probes(h)
      BY <3>1 DEF SlotInv, ProbeSlotHeld, Probes
    <3>3. p # r
      BY <1>9, <3>2 DEF Probes
    <3>4. p \in Probes(h)'
      BY <1>8, <3>2, <3>3 DEF Probes, Unsettled, OnlyOf
    <3>. QED BY <3>4
  <2>. QED BY <2>1, <2>2
<1>. QED BY <1>5, <1>8, <1>10 DEF SlotInv, ProbeSlotHeld, PlacedAt

LEMMA NoRouteKeeps ==
  ASSUME SlotInv, NEW r \in Requests, NEW at \in CallTimes, NoRoute(r, at)
  PROVE  SlotInv'
<1>0. /\ at \in Times /\ now \in Times
      /\ \A h \in Groups : Good(groups[h], now) /\ groups[h] \in Breaker
      /\ UNCHANGED <<saved, now>>
  BY DEF SlotInv, Inv, TypeOK, CallTimes, Good, NoRoute
<1>1. \A h \in Groups : /\ Good(Refresh(groups[h], at), now)
                        /\ Refresh(groups[h], at).probe => groups[h].probe
  BY <1>0, RefreshGood, RefreshFields
<1>2. groups' = [h \in Groups |-> Refresh(groups[h], at)]
  BY DEF NoRoute, RefreshAll
<1>3. Kept
  BY <1>0, <1>1, <1>2 DEF Kept, SlotInv, Inv, TypeOK, SavedFree, Good
<1>4. req' \in [Requests -> Request] /\ OnlyOf(r) /\ PlacedAt(req'[r])
  BY FinishTyped DEF SlotInv, NoRoute
<1>5. \A g \in Groups : groups'[g].probe => groups[g].probe /\ r \notin Probes(g)
  BY <1>1, <1>2 DEF NoRoute, Probes, Unsettled
<1>. QED BY <1>3, <1>4, <1>5, FreedKeeps

LEMMA KeyReadyKeeps ==
  ASSUME SlotInv, NEW r \in Requests, KeyReady(r)
  PROVE  SlotInv'
<1>. DEFINE q == [req[r] EXCEPT !.phase = "sent", !.tracked = req[r].group, !.at = 0]
<1>1. req[r] \in Request /\ req[r].phase = "keying" /\ req[r].group \in Groups
  BY DEF SlotInv, PlacedAt, KeyReady
<1>2. req' = [req EXCEPT ![r] = q]
  BY DEF KeyReady
<1>3. 0 \in Times
  BY BreakerAssumption DEF Times
<1>4. /\ q \in Request /\ q.phase = "sent"
      /\ q.group = req[r].group /\ q.lent = req[r].lent
  BY <1>1, <1>3, Zenon DEF Request, Phases
<1>. HIDE DEF q
<1>5. req' \in [Requests -> Request] /\ OnlyOf(r) /\ req'[r] = q
  BY <1>2, <1>4 DEF SlotInv, OnlyOf
<1>. QED BY <1>1, <1>4, <1>5, MovedKeeps DEF KeyReady

LEMMA FirstByteKeeps ==
  ASSUME SlotInv, NEW r \in Requests, FirstByte(r)
  PROVE  SlotInv'
<1>. DEFINE q == [req[r] EXCEPT !.phase = "streaming"]
<1>1. req[r] \in Request /\ req[r].group \in Groups
  BY DEF SlotInv, PlacedAt, FirstByte, Sent
<1>2. /\ q \in Request /\ q.phase = "streaming"
      /\ q.group = req[r].group /\ q.lent = req[r].lent
  BY <1>1, Zenon DEF Request, Phases
<1>3. req' = [req EXCEPT ![r] = q]
  BY DEF FirstByte
<1>. HIDE DEF q
<1>4. req' \in [Requests -> Request] /\ OnlyOf(r) /\ req'[r] = q
  BY <1>2, <1>3 DEF SlotInv, OnlyOf
<1>. QED BY <1>1, <1>2, <1>4, MovedKeeps DEF FirstByte

(* Key preparation throws: the release carries the time routing started.    *)
LEMMA KeyFailsKeeps ==
  ASSUME SlotInv, NEW r \in Requests, KeyFails(r)
  PROVE  SlotInv'
<1>. DEFINE g == req[r].group
            b == Released(groups[g], req[r].at)
<1>0. /\ req[r] \in Request /\ g \in Groups
      /\ now \in Times /\ req[r].at \in Times /\ Good(groups[g], now)
  BY DEF SlotInv, PlacedAt, KeyFails, Inv, TypeOK, Request
<1>1. Good(b, now) /\ ~b.probe
  BY <1>0, ReleasedGood
<1>2. groups' = [groups EXCEPT ![g] = b] /\ UNCHANGED <<saved, now>>
  BY DEF KeyFails
<1>. HIDE DEF b
<1>3. Report(g, b)
  BY <1>2 DEF Report
<1>4. req' \in [Requests -> Request] /\ OnlyOf(r) /\ PlacedAt(req'[r])
  BY IdleTyped DEF KeyFails, OnlyOf, SlotInv
<1>. QED BY <1>0, <1>1, <1>3, <1>4, ReportedKeeps

(* Every way an attempt can settle reports to the breaker, or has reported. *)
LEMMA SettleKeeps ==
  ASSUME SlotInv, NEW r \in Requests, Settle(r)
  PROVE  SlotInv'
<1>. DEFINE g == req[r].group
<1>0. /\ req[r] \in Request /\ req[r].failed \in SUBSET Groups
      /\ now \in Times /\ now <= now
      /\ req[r].phase \in {"sent", "dropping", "streaming", "passing"}
  BY DEF SlotInv, Inv, TypeOK, Request, Times, Settle, AttemptFails, ClientCancels,
         KeyRejected, KeyDropped, ModelIncompatible, FirstByte, PassThrough,
         StreamCompletes, StreamBreaks, StreamAborted, PassEnds, Sent
<1>1. g \in Groups /\ Good(groups[g], now)
  BY <1>0 DEF SlotInv, PlacedAt, Inv
<1>2. Good(Released(groups[g], now), now) /\ ~Released(groups[g], now).probe
  BY <1>0, <1>1, ReleasedGood
<1>3. Good(Failed(groups[g], now), now) /\ ~Failed(groups[g], now).probe
  BY <1>0, <1>1, FailedGood
<1>4. Good(Succeeded(groups[g], now), now) /\ ~Succeeded(groups[g], now).probe
  BY <1>0, <1>1, SucceededGood
<1>. DEFINE Ended == req' \in [Requests -> Request] /\ OnlyOf(r) /\ PlacedAt(req'[r])
<1>5. Finish(r) => Ended
  BY FinishTyped DEF SlotInv
<1>6. \A failed \in SUBSET Groups : RetryOrFinish(r, failed) => Ended
  BY RetryTyped DEF SlotInv
<1>7. ASSUME NEW phase \in {"dropping", "passing"}, req' = [req EXCEPT ![r].phase = phase]
      PROVE  Ended
  <2>. DEFINE q == [req[r] EXCEPT !.phase = phase]
  <2>1. q \in Request /\ q.group = g
    BY <1>0, Zenon DEF Request, Phases
  <2>2. req' = [req EXCEPT ![r] = q]
    BY <1>7
  <2>. HIDE DEF q
  <2>. QED BY <1>1, <2>1, <2>2 DEF SlotInv, OnlyOf, PlacedAt
<1>8. req[r].failed \cup {g} \in SUBSET Groups
  BY <1>0, <1>1
<1>9. CASE AttemptFails(r)
  <2>1. Ended
    BY <1>6, <1>8, <1>9 DEF AttemptFails
  <2>. QED BY <1>1, <1>3, <1>9, <2>1, ReportedKeeps DEF AttemptFails
<1>10. CASE ClientCancels(r)
  BY <1>1, <1>2, <1>5, <1>10, ReportedKeeps DEF ClientCancels
<1>11. CASE KeyRejected(r)
  BY <1>1, <1>2, <1>7, <1>11, ReportedKeeps DEF KeyRejected
<1>12. CASE KeyDropped(r)
  BY <1>0, <1>6, <1>12, QuietKeeps DEF KeyDropped, Unsettled
<1>13. CASE ModelIncompatible(r)
  <2>1. Ended
    BY <1>6, <1>8, <1>13 DEF ModelIncompatible
  <2>. QED BY <1>1, <1>2, <1>13, <2>1, ReportedKeeps DEF ModelIncompatible
<1>14. CASE FirstByte(r)
  BY <1>14, FirstByteKeeps
<1>15. CASE PassThrough(r)
  BY <1>1, <1>2, <1>7, <1>15, ReportedKeeps DEF PassThrough
<1>16. CASE StreamCompletes(r)
  BY <1>1, <1>4, <1>5, <1>16, ReportedKeeps DEF StreamCompletes
<1>17. CASE StreamBreaks(r)
  BY <1>1, <1>3, <1>5, <1>17, ReportedKeeps DEF StreamBreaks
<1>18. CASE StreamAborted(r)
  BY <1>1, <1>2, <1>5, <1>18, ReportedKeeps DEF StreamAborted
<1>19. CASE PassEnds(r)
  BY <1>5, <1>19, QuietKeeps DEF PassEnds, Unsettled
<1>. QED
  BY <1>9, <1>10, <1>11, <1>12, <1>13, <1>14, <1>15, <1>16, <1>17, <1>18, <1>19
  DEF Settle

(* A restart loses the requests, and the breakers come back without slots.  *)
LEMMA RestartKeeps ==
  ASSUME SlotInv, Restart
  PROVE  SlotInv'
<1>1. Inv'
  BY NextInv DEF SlotInv, Restart, Next
<1>2. \A g \in Groups : ~groups'[g].probe /\ ~saved'[g].probe
  BY DEF SlotInv, SavedFree, Restart, FromJSON
<1>. QED BY <1>1, <1>2, IdleTyped DEF Restart, SlotInv, SavedFree, ProbeSlotHeld

LEMMA SlotNext == SlotInv /\ [PathNext]_pathVars => SlotInv'
<1>. SUFFICES ASSUME SlotInv, [PathNext]_pathVars PROVE SlotInv'
  OBVIOUS
<1>1. ASSUME NEW r \in Requests, Arrive(r) \/ Reroute(r) PROVE SlotInv'
  BY <1>1, RouteKeeps, NoRouteKeeps DEF Arrive, Reroute, ChooseRoute
<1>2. ASSUME NEW r \in Requests, PrepareKey(r) PROVE SlotInv'
  BY <1>2, KeyReadyKeeps, KeyFailsKeeps DEF PrepareKey
<1>3. ASSUME NEW r \in Requests, Settle(r) PROVE SlotInv'
  BY <1>3, SettleKeeps
<1>4. CASE Restart
  BY <1>4, RestartKeeps
<1>5. CASE PathTick
  <2>1. Inv'
    BY <1>5, NextInv DEF SlotInv, PathTick, Next
  <2>2. UNCHANGED <<groups, saved, req>>
    BY <1>5 DEF PathTick, Tick
  <2>. QED
    BY <2>1, <2>2 DEF SlotInv, SavedFree, ProbeSlotHeld, Probes, Unsettled, PlacedAt
<1>6. CASE UNCHANGED pathVars
  <2>1. Inv'
    BY <1>6, NextInv DEF SlotInv, pathVars
  <2>2. UNCHANGED <<groups, saved, req>>
    BY <1>6 DEF pathVars, vars
  <2>. QED
    BY <2>1, <2>2 DEF SlotInv, SavedFree, ProbeSlotHeld, Probes, Unsettled, PlacedAt
<1>7. CASE ControlRound
  <2>1. Inv'
    BY <1>7, NextInv DEF SlotInv, ControlRound, Next
  <2>2. SavedFree'
    <3>1. now \in Times /\ \A g \in Groups : Good(groups[g], now)
      BY DEF SlotInv, Inv, TypeOK
    <3>2. \A g \in Groups : ~Serialized(groups[g]).probe
      BY <3>1, SerializedGood
    <3>. QED
      BY <1>7, <3>2 DEF SlotInv, SavedFree, ControlRound, ToJSON, Snapshot
  <2>3. \A g \in Groups : groups'[g].probe => groups[g].probe
    <3>1. ASSUME NEW at \in CallTimes, Snapshot(at), NEW g \in Groups
          PROVE  groups'[g].probe => groups[g].probe
      <4>1. at \in Times /\ groups[g] \in Breaker /\ groups'[g] = Refresh(groups[g], at)
        BY <3>1 DEF SlotInv, Inv, TypeOK, CallTimes, Snapshot
      <4>2. Refresh(groups[g], at).probe => groups[g].probe
        BY <4>1, RefreshFields
      <4>. QED BY <4>1, <4>2
    <3>2. ToJSON => UNCHANGED groups
      BY DEF ToJSON
    <3>. QED BY <1>7, <3>1, <3>2 DEF ControlRound
  <2>. QED
    BY <1>7, <2>1, <2>2, <2>3
    DEF ControlRound, SlotInv, ProbeSlotHeld, Probes, Unsettled, PlacedAt
<1>. QED BY <1>1, <1>2, <1>3, <1>4, <1>5, <1>6, <1>7 DEF PathNext

-----------------------------------------------------------------------------
(* No probe slot leaks (ProbeSlotHeld): whenever a half-open group refuses  *)
(* requests because its slot is taken, some request that took it is still   *)
(* under way, whatever attempts end with and whenever the process dies.     *)
THEOREM NoSlotLeaks == PathSpec => []ProbeSlotHeld
<1>1. SlotInv => ProbeSlotHeld
  BY DEF SlotInv
<1>. QED BY <1>1, SlotInit, SlotNext, PTL DEF PathSpec

(* Composed with the requests, which report, release, look at and save      *)
(* breakers in one step, the breakers stay good as well.                    *)
THEOREM BreakersStayGoodInUse == PathSpec => []Inv
<1>1. SlotInv => Inv
  BY DEF SlotInv
<1>. QED BY <1>1, SlotInit, SlotNext, PTL DEF PathSpec

-----------------------------------------------------------------------------
(* The traffic counts.                                                      *)

OnGroup(g) == {r \in Requests : req[r].tracked = g}
OnAny == {r \in Requests : req[r].tracked # NoGroup}
Reserving(g) == {r \in Requests : req[r].phase = "keying" /\ req[r].group = g}

TrafficTyped ==
  byGroup \in [Groups -> Nat] /\ pending \in [Groups -> Nat] /\ active \in Nat

TrafficInv == SlotInv /\ TrafficTyped /\ TrafficExact

(* The cardinalities of S and T, which differ at most in r.                 *)
Apart(S, T, r) ==
  /\ Cardinality(S) \in Nat /\ Cardinality(T) \in Nat
  /\ (r \in S <=> r \in T) => Cardinality(T) = Cardinality(S)
  /\ r \notin S /\ r \in T => Cardinality(T) = Cardinality(S) + 1
  /\ r \in S /\ r \notin T => Cardinality(S) > 0 /\ Cardinality(T) = Cardinality(S) - 1

LEMMA OneApart ==
  ASSUME NEW S, NEW T, IsFiniteSet(S), IsFiniteSet(T), NEW r, S \ {r} = T \ {r}
  PROVE  Apart(S, T, r)
<1>1. Cardinality(S) \in Nat /\ Cardinality(T) \in Nat
  BY FS_CardinalityType
<1>2. (r \in S <=> r \in T) => S = T
  OBVIOUS
<1>3. ASSUME r \notin S, r \in T PROVE Cardinality(T) = Cardinality(S) + 1
  <2>1. T = S \cup {r}
    BY <1>3
  <2>. QED BY <1>3, <2>1, FS_AddElement
<1>4. ASSUME r \in S, r \notin T PROVE Cardinality(S) = Cardinality(T) + 1
  <2>1. S = T \cup {r}
    BY <1>4
  <2>. QED BY <1>4, <2>1, FS_AddElement
<1>. QED BY <1>1, <1>2, <1>3, <1>4 DEF Apart

(* A step of request r moves the three kinds of counts by at most one.      *)
LEMMA CountsFollow ==
  ASSUME NEW r \in Requests, OnlyOf(r)
  PROVE  /\ Apart(OnAny, OnAny', r)
         /\ \A g \in Groups : Apart(OnGroup(g), OnGroup(g)', r)
         /\ \A g \in Groups : Apart(Reserving(g), Reserving(g)', r)
<1>1. ASSUME NEW S \in SUBSET Requests PROVE IsFiniteSet(S)
  BY <1>1, FS_Subset, RequestAssumption
<1>2. ASSUME NEW g \in Groups
      PROVE  /\ IsFiniteSet(OnGroup(g)) /\ IsFiniteSet(OnGroup(g)')
             /\ OnGroup(g) \ {r} = OnGroup(g)' \ {r}
             /\ IsFiniteSet(Reserving(g)) /\ IsFiniteSet(Reserving(g)')
             /\ Reserving(g) \ {r} = Reserving(g)' \ {r}
  BY <1>1 DEF OnGroup, Reserving, OnlyOf
<1>3. /\ IsFiniteSet(OnAny) /\ IsFiniteSet(OnAny')
      /\ OnAny \ {r} = OnAny' \ {r}
  BY <1>1 DEF OnAny, OnlyOf
<1>. QED BY <1>2, <1>3, OneApart

(* The counters are right and the step of r is known.                       *)
Counting(r) ==
  /\ TrafficTyped /\ TrafficExact
  /\ r \in Requests /\ req \in [Requests -> Request] /\ OnlyOf(r)

(* The counters after the step, in terms of the sets they count.            *)
CountedNow ==
  /\ active' = Cardinality(OnAny')
  /\ \A g \in Groups : /\ byGroup'[g] = Cardinality(OnGroup(g)')
                       /\ pending'[g] = Cardinality(Reserving(g)')

LEMMA BeforeStep ==
  ASSUME NEW r \in Requests, Counting(r)
  PROVE  /\ active = Cardinality(OnAny)
         /\ \A g \in Groups : /\ byGroup[g] = Cardinality(OnGroup(g))
                              /\ pending[g] = Cardinality(Reserving(g))
  BY DEF Counting, TrafficExact, OnAny, OnGroup, Reserving

LEMMA AfterStep == CountedNow => TrafficExact'
  BY DEF CountedNow, TrafficExact, OnAny, OnGroup, Reserving

LEMMA CountsTyped ==
  ASSUME NEW counts \in [Groups -> Nat], NEW g \in Groups
  PROVE  Less(counts, g) \in [Groups -> Nat] /\ More(counts, g) \in [Groups -> Nat]
  BY DEF Less, More

(* The request stays where it is counted.                                   *)
LEMMA StaysCounted ==
  ASSUME NEW r \in Requests, Counting(r), UNCHANGED trafficVars,
         req'[r].tracked = req[r].tracked,
         req[r].phase # "keying", req'[r].phase # "keying"
  PROVE  TrafficTyped' /\ TrafficExact'
<1>1. /\ r \in OnAny <=> r \in OnAny'
      /\ \A g \in Groups : /\ r \in OnGroup(g) <=> r \in OnGroup(g)'
                           /\ r \in Reserving(g) <=> r \in Reserving(g)'
  BY DEF OnAny, OnGroup, Reserving
<1>2. CountedNow
  BY <1>1, CountsFollow, BeforeStep DEF Apart, Counting, CountedNow, trafficVars
<1>. QED BY <1>2, AfterStep DEF Counting, TrafficTyped, trafficVars

(* It is routed: the group it will ask a key for has one reservation more.  *)
LEMMA ReservesCounted ==
  ASSUME NEW r \in Requests, Counting(r), NEW g \in Groups,
         pending' = More(pending, g), UNCHANGED <<byGroup, active>>,
         req'[r].tracked = req[r].tracked,
         req[r].phase # "keying", req'[r].phase = "keying", req'[r].group = g
  PROVE  TrafficTyped' /\ TrafficExact'
<1>1. /\ r \in OnAny <=> r \in OnAny'
      /\ \A h \in Groups : /\ r \in OnGroup(h) <=> r \in OnGroup(h)'
                           /\ r \notin Reserving(h)
                           /\ r \in Reserving(h)' <=> h = g
  BY DEF OnAny, OnGroup, Reserving
<1>2. TrafficTyped'
  BY DEF Counting, TrafficTyped, More
<1>3. \A h \in Groups : pending'[h] = IF h = g THEN pending[h] + 1 ELSE pending[h]
  BY DEF Counting, TrafficTyped, More
<1>4. CountedNow
  BY <1>1, <1>3, CountsFollow, BeforeStep DEF Apart, Counting, CountedNow
<1>. QED BY <1>2, <1>4, AfterStep

(* It ends: its traffic ends with it.                                       *)
LEMMA EndsCounted ==
  ASSUME NEW r \in Requests, Counting(r), Finish(r), req[r].phase # "keying"
  PROVE  TrafficTyped' /\ TrafficExact'
<1>. DEFINE t == req[r].tracked
<1>0. /\ req'[r].tracked = NoGroup /\ req'[r].phase = "idle"
      /\ t \in Groups \cup {NoGroup}
  BY DEF Finish, Counting, IdleRequest, Request
<1>1. CASE t = NoGroup
  BY <1>0, <1>1, StaysCounted DEF Finish
<1>2. CASE t # NoGroup
  <2>1. /\ r \in OnAny /\ r \notin OnAny'
        /\ \A h \in Groups : /\ r \in OnGroup(h) <=> h = t
                             /\ r \notin OnGroup(h)'
                             /\ r \in Reserving(h) <=> r \in Reserving(h)'
    BY <1>0, <1>2, RequestAssumption DEF OnAny, OnGroup, Reserving
  <2>2. EndTraffic(t)
    BY <1>2 DEF Finish
  <2>3. TrafficTyped'
    BY <1>0, <1>2, <2>2 DEF Counting, TrafficTyped, EndTraffic, Less
  <2>4. /\ \A h \in Groups :
             byGroup'[h] = IF h # t THEN byGroup[h]
                           ELSE IF byGroup[h] > 0 THEN byGroup[h] - 1 ELSE 0
        /\ active' = IF active > 0 THEN active - 1 ELSE 0
        /\ UNCHANGED pending
    BY <1>0, <1>2, <2>2 DEF Counting, TrafficTyped, EndTraffic, Less
  <2>5. CountedNow
    BY <2>1, <2>4, CountsFollow, BeforeStep DEF Apart, Counting, CountedNow
  <2>. QED BY <2>3, <2>5, AfterStep
<1>. QED BY <1>1, <1>2

(* Its key is there: it is counted on its group, and no longer reserves it. *)
LEMMA ReadyCounted ==
  ASSUME NEW r \in Requests, Counting(r), NEW g \in Groups,
         BeginOrMove(req[r].tracked, g), pending' = Less(pending, g),
         req'[r].tracked = g,
         req[r].phase = "keying", req[r].group = g, req'[r].phase # "keying"
  PROVE  TrafficTyped' /\ TrafficExact'
<1>. DEFINE t == req[r].tracked
<1>0. t \in Groups \cup {NoGroup} /\ \A h \in Groups : h # NoGroup
  BY RequestAssumption DEF Counting, Request
<1>1. /\ r \in OnAny <=> t # NoGroup
      /\ r \in OnAny'
      /\ \A h \in Groups : /\ r \in OnGroup(h) <=> h = t
                           /\ r \in OnGroup(h)' <=> h = g
                           /\ r \in Reserving(h) <=> h = g
                           /\ r \notin Reserving(h)'
  BY <1>0 DEF OnAny, OnGroup, Reserving
<1>2. \A h \in Groups :
        pending'[h] = IF h # g THEN pending[h]
                      ELSE IF pending[h] > 0 THEN pending[h] - 1 ELSE 0
  BY DEF Counting, TrafficTyped, Less
<1>3. CASE t = NoGroup
  <2>1. /\ active' = active + 1
        /\ \A h \in Groups : byGroup'[h] = IF h = g THEN byGroup[h] + 1 ELSE byGroup[h]
    BY <1>3 DEF Counting, TrafficTyped, BeginOrMove, More
  <2>2. TrafficTyped'
    BY <1>3, CountsTyped DEF Counting, TrafficTyped, BeginOrMove
  <2>3. CountedNow
    BY <1>0, <1>1, <1>2, <1>3, <2>1, CountsFollow, BeforeStep
    DEF Apart, Counting, CountedNow
  <2>. QED BY <2>2, <2>3, AfterStep
<1>4. CASE t # NoGroup
  <2>1. /\ active' = active
        /\ \A h \in Groups :
             byGroup'[h] = IF t = g THEN byGroup[h]
                           ELSE IF h = g THEN byGroup[h] + 1
                           ELSE IF h # t THEN byGroup[h]
                           ELSE IF byGroup[h] > 0 THEN byGroup[h] - 1 ELSE 0
    BY <1>0, <1>4 DEF Counting, TrafficTyped, BeginOrMove, More, Less
  <2>2. TrafficTyped'
    <3>1. Less(byGroup, t) \in [Groups -> Nat] /\ t \in Groups
      BY <1>0, <1>4, CountsTyped DEF Counting, TrafficTyped
    <3>. QED BY <1>4, <3>1, CountsTyped DEF Counting, TrafficTyped, BeginOrMove
  <2>3. CountedNow
    BY <1>0, <1>1, <1>2, <1>4, <2>1, CountsFollow, BeforeStep
    DEF Apart, Counting, CountedNow
  <2>. QED BY <2>2, <2>3, AfterStep
<1>. QED BY <1>3, <1>4

(* Its key is not there: it ends, with its reservation and its traffic.     *)
LEMMA KeyFailsCounted ==
  ASSUME NEW r \in Requests, Counting(r), KeyFails(r), req[r].group \in Groups
  PROVE  TrafficTyped' /\ TrafficExact'
<1>. DEFINE t == req[r].tracked
            g == req[r].group
<1>0. /\ req[r].phase = "keying" /\ pending' = Less(pending, g)
      /\ req'[r].tracked = NoGroup /\ req'[r].phase = "idle"
      /\ t \in Groups \cup {NoGroup}
      /\ t = NoGroup => UNCHANGED <<byGroup, active>>
      /\ t # NoGroup => /\ byGroup' = Less(byGroup, t)
                       /\ active' = IF active > 0 THEN active - 1 ELSE 0
  BY DEF KeyFails, Counting, IdleRequest, Request
<1>1. /\ r \in OnAny <=> t # NoGroup
      /\ r \notin OnAny'
      /\ \A h \in Groups : /\ r \in OnGroup(h) <=> h = t
                           /\ r \notin OnGroup(h)'
                           /\ r \in Reserving(h) <=> h = g
                           /\ r \notin Reserving(h)'
  BY <1>0, RequestAssumption DEF OnAny, OnGroup, Reserving
<1>2. TrafficTyped'
  BY <1>0, CountsTyped DEF Counting, TrafficTyped
<1>3. \A h \in Groups :
        /\ pending'[h] = IF h # g THEN pending[h]
                        ELSE IF pending[h] > 0 THEN pending[h] - 1 ELSE 0
        /\ byGroup'[h] = IF h # t THEN byGroup[h]
                        ELSE IF byGroup[h] > 0 THEN byGroup[h] - 1 ELSE 0
  BY <1>0, RequestAssumption DEF Counting, TrafficTyped, Less
<1>4. CountedNow
  BY <1>0, <1>1, <1>3, CountsFollow, BeforeStep DEF Apart, Counting, CountedNow, TrafficTyped
<1>. QED BY <1>2, <1>4, AfterStep

(* It is tried again, or it ends.                                           *)
LEMMA RetryCounted ==
  ASSUME NEW r \in Requests, Counting(r), NEW failed,
         RetryOrFinish(r, failed), req[r].phase # "keying"
  PROVE  TrafficTyped' /\ TrafficExact'
<1>1. CASE Finish(r)
  BY <1>1, EndsCounted
<1>2. CASE ~Finish(r)
  <2>. DEFINE q == [req[r] EXCEPT !.phase = "retrying", !.failed = failed,
                       !.attempt = @ + 1, !.group = NoGroup, !.lent = FALSE]
  <2>1. req' = [req EXCEPT ![r] = q] /\ UNCHANGED trafficVars
    BY <1>2 DEF RetryOrFinish
  <2>2. q.phase = "retrying" /\ q.tracked = req[r].tracked
    BY DEF Counting, Request
  <2>. HIDE DEF q
  <2>3. req'[r] = q
    BY <2>1 DEF Counting
  <2>. QED BY <2>1, <2>2, <2>3, StaysCounted
<1>. QED BY <1>1, <1>2

(* Every step of a request keeps the counts.                                *)
LEMMA SettleCounted ==
  ASSUME NEW r \in Requests, Counting(r), Settle(r)
  PROVE  TrafficTyped' /\ TrafficExact'
<1>0. req[r].phase \in {"sent", "dropping", "streaming", "passing"}
  BY DEF Settle, AttemptFails, ClientCancels, KeyRejected, KeyDropped,
         ModelIncompatible, FirstByte, PassThrough, StreamCompletes, StreamBreaks,
         StreamAborted, PassEnds, Sent
<1>1. CASE Finish(r)
  BY <1>0, <1>1, EndsCounted
<1>2. CASE \E failed : RetryOrFinish(r, failed)
  BY <1>0, <1>2, RetryCounted
<1>3. ASSUME NEW phase \in {"dropping", "streaming", "passing"},
             req' = [req EXCEPT ![r].phase = phase], UNCHANGED trafficVars
      PROVE  TrafficTyped' /\ TrafficExact'
  <2>1. req'[r].phase = phase /\ req'[r].tracked = req[r].tracked
    BY <1>3 DEF Counting, Request
  <2>. QED BY <1>0, <1>3, <2>1, StaysCounted
<1>. QED
  BY <1>1, <1>2, <1>3
  DEF Settle, AttemptFails, ClientCancels, KeyRejected, KeyDropped,
      ModelIncompatible, FirstByte, PassThrough, StreamCompletes, StreamBreaks,
      StreamAborted, PassEnds

LEMMA TrafficInit == PathInit => TrafficInv
<1>. SUFFICES ASSUME PathInit PROVE TrafficInv
  OBVIOUS
<1>1. \A r \in Requests : req[r].tracked = NoGroup /\ req[r].phase = "idle"
  BY DEF PathInit, IdleRequest
<1>2. /\ {r \in Requests : req[r].tracked # NoGroup} = {}
      /\ \A g \in Groups :
           /\ {r \in Requests : req[r].tracked = g} = {}
           /\ {r \in Requests : req[r].phase = "keying" /\ req[r].group = g} = {}
  BY <1>1, RequestAssumption
<1>3. TrafficExact
  BY <1>2, FS_EmptySet DEF PathInit, TrafficExact
<1>. QED BY <1>3, SlotInit DEF PathInit, TrafficInv, TrafficTyped

LEMMA TrafficNext == TrafficInv /\ [PathNext]_pathVars => TrafficInv'
<1>. SUFFICES ASSUME TrafficInv, [PathNext]_pathVars PROVE TrafficTyped' /\ TrafficExact'
  BY SlotNext DEF TrafficInv
<1>0. req \in [Requests -> Request] /\ TrafficTyped /\ TrafficExact
  BY DEF TrafficInv, SlotInv
<1>1. ASSUME NEW r \in Requests, NEW at, NoRoute(r, at)
      PROVE  TrafficTyped' /\ TrafficExact'
  <2>1. Finish(r) /\ req[r].phase # "keying"
    BY <1>1 DEF NoRoute
  <2>2. Counting(r)
    BY <1>0, <2>1, FinishTyped DEF Counting
  <2>. QED BY <2>1, <2>2, EndsCounted
<1>2. ASSUME NEW r \in Requests, NEW g \in Groups, NEW at \in CallTimes, Route(r, g, at)
      PROVE  TrafficTyped' /\ TrafficExact'
  <2>. DEFINE q == [req[r] EXCEPT !.phase = "keying", !.group = g, !.at = at,
                       !.lent = groups'[g].state = "half-open"]
  <2>1. req' = [req EXCEPT ![r] = q]
    BY <1>2 DEF Route
  <2>2. q.phase = "keying" /\ q.group = g /\ q.tracked = req[r].tracked
    BY <1>0 DEF Request
  <2>. HIDE DEF q
  <2>3. Counting(r) /\ req'[r] = q
    BY <1>0, <2>1 DEF Counting, OnlyOf
  <2>. QED BY <1>2, <2>2, <2>3, ReservesCounted DEF Route
<1>3. ASSUME NEW r \in Requests, KeyReady(r)
      PROVE  TrafficTyped' /\ TrafficExact'
  <2>. DEFINE g == req[r].group
              q == [req[r] EXCEPT !.phase = "sent", !.tracked = g, !.at = 0]
  <2>1. req' = [req EXCEPT ![r] = q]
    BY <1>3 DEF KeyReady
  <2>2. q.phase = "sent" /\ q.tracked = g
    BY <1>0 DEF Request
  <2>. HIDE DEF q
  <2>3. Counting(r) /\ req'[r] = q
    BY <1>0, <2>1 DEF Counting, OnlyOf
  <2>4. g \in Groups
    BY <1>3 DEF TrafficInv, SlotInv, PlacedAt, KeyReady
  <2>. QED BY <1>3, <2>2, <2>3, <2>4, ReadyCounted DEF KeyReady
<1>4. ASSUME NEW r \in Requests, KeyFails(r)
      PROVE  TrafficTyped' /\ TrafficExact'
  <2>1. Counting(r)
    BY <1>0, <1>4 DEF Counting, OnlyOf, KeyFails
  <2>2. req[r].group \in Groups
    BY <1>4 DEF TrafficInv, SlotInv, PlacedAt, KeyFails
  <2>. QED BY <1>4, <2>1, <2>2, KeyFailsCounted
<1>5. ASSUME NEW r \in Requests, Settle(r)
      PROVE  TrafficTyped' /\ TrafficExact'
  <2>1. OnlyOf(r)
    BY <1>0, <1>5 DEF OnlyOf, Settle, AttemptFails, ClientCancels, KeyRejected,
       KeyDropped, ModelIncompatible, FirstByte, PassThrough, StreamCompletes,
       StreamBreaks, StreamAborted, PassEnds, RetryOrFinish, Finish
  <2>. QED BY <1>0, <1>5, <2>1, SettleCounted DEF Counting
<1>6. CASE Restart
  <2>1. \A r \in Requests : req'[r].tracked = NoGroup /\ req'[r].phase = "idle"
    BY <1>6 DEF Restart, IdleRequest
  <2>2. /\ {r \in Requests : req'[r].tracked # NoGroup} = {}
        /\ \A g \in Groups :
             /\ {r \in Requests : req'[r].tracked = g} = {}
             /\ {r \in Requests : req'[r].phase = "keying" /\ req'[r].group = g} = {}
    BY <2>1, RequestAssumption
  <2>. QED BY <1>6, <2>2, FS_EmptySet DEF Restart, TrafficTyped, TrafficExact
<1>7. CASE PathTick
  BY <1>0, <1>7 DEF PathTick, trafficVars, TrafficTyped, TrafficExact
<1>8. CASE UNCHANGED pathVars
  BY <1>0, <1>8 DEF pathVars, trafficVars, TrafficTyped, TrafficExact
<1>9. CASE ControlRound
  BY <1>0, <1>9 DEF ControlRound, trafficVars, TrafficTyped, TrafficExact
<1>. QED
  BY <1>1, <1>2, <1>3, <1>4, <1>5, <1>6, <1>7, <1>8, <1>9
  DEF PathNext, Arrive, Reroute, ChooseRoute, PrepareKey

(* The tracker's counts are the requests under way (TrafficExact), for any  *)
(* number of requests, groups and retries: begin, move, reserve and end     *)
(* pair up on every path through the proxy.                                 *)
THEOREM TrafficStaysExact == PathSpec => []TrafficExact
<1>1. TrafficInv => TrafficExact
  BY DEF TrafficInv
<1>. QED BY <1>1, TrafficInit, TrafficNext, PTL DEF PathSpec

(* Requests, counters and breakers keep their types; in particular no       *)
(* request makes more than MaxRetries further attempts.                     *)
THEOREM PathTypeCorrect == PathSpec => []PathTypeOK
<1>1. TrafficInv => PathTypeOK
  BY DEF TrafficInv, SlotInv, Inv, TrafficTyped, PathTypeOK
<1>. QED BY <1>1, TrafficInit, TrafficNext, PTL DEF PathSpec
-----------------------------------------------------------------------------
(* The breaker in use implements the abstract breaker.                      *)

(* How the record q of a request may change into p in a step of its own.    *)
Follows(q, p) ==
  \/ p = IdleRequest
  \/ /\ q.phase \in {"idle", "retrying"} /\ p.phase = "keying"
     /\ p.attempt = q.attempt /\ p.at \in CallTimes
  \/ /\ q.phase = "keying" /\ p.phase = "sent"
     /\ p.attempt = q.attempt /\ p.at = 0
  \/ /\ q.phase = "sent" /\ p.phase \in {"dropping", "streaming", "passing"}
     /\ p.attempt = q.attempt /\ p.at = q.at
  \/ /\ q.phase \in {"sent", "dropping"} /\ p.phase = "retrying"
     /\ q.attempt < MaxRetries /\ p.attempt = q.attempt + 1 /\ p.at = q.at

LEMMA RetryFollows ==
  ASSUME req \in [Requests -> Request], NEW r \in Requests, NEW failed,
         req[r].phase \in {"sent", "dropping"}, RetryOrFinish(r, failed)
  PROVE  OnlyOf(r) /\ Follows(req[r], req'[r])
<1>1. CASE req[r].attempt < MaxRetries /\ r \notin Unrepeatable
  <2>1. req' = [req EXCEPT ![r].phase = "retrying", ![r].failed = failed,
                           ![r].attempt = @ + 1, ![r].group = NoGroup, ![r].lent = FALSE]
    BY <1>1 DEF RetryOrFinish
  <2>. QED BY <1>1, <2>1 DEF OnlyOf, Follows, Request
<1>2. CASE ~(req[r].attempt < MaxRetries /\ r \notin Unrepeatable)
  BY <1>2 DEF RetryOrFinish, Finish, OnlyOf, Follows
<1>. QED BY <1>1, <1>2

LEMMA RequestFollows ==
  ASSUME req \in [Requests -> Request], NEW r \in Requests,
         Arrive(r) \/ Reroute(r) \/ PrepareKey(r) \/ Settle(r)
  PROVE  OnlyOf(r) /\ Follows(req[r], req'[r])
<1>. DEFINE Done == OnlyOf(r) /\ Follows(req[r], req'[r])
<1>1. Finish(r) => Done
  BY DEF Finish, OnlyOf, Follows
<1>2. ASSUME NEW g \in Groups, NEW at \in CallTimes, Route(r, g, at)
      PROVE  Done
  <2>1. /\ req[r].phase \in {"idle", "retrying"}
        /\ \E lent : req' = [req EXCEPT ![r].phase = "keying", ![r].group = g,
                                        ![r].at = at, ![r].lent = lent]
    BY <1>2 DEF Route
  <2>. QED BY <2>1 DEF OnlyOf, Follows, Request
<1>3. ASSUME NEW at \in CallTimes, NoRoute(r, at)
      PROVE  Done
  BY <1>1, <1>3 DEF NoRoute
<1>4. CASE PrepareKey(r)
  <2>1. CASE KeyReady(r)
    <3>1. /\ req[r].phase = "keying"
          /\ req' = [req EXCEPT ![r].phase = "sent", ![r].tracked = req[r].group,
                                ![r].at = 0]
      BY <2>1 DEF KeyReady
    <3>. QED BY <3>1 DEF OnlyOf, Follows, Request
  <2>2. CASE KeyFails(r)
    BY <2>2 DEF KeyFails, OnlyOf, Follows
  <2>. QED BY <1>4, <2>1, <2>2 DEF PrepareKey
<1>5. CASE AttemptFails(r) \/ KeyDropped(r) \/ ModelIncompatible(r)
  BY <1>5, RetryFollows DEF AttemptFails, KeyDropped, ModelIncompatible, Sent
<1>6. CASE KeyRejected(r) \/ FirstByte(r) \/ PassThrough(r)
  <2>1. /\ req[r].phase = "sent"
        /\ \E phase \in {"dropping", "streaming", "passing"} :
             req' = [req EXCEPT ![r].phase = phase]
    BY <1>6 DEF KeyRejected, FirstByte, PassThrough, Sent
  <2>. QED BY <2>1 DEF OnlyOf, Follows, Request
<1>7. CASE \/ ClientCancels(r) \/ StreamCompletes(r) \/ StreamBreaks(r)
           \/ StreamAborted(r) \/ PassEnds(r)
  BY <1>1, <1>7 DEF ClientCancels, StreamCompletes, StreamBreaks, StreamAborted, PassEnds
<1>. QED
  BY <1>2, <1>3, <1>4, <1>5, <1>6, <1>7 DEF Arrive, Reroute, ChooseRoute, Settle

(* The time at which routing started, at which a failed key preparation     *)
(* gives the slot back, is past.                                            *)
RoutedBefore == \A r \in Requests : req[r].at <= now

LEMMA RoutedNext == SlotInv /\ RoutedBefore /\ [PathNext]_pathVars => RoutedBefore'
<1>. SUFFICES ASSUME SlotInv, RoutedBefore, [PathNext]_pathVars, NEW q \in Requests
              PROVE  req'[q].at <= now'
  BY DEF RoutedBefore
<1>0. /\ req \in [Requests -> Request] /\ now \in Nat /\ 0 <= now
      /\ req[q].at \in Nat /\ req[q].at <= now
  BY DEF SlotInv, Inv, TypeOK, Times, RoutedBefore, Request
<1>1. ASSUME NEW r \in Requests, Arrive(r) \/ Reroute(r) \/ PrepareKey(r) \/ Settle(r)
      PROVE  req'[q].at <= now'
  <2>1. OnlyOf(r) /\ Follows(req[r], req'[r])
    BY <1>0, <1>1, RequestFollows
  <2>2. now' = now
    BY <1>1 DEF Arrive, Reroute, ChooseRoute, Route, NoRoute, PrepareKey, KeyReady, KeyFails,
       Settle, AttemptFails, ClientCancels, KeyRejected, KeyDropped, ModelIncompatible,
       FirstByte, PassThrough, StreamCompletes, StreamBreaks, StreamAborted, PassEnds,
       Report, vars
  <2>3. CASE q = r
    BY <1>0, <2>1, <2>2, <2>3 DEF Follows, IdleRequest, CallTimes
  <2>4. CASE q # r
    BY <1>0, <2>1, <2>2, <2>4 DEF OnlyOf
  <2>. QED BY <2>3, <2>4
<1>2. CASE Restart
  BY <1>0, <1>2 DEF Restart, FromJSON, IdleRequest
<1>3. CASE ControlRound
  BY <1>0, <1>3 DEF ControlRound, ToJSON, Snapshot
<1>4. CASE PathTick
  BY <1>0, <1>4 DEF PathTick, Tick
<1>5. CASE UNCHANGED pathVars
  BY <1>0, <1>5 DEF pathVars, vars
<1>. QED BY <1>1, <1>2, <1>3, <1>4, <1>5 DEF PathNext

(* Routing looks at all groups, and twice at the one it asks.               *)
LEMMA RouteMaps ==
  ASSUME Inv, NEW g \in Groups, NEW at \in CallTimes,
         groups' \in {RefreshAll(at), [RefreshAll(at) EXCEPT ![g] = Asked(@, at)]},
         UNCHANGED <<saved, now>>
  PROVE  [Abstract!Next]_(Abstract!vars)
<1>. DEFINE next == [h \in Groups |-> groups'[h]]
<1>0. /\ at \in Times /\ now \in Times /\ at <= now
      /\ \A h \in Groups : Good(groups[h], now) /\ groups[h] \in Breaker
  BY DEF Inv, TypeOK, CallTimes
<1>1. ASSUME NEW h \in Groups PROVE Cools(groups[h], Refresh(groups[h], at), now)
  BY <1>0, RefreshOutline
<1>2. Cools(groups[g], Asked(Refresh(groups[g], at), at), now)
  <2>. DEFINE r == Refresh(groups[g], at)
  <2>1. /\ r \in Breaker
        /\ r.state = IF Cooled(groups[g], at) THEN "half-open" ELSE groups[g].state
        /\ r.openedAt = groups[g].openedAt /\ r.openCount = groups[g].openCount
    BY <1>0, RefreshFields
  <2>2. Cooled(r, at) => Cooled(groups[g], at) /\ r.state = "open"
    BY <2>1, CooldownIsNth DEF Cooled
  <2>3. ~Cooled(r, at)
    BY <2>1, <2>2
  <2>4. Alike(r, Refresh(r, at)) /\ Alike(Refresh(r, at), Asked(r, at))
    <3>. HIDE DEF r
    <3>. QED BY <1>0, <2>1, <2>3, RefreshFields, HelperOutage DEF Alike
  <2>5. Outline(Asked(r, at)) = Outline(r)
    BY <2>4, AlikeOutline
  <2>. QED BY <1>1, <2>5 DEF Cools
<1>3. \A h \in Groups : Cools(groups[h], next[h], now)
  BY <1>1, <1>2 DEF RefreshAll
<1>4. groups' = [h \in Groups |-> next[h]]
  BY DEF RefreshAll
<1>. HIDE DEF next
<1>. QED BY <1>3, <1>4, AllGroupsCool

(* A report, which may reach the disk at once.                              *)
LEMMA ReportMaps ==
  ASSUME Inv, NEW g \in Groups, NEW c, Good(c, now), Report(g, c),
         Cools(groups[g], c, now) \/ Recovers(groups[g], c, now) \/ Trips(groups[g], c, now)
  PROVE  [Abstract!Next]_(Abstract!vars)
<1>1. groups \in [Groups -> Breaker] /\ groups' = [groups EXCEPT ![g] = c] /\ now' = now
  BY DEF Inv, TypeOK, Report
<1>2. groups' \in [Groups -> Breaker]
  BY <1>1 DEF Good
<1>3. Outlines(saved') \in {Outlines(saved), Outlines(groups')}
  BY <1>2, SavedOutlines DEF Report
<1>. QED BY <1>1, <1>3, OneGroupMoves

LEMMA SettleMaps ==
  ASSUME SlotInv, NEW r \in Requests, Settle(r)
  PROVE  [Abstract!Next]_(Abstract!vars)
<1>. DEFINE g == req[r].group
<1>1. req[r].phase \in {"sent", "dropping", "streaming", "passing"}
  BY DEF Settle, AttemptFails, ClientCancels, KeyRejected, KeyDropped, ModelIncompatible,
         FirstByte, PassThrough, StreamCompletes, StreamBreaks, StreamAborted, PassEnds, Sent
<1>2. /\ Inv /\ g \in Groups /\ Good(groups[g], now) /\ now \in Times /\ now <= now
  BY <1>1 DEF SlotInv, PlacedAt, Inv, TypeOK, Times
<1>3. /\ Good(Released(groups[g], now), now) /\ Good(Failed(groups[g], now), now)
      /\ Good(Succeeded(groups[g], now), now)
  BY <1>2, ReleasedGood, FailedGood, SucceededGood
<1>4. /\ Cools(groups[g], Released(groups[g], now), now)
      /\ \/ Cools(groups[g], Succeeded(groups[g], now), now)
         \/ Recovers(groups[g], Succeeded(groups[g], now), now)
      /\ \/ Cools(groups[g], Failed(groups[g], now), now)
         \/ Trips(groups[g], Failed(groups[g], now), now)
  BY <1>2, HelperOutlines
<1>5. \/ UNCHANGED vars
      \/ Report(g, Released(groups[g], now))
      \/ Report(g, Failed(groups[g], now))
      \/ Report(g, Succeeded(groups[g], now))
  BY DEF Settle, AttemptFails, ClientCancels, KeyRejected, KeyDropped, ModelIncompatible,
         FirstByte, PassThrough, StreamCompletes, StreamBreaks, StreamAborted, PassEnds
<1>6. CASE UNCHANGED vars
  BY <1>6 DEF vars, Abstract!vars
<1>. HIDE DEF g
<1>7. CASE ~UNCHANGED vars
  BY <1>2, <1>3, <1>4, <1>5, <1>7, ReportMaps
<1>. QED BY <1>6, <1>7

LEMMA KeyFailsMaps ==
  ASSUME SlotInv, RoutedBefore, NEW r \in Requests, KeyFails(r)
  PROVE  [Abstract!Next]_(Abstract!vars)
<1>. DEFINE g == req[r].group
            c == Released(groups[g], req[r].at)
<1>1. /\ Inv /\ g \in Groups /\ Good(groups[g], now) /\ now \in Times
      /\ req[r].at \in Times /\ req[r].at <= now
  BY DEF SlotInv, PlacedAt, Inv, TypeOK, Request, KeyFails, RoutedBefore
<1>2. Good(c, now) /\ Cools(groups[g], c, now)
  BY <1>1, ReleasedGood, HelperOutlines
<1>3. Report(g, c)
  BY DEF KeyFails, Report
<1>. HIDE DEF c, g
<1>. QED BY <1>1, <1>2, <1>3, ReportMaps

LEMMA PathMaps == SlotInv /\ RoutedBefore /\ [PathNext]_pathVars => [Abstract!Next]_(Abstract!vars)
<1>. SUFFICES ASSUME SlotInv, RoutedBefore, [PathNext]_pathVars
              PROVE  [Abstract!Next]_(Abstract!vars)
  OBVIOUS
<1>0. Inv
  BY DEF SlotInv
<1>1. ASSUME NEW r \in Requests, NEW at \in CallTimes, NEW g \in Groups, Route(r, g, at)
      PROVE  [Abstract!Next]_(Abstract!vars)
  BY <1>0, <1>1, RouteMaps DEF Route
<1>2. ASSUME NEW r \in Requests, NEW at \in CallTimes, NoRoute(r, at)
      PROVE  [Abstract!Next]_(Abstract!vars)
  <2>. DEFINE next == [g \in Groups |-> Refresh(groups[g], at)]
  <2>1. \A g \in Groups : Cools(groups[g], next[g], now)
    BY <1>0, RefreshOutline DEF Inv, TypeOK, CallTimes
  <2>2. groups' = [g \in Groups |-> next[g]] /\ now' = now /\ saved' = saved
    BY <1>2 DEF NoRoute, RefreshAll
  <2>. HIDE DEF next
  <2>. QED BY <2>1, <2>2, AllGroupsCool
<1>3. ASSUME NEW r \in Requests, KeyReady(r)
      PROVE  [Abstract!Next]_(Abstract!vars)
  BY <1>3 DEF KeyReady, vars, Abstract!vars
<1>4. ASSUME NEW r \in Requests, KeyFails(r)
      PROVE  [Abstract!Next]_(Abstract!vars)
  BY <1>4, KeyFailsMaps
<1>5. ASSUME NEW r \in Requests, Settle(r)
      PROVE  [Abstract!Next]_(Abstract!vars)
  BY <1>5, SettleMaps
<1>6. CASE ControlRound \/ Restart \/ PathTick
  BY <1>0, <1>6, StepMaps DEF ControlRound, Restart, PathTick, Next
<1>7. CASE UNCHANGED pathVars
  BY <1>0, <1>7, StepMaps DEF pathVars
<1>. QED
  BY <1>1, <1>2, <1>3, <1>4, <1>5, <1>6, <1>7
  DEF PathNext, Arrive, Reroute, ChooseRoute, PrepareKey

(* In use too, the breaker keeps its promise to its callers: although a     *)
(* step of a request looks at all groups, asks one and saves, and outcomes  *)
(* come in late, for attempts admitted before an outage, a group leaves an  *)
(* outage only after a cooldown of BaseCooldown to MaxCooldown.             *)
THEOREM ImplementsBreakerInUse == PathSpec => RefinesAbstractBreaker
<1>1. PathInit => RoutedBefore
  BY DEF PathInit, Init, RoutedBefore, IdleRequest
<1>2. PathInit => Abstract!Init
  BY InitMaps DEF PathInit
<1>. QED
  BY <1>1, <1>2, SlotInit, SlotNext, RoutedNext, PathMaps, PTL
  DEF PathSpec, RefinesAbstractBreaker, Abstract!Spec

-----------------------------------------------------------------------------
(* Requests run out of steps.                                               *)

PhaseRank == [retrying |-> 5, keying |-> 4, sent |-> 3, dropping |-> 2, streaming |-> 2,
              passing |-> 2]

(* A bound on the steps that a request has left.                            *)
StepsLeft(q) ==
  IF q.phase = "idle" THEN 0 ELSE 4 * (MaxRetries - q.attempt) + PhaseRank[q.phase]

(* Whatever a request under way does or meets, it has fewer steps left than *)
(* before: no path from a retry, a rejected key or an incompatible model    *)
(* leads back to where the request has been (proxy.ts, the attempt loop).   *)
StepsRunOut ==
  [][\A r \in Requests :
       req[r].phase # "idle" /\ req'[r] # req[r]
       => /\ StepsLeft(req[r]) \in 1 .. 4 * MaxRetries + 5
          /\ StepsLeft(req'[r]) \in 0 .. StepsLeft(req[r]) - 1]_pathVars

LEMMA StepsBounded ==
  ASSUME NEW q \in Request, q.phase # "idle"
  PROVE  StepsLeft(q) \in 1 .. 4 * MaxRetries + 5
<1>1. q.attempt \in 0 .. MaxRetries /\ PhaseRank[q.phase] \in 2 .. 5
  BY DEF Request, Phases, PhaseRank
<1>. HIDE DEF PhaseRank
<1>. QED BY <1>1, RequestAssumption DEF StepsLeft

LEMMA FollowsDown ==
  ASSUME NEW q \in Request, NEW p \in Request, q.phase # "idle", Follows(q, p)
  PROVE  StepsLeft(p) \in 0 .. StepsLeft(q) - 1
<1>1. /\ q.attempt \in 0 .. MaxRetries /\ p.attempt \in 0 .. MaxRetries
      /\ PhaseRank[q.phase] \in 2 .. 5
      /\ q.phase = "keying" => PhaseRank[q.phase] = 4
      /\ q.phase = "sent" => PhaseRank[q.phase] = 3
      /\ q.phase = "retrying" => PhaseRank[q.phase] = 5
      /\ p.phase = "keying" => PhaseRank[p.phase] = 4
      /\ p.phase = "sent" => PhaseRank[p.phase] = 3
      /\ p.phase = "retrying" => PhaseRank[p.phase] = 5
      /\ p.phase \in {"dropping", "streaming", "passing"} => PhaseRank[p.phase] = 2
  BY DEF Request, Phases, PhaseRank
<1>2. StepsLeft(q) \in 1 .. 4 * MaxRetries + 5
  BY StepsBounded
<1>3. StepsLeft(q) = 4 * (MaxRetries - q.attempt) + PhaseRank[q.phase]
  BY DEF StepsLeft
<1>4. CASE p = IdleRequest
  BY <1>2, <1>4 DEF StepsLeft, IdleRequest
<1>. HIDE DEF PhaseRank
<1>5. CASE p # IdleRequest
  <2>1. p.phase # "idle"
    BY <1>5 DEF Follows
  <2>2. StepsLeft(p) = 4 * (MaxRetries - p.attempt) + PhaseRank[p.phase]
    BY <2>1 DEF StepsLeft
  <2>3. StepsLeft(p) \in 1 .. 4 * MaxRetries + 5
    BY <2>1, StepsBounded
  <2>. HIDE DEF StepsLeft
  <2>. QED BY <1>1, <1>2, <1>3, <1>5, <2>2, <2>3, RequestAssumption DEF Follows
<1>. QED BY <1>4, <1>5

(* A request makes at most 4 * MaxRetries + 5 steps of its own until it     *)
(* ends: what RequestEnds needs besides that none of them is waited for in  *)
(* vain.                                                                    *)
THEOREM RequestsRunOut == PathSpec => StepsRunOut
<1>. DEFINE Down == \A r \in Requests :
                      req[r].phase # "idle" /\ req'[r] # req[r]
                      => /\ StepsLeft(req[r]) \in 1 .. 4 * MaxRetries + 5
                         /\ StepsLeft(req'[r]) \in 0 .. StepsLeft(req[r]) - 1
<1>1. SlotInv /\ SlotInv' /\ [PathNext]_pathVars => Down
  <2>. SUFFICES ASSUME SlotInv, SlotInv', [PathNext]_pathVars,
                       NEW r \in Requests, req[r].phase # "idle", req'[r] # req[r]
                PROVE  /\ StepsLeft(req[r]) \in 1 .. 4 * MaxRetries + 5
                       /\ StepsLeft(req'[r]) \in 0 .. StepsLeft(req[r]) - 1
    OBVIOUS
  <2>0. req \in [Requests -> Request] /\ req' \in [Requests -> Request]
    BY DEF SlotInv
  <2>1. Follows(req[r], req'[r])
    <3>1. CASE \E q \in Requests : Arrive(q) \/ Reroute(q) \/ PrepareKey(q) \/ Settle(q)
      BY <2>0, <3>1, RequestFollows DEF OnlyOf
    <3>2. CASE Restart
      BY <3>2 DEF Restart, Follows
    <3>3. CASE ControlRound \/ PathTick \/ UNCHANGED pathVars
      BY <3>3 DEF ControlRound, PathTick, pathVars
    <3>. QED BY <3>1, <3>2, <3>3 DEF PathNext
  <2>. QED BY <2>0, <2>1, StepsBounded, FollowsDown
<1>. QED
  BY <1>1, SlotInit, SlotNext, PTL DEF PathSpec, StepsRunOut
=============================================================================
