---------------------------- MODULE ProxyRequests ----------------------------
(***************************************************************************)
(* The life of proxied requests in pool mode (apps/router/src/proxy.ts,    *)
(* handleProxyRequest, with daemon.ts routePool and prepareRequestKey),    *)
(* composed with the CircuitBreaker they are admitted by and the           *)
(* TrafficTracker (traffic.ts) that counts them.                           *)
(*                                                                         *)
(* JavaScript runs one callback at a time, so the code between two awaits  *)
(* is one action.  A request is a slot of a client and is reused when it   *)
(* ends.  Which group routing prefers (scores, affinity, manual lock) is   *)
(* left open: it may pick any group the breaker admits and the request has *)
(* not failed on, or none.                                                 *)
(***************************************************************************)
EXTENDS CircuitBreaker, FiniteSets

CONSTANTS
  Requests,    \* slots of concurrent client requests
  Unrepeatable,\* requests whose body is too large to be sent twice
  MaxRetries,  \* maxRetries
  NoGroup

ASSUME RequestAssumption ==
  /\ IsFiniteSet(Requests) /\ Unrepeatable \subseteq Requests
  /\ MaxRetries \in Nat
  /\ NoGroup \notin Groups

VARIABLES
  req,      \* [Requests -> Request]
  byGroup,  \* [Groups -> Nat]: TrafficTracker.byGroup
  pending,  \* [Groups -> Nat]: TrafficTracker.pendingByGroup
  active    \* TrafficTracker.active

trafficVars == <<byGroup, pending, active>>
pathVars == <<vars, req, trafficVars>>

(* keying: admitted and reserved, the key is being prepared;                *)
(* sent: waiting for the first byte;  retrying: about to route again;       *)
(* dropping: a rejected key is being invalidated;                           *)
(* streaming: a successful response is piped;                               *)
(* passing: another response is piped, its neutral outcome is reported.     *)
Phases == {"idle", "keying", "sent", "dropping", "retrying", "streaming", "passing"}

Request == [phase : Phases, group : Groups \cup {NoGroup},
            tracked : Groups \cup {NoGroup}, failed : SUBSET Groups,
            attempt : 0 .. MaxRetries, at : Times, lent : BOOLEAN]

(* `lent' is a history variable: the admission took a half-open probe slot. *)
IdleRequest == [phase |-> "idle", group |-> NoGroup, tracked |-> NoGroup,
                failed |-> {}, attempt |-> 0, at |-> 0, lent |-> FALSE]

PathTypeOK ==
  /\ TypeOK
  /\ req \in [Requests -> Request]
  /\ byGroup \in [Groups -> Nat] /\ pending \in [Groups -> Nat] /\ active \in Nat

PathInit ==
  /\ Init
  /\ req = [r \in Requests |-> IdleRequest]
  /\ byGroup = [g \in Groups |-> 0]
  /\ pending = byGroup
  /\ active = 0

-----------------------------------------------------------------------------
(* Counters of the TrafficTracker: no count ever goes below zero.           *)
Less(counts, g) == [counts EXCEPT ![g] = IF @ > 0 THEN @ - 1 ELSE 0]
More(counts, g) == [counts EXCEPT ![g] = @ + 1]

(* Slip: every attempt begins, none moves.                                  *)
BeginAgain(from, to) == byGroup' = More(byGroup, to) /\ active' = active + 1

BeginOrMove(from, to) ==
  IF from = NoGroup
    THEN byGroup' = More(byGroup, to) /\ active' = active + 1
    ELSE /\ byGroup' = IF from = to THEN byGroup ELSE More(Less(byGroup, from), to)
         /\ UNCHANGED active

EndTraffic(g) ==
  /\ byGroup' = Less(byGroup, g)
  /\ active' = IF active > 0 THEN active - 1 ELSE 0
  /\ UNCHANGED pending

(* reportSuccess, reportFailure, reportNeutral: the breaker changes and its *)
(* serialized form is handed to the debounced state file.  Whether this     *)
(* copy is the last to reach the disk before a crash is decided here.       *)
Report(g, breaker) ==
  /\ groups' = [groups EXCEPT ![g] = breaker]
  /\ saved' \in {saved, [h \in Groups |-> Serialized(groups'[h])]}
  /\ UNCHANGED now

(* The request is over: its traffic ends and its slot becomes idle.         *)
Finish(r) ==
  /\ req' = [req EXCEPT ![r] = IdleRequest]
  /\ IF req[r].tracked = NoGroup THEN UNCHANGED trafficVars
                                 ELSE EndTraffic(req[r].tracked)

(* After a failed attempt: the next one while any is left and the body can  *)
(* be sent again, else the last error goes to the client.                   *)
(* Slips: one attempt too many; attempts are not counted.                   *)
RetryOnceMore(r, failed) ==
  IF req[r].attempt <= MaxRetries /\ r \notin Unrepeatable
    THEN /\ req' = [req EXCEPT ![r].phase = "retrying", ![r].failed = failed,
                               ![r].attempt = @ + 1, ![r].group = NoGroup,
                               ![r].lent = FALSE]
         /\ UNCHANGED trafficVars
    ELSE Finish(r)
RetryUncounted(r, failed) ==
  IF req[r].attempt < MaxRetries /\ r \notin Unrepeatable
    THEN /\ req' = [req EXCEPT ![r].phase = "retrying", ![r].failed = failed,
                               ![r].group = NoGroup, ![r].lent = FALSE]
         /\ UNCHANGED trafficVars
    ELSE Finish(r)

RetryOrFinish(r, failed) ==
  IF req[r].attempt < MaxRetries /\ r \notin Unrepeatable
    THEN /\ req' = [req EXCEPT ![r].phase = "retrying", ![r].failed = failed,
                               ![r].attempt = @ + 1, ![r].group = NoGroup,
                               ![r].lent = FALSE]
         /\ UNCHANGED trafficVars
    ELSE Finish(r)

-----------------------------------------------------------------------------
(* Routing.                                                                 *)

RefreshAll(at) == [g \in Groups |-> Refresh(groups[g], at)]

(* routePool: one group is admitted by allowRequest, which takes the slot   *)
(* of a half-open group; the others are only looked at.                     *)
Route(r, g, at) ==
  /\ req[r].phase \in {"idle", "retrying"}
  /\ g \notin req[r].failed
  /\ Admits(groups[g], at)
  /\ groups' = [RefreshAll(at) EXCEPT ![g] = Asked(@, at)]
  /\ req' = [req EXCEPT ![r].phase = "keying", ![r].group = g, ![r].at = at,
                        ![r].lent = groups'[g].state = "half-open"]
  /\ pending' = More(pending, g)
  /\ UNCHANGED <<saved, now, byGroup, active>>

(* No candidate is left, or routing throws: 503 or the last error.          *)
NoRoute(r, at) ==
  /\ req[r].phase \in {"idle", "retrying"}
  /\ groups' = RefreshAll(at)
  /\ Finish(r)
  /\ UNCHANGED <<saved, now>>

(* acquireKey delivers: the request is counted, then the reservation ends.  *)
KeyReady(r) ==
  LET g == req[r].group IN
  /\ req[r].phase = "keying"
  /\ BeginOrMove(req[r].tracked, g)
  /\ pending' = Less(pending, g)
  /\ req' = [req EXCEPT ![r].phase = "sent", ![r].tracked = g, ![r].at = 0]
  /\ UNCHANGED vars

(* acquireKey throws: the reservation and the probe slot are given back at  *)
(* the time routing started, and the request ends.                          *)
KeyFails(r) ==
  LET g == req[r].group IN
  /\ req[r].phase = "keying"
  /\ groups' = [groups EXCEPT ![g] = Released(@, req[r].at)]
  /\ pending' = Less(pending, g)
  /\ req' = [req EXCEPT ![r] = IdleRequest]
  /\ IF req[r].tracked = NoGroup
       THEN UNCHANGED <<byGroup, active>>
       ELSE /\ byGroup' = Less(byGroup, req[r].tracked)
            /\ active' = IF active > 0 THEN active - 1 ELSE 0
  /\ UNCHANGED <<saved, now>>

-----------------------------------------------------------------------------
(* What comes back before the first byte of a usable response.              *)

Sent(r) == req[r].phase = "sent"

(* Connection error, TTFB timeout, 429, 5xx or a billing 403: markFailure   *)
(* (routing never returns a failed group, so it is never marked twice).     *)
AttemptFails(r) ==
  LET g == req[r].group IN
  /\ Sent(r)
  /\ Outcomes(groups[g]) < MaxPerInstant
  /\ Report(g, Failed(groups[g], now))
  /\ RetryOrFinish(r, req[r].failed \cup {g})

(* The client went away: no verdict on the group, no retry.                 *)
(* Slip: the request just ends.                                             *)
ClientCancelsSilently(r) ==
  /\ Sent(r)
  /\ Finish(r)
  /\ UNCHANGED vars

ClientCancels(r) ==
  /\ Sent(r)
  /\ Report(req[r].group, Released(groups[req[r].group], now))
  /\ Finish(r)

(* 401 on a managed key: neutral, the key is dropped behind the pool's      *)
(* queue, and the group stays a candidate of the next attempt.              *)
KeyRejected(r) ==
  /\ Sent(r)
  /\ Report(req[r].group, Released(groups[req[r].group], now))
  /\ req' = [req EXCEPT ![r].phase = "dropping"]
  /\ UNCHANGED trafficVars

KeyDropped(r) ==
  /\ req[r].phase = "dropping"
  /\ RetryOrFinish(r, req[r].failed)
  /\ UNCHANGED vars

(* The group does not serve this model: neutral, but not tried again.       *)
ModelIncompatible(r) ==
  LET g == req[r].group IN
  /\ Sent(r)
  /\ Report(g, Released(groups[g], now))
  /\ RetryOrFinish(r, req[r].failed \cup {g})

(* A successful response starts to flow.                                    *)
FirstByte(r) ==
  /\ Sent(r)
  /\ req' = [req EXCEPT ![r].phase = "streaming"]
  /\ UNCHANGED <<vars, trafficVars>>

(* Any other response is passed on: neutral at once, then piped.            *)
PassThrough(r) ==
  /\ Sent(r)
  /\ Report(req[r].group, Released(groups[req[r].group], now))
  /\ req' = [req EXCEPT ![r].phase = "passing"]
  /\ UNCHANGED trafficVars

-----------------------------------------------------------------------------
(* How a piped response ends.                                               *)

StreamCompletes(r) ==
  LET g == req[r].group IN
  /\ req[r].phase = "streaming"
  /\ Outcomes(groups[g]) < MaxPerInstant
  /\ Report(g, Succeeded(groups[g], now))
  /\ Finish(r)

StreamBreaks(r) ==
  LET g == req[r].group IN
  /\ req[r].phase = "streaming"
  /\ Outcomes(groups[g]) < MaxPerInstant
  /\ Report(g, Failed(groups[g], now))
  /\ Finish(r)

(* settleNeutral: also for a passed-through response, whose neutral outcome *)
(* was reported already.                                                    *)
StreamAborted(r) ==
  /\ req[r].phase \in {"streaming", "passing"}
  /\ Report(req[r].group, Released(groups[req[r].group], now))
  /\ Finish(r)

(* recordSuccess and recordStreamFailure do nothing for a response that is  *)
(* not ok.                                                                  *)
PassEnds(r) ==
  /\ req[r].phase = "passing"
  /\ Finish(r)
  /\ UNCHANGED vars

-----------------------------------------------------------------------------
(* The process dies and restarts: requests and counters are gone, breakers  *)
(* come back from the last copy that reached the disk.                      *)
Restart ==
  /\ FromJSON
  /\ req' = [r \in Requests |-> IdleRequest]
  /\ byGroup' = [g \in Groups |-> 0]
  /\ pending' = [g \in Groups |-> 0]
  /\ active' = 0

(* At any other moment the control plane looks at all breakers (a round, a  *)
(* status query) or saves them (the end of a round, a shutdown).            *)
ControlRound ==
  /\ ToJSON \/ \E at \in CallTimes : Snapshot(at)
  /\ UNCHANGED <<req, trafficVars>>

PathTick == Tick /\ UNCHANGED <<req, trafficVars>>

(* An attempt settles: by an answer, by its TTFB timeout, or by the end of  *)
(* its stream.                                                              *)
Settle(r) ==
  \/ AttemptFails(r) \/ ClientCancels(r) \/ KeyRejected(r) \/ KeyDropped(r)
  \/ ModelIncompatible(r)
  \/ FirstByte(r) \/ PassThrough(r)
  \/ StreamCompletes(r) \/ StreamBreaks(r) \/ StreamAborted(r) \/ PassEnds(r)

PrepareKey(r) == KeyReady(r) \/ KeyFails(r)

ChooseRoute(r) ==
  \E at \in CallTimes : NoRoute(r, at) \/ \E g \in Groups : Route(r, g, at)

Arrive(r) == req[r].phase = "idle" /\ ChooseRoute(r)

Reroute(r) == req[r].phase = "retrying" /\ ChooseRoute(r)

PathNext ==
  \/ \E r \in Requests : Arrive(r) \/ Reroute(r) \/ PrepareKey(r) \/ Settle(r)
  \/ ControlRound
  \/ Restart
  \/ PathTick

PathSpec == PathInit /\ [][PathNext]_pathVars

(* A started request moves on: key preparation answers or throws, a sent    *)
(* attempt is cut by the TTFB timer, routing returns.  That a stream which  *)
(* started also ends is an assumption about upstreams and clients: the      *)
(* proxy has no idle timeout.                                               *)
FairPathSpec ==
  /\ PathSpec
  /\ \A r \in Requests : WF_pathVars(Reroute(r) \/ PrepareKey(r) \/ Settle(r))

-----------------------------------------------------------------------------
(* Properties.                                                              *)

(* The request has taken a half-open slot of g and not yet reported back.   *)
Unsettled(r) == req[r].phase \in {"keying", "sent", "streaming"}
Probes(g) == {r \in Requests : Unsettled(r) /\ req[r].lent /\ req[r].group = g}

(* No probe slot leaks: while a half-open group refuses requests because a  *)
(* probe is out, the request that took the slot is really still under way.  *)
(* Every path on which an attempt ends must report (proxy.ts catch, 401,    *)
(* model, billing, 5xx, stream settle; daemon.ts prepareRequestKey), and a  *)
(* restart, which loses the request, must lose the slot.                    *)
ProbeSlotHeld == \A g \in Groups : groups[g].probe => Probes(g) # {}

(* The tracker's counts are the requests that are really under way: pool    *)
(* eviction and load balancing trust them (begin, move and end must pair up *)
(* on every path, retries to another group included).                       *)
TrafficExact ==
  /\ active = Cardinality({r \in Requests : req[r].tracked # NoGroup})
  /\ \A g \in Groups :
       /\ byGroup[g] = Cardinality({r \in Requests : req[r].tracked = g})
       /\ pending[g] = Cardinality({r \in Requests :
                                     req[r].phase = "keying" /\ req[r].group = g})

(* ALGORITHM.md, section 8: after the cooldown only one request probes a    *)
(* half-open group.                                                         *)
SingleProbe == \A g \in Groups : Cardinality(Probes(g)) <= 1

(* A probe slot that is out comes back: a half-open group is never refused  *)
(* for ever because of a request that ended without a verdict.              *)
ProbeComesBack == \A g \in Groups : groups[g].probe ~> ~groups[g].probe

(* Every request ends, whatever its upstreams answer: no retry path waits   *)
(* for something that nobody does.                                          *)
RequestEnds == \A r \in Requests : req[r].phase # "idle" ~> req[r].phase = "idle"
=============================================================================
