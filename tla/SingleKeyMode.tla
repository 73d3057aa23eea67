---------------------------- MODULE SingleKeyMode ----------------------------
(***************************************************************************)
(* Single-key mode: all requests share one key of the account, whose group *)
(* is changed by PUT for the next request or by a round.  The lease of     *)
(* SingleKeyGate (traffic.ts) is held around a whole request (proxy.ts,    *)
(* handleProxy) and around the switch of a round (daemon.ts).              *)
(*                                                                         *)
(* Which groups a routing finds usable, and which one is locked, is left   *)
(* open (ControlPlane); the breaker (CircuitBreaker) is reduced to what    *)
(* admits requests.                                                        *)
(***************************************************************************)
EXTENDS Integers, Sequences

CONSTANTS
  Groups, NoGroup,
  Requests,     \* slots of concurrent client requests
  Unrepeatable, \* requests whose body is too large to be sent twice
  MaxRetries,   \* maxRetries
  Round         \* the round that is under way, if any

ASSUME SingleKeyAssumption ==
  /\ NoGroup \notin Groups /\ Round \notin Requests
  /\ Unrepeatable \subseteq Requests /\ MaxRetries \in Nat

Callers == Requests \cup {Round}

VARIABLES
  gate,     \* SingleKeyGate: who asked for the lease, its holder first
  call,     \* [Callers -> Call]
  current,  \* state.currentGroupId
  disk,     \* the same in the state file
  circuit,  \* [Groups -> Circuits]
  remote,   \* the group of the key at AIHub
  late,     \* groups of PUTs nobody waits for any more and that may yet arrive
  lost      \* history: since the last answered PUT, such a PUT took effect or
            \* the process came back with another current group

vars == <<gate, call, current, disk, circuit, remote, late, lost>>

(* waiting: for the lease;  routing: for statistics;  moving: for the       *)
(* answer to the PUT;  saving: for the write of the state;  sent: for the   *)
(* first byte;  streaming, passing: a successful or another response is     *)
(* piped.                                                                   *)
Stages == {"idle", "waiting", "routing", "moving", "saving", "sent", "streaming",
           "passing"}
InFlight == {"sent", "streaming", "passing"}
Call == [stage : Stages, group : Groups \cup {NoGroup}, failed : SUBSET Groups,
         attempt : 0 .. MaxRetries, puts : 0 .. 1]
Idle == [stage |-> "idle", group |-> NoGroup, failed |-> {}, attempt |-> 0, puts |-> 0]

(* probing: half-open with its slot taken.                                  *)
Circuits == {"closed", "open", "half-open", "probing"}

TypeOK ==
  /\ gate \in Seq(Callers) /\ call \in [Callers -> Call]
  /\ current \in Groups \cup {NoGroup} /\ disk \in Groups \cup {NoGroup}
  /\ circuit \in [Groups -> Circuits]
  /\ remote \in Groups /\ late \subseteq Groups /\ lost \in BOOLEAN

Init ==
  /\ gate = <<>>
  /\ call = [c \in Callers |-> Idle]
  /\ current = NoGroup /\ disk = NoGroup
  /\ circuit = [g \in Groups |-> "closed"]
  /\ remote \in Groups
  /\ late = {} /\ lost = FALSE

-----------------------------------------------------------------------------
(* The lease.                                                               *)

Acquire(c, group) ==
  /\ call[c].stage = "idle"
  /\ gate' = Append(gate, c)
  /\ call' = [call EXCEPT ![c] = [@ EXCEPT !.stage = "waiting", !.group = group]]
  /\ UNCHANGED <<current, disk, circuit, remote, late, lost>>

(* finish, on every path: the holder of the lease lets in the next.         *)
Ends(c) == call' = [call EXCEPT ![c] = Idle] /\ gate' = Tail(gate)

Goes(c, stage) ==
  call' = [call EXCEPT ![c] = [@ EXCEPT !.stage = stage]] /\ UNCHANGED gate

Arrive(r) == Acquire(r, NoGroup)

(* A round decides to switch; who holds the lease may change what it has    *)
(* seen before it gets the lease itself.                                    *)
RoundDecides(g) == g # current /\ Acquire(Round, g)

(* Slip: a round does not wait for the lease.                               *)
HoldsOrRound(c) == c = Round \/ Head(gate) = c

Holds(c) == gate # <<>> /\ Head(gate) = c

Enter(c) ==
  /\ call[c].stage = "waiting" /\ Holds(c)
  /\ Goes(c, IF c = Round THEN "moving" ELSE "routing")
  /\ UNCHANGED <<current, disk, circuit, remote, late, lost>>

-----------------------------------------------------------------------------
(* The breaker: allowRequest, releaseRequest and reports.                   *)

Admits(g) == circuit[g] \in {"closed", "half-open"}

Admit(g) == circuit' = [circuit EXCEPT ![g] = IF @ = "half-open" THEN "probing" ELSE @]

Neutral(g) == circuit' = [circuit EXCEPT ![g] = IF @ = "probing" THEN "half-open" ELSE @]

Success(g) == circuit' = [circuit EXCEPT ![g] = IF @ = "probing" THEN "closed" ELSE @]

(* A probe that fails opens the circuit again, another failure may.         *)
Failure(g) ==
  \/ circuit' = [circuit EXCEPT ![g] = IF @ \in {"probing", "closed"} THEN "open" ELSE @]
  \/ circuit[g] = "closed" /\ UNCHANGED circuit

Cools(g) ==
  /\ circuit[g] = "open"
  /\ circuit' = [circuit EXCEPT ![g] = "half-open"]
  /\ UNCHANGED <<gate, call, current, disk, remote, late, lost>>

-----------------------------------------------------------------------------
(* Routing (routeSingle).                                                   *)

(* The locked group goes first, then the current one, then any other.       *)
RouteSingle(r, locked, usable) ==
  LET open == {g \in usable \ call[r].failed : Admits(g)}
      preferred == IF locked \in open THEN {locked}
                   ELSE IF current \in open THEN {current} ELSE open
  IN
  /\ call[r].stage = "routing"
  /\ \E g \in preferred :
       /\ Admit(g)
       /\ call' = [call EXCEPT ![r] =
            [@ EXCEPT !.stage = IF g = current THEN "sent" ELSE "moving", !.group = g]]
  /\ UNCHANGED <<gate, current, disk, remote, late, lost>>

(* No group, no login or an invalid request: a local response, which does   *)
(* not reach the end of a body.                                             *)
(* Slip: only the end of a body gives the lease back.                       *)
NoRouteKeepsLease(r) ==
  /\ call[r].stage = "routing"
  /\ call' = [call EXCEPT ![r] = Idle]
  /\ UNCHANGED <<gate, current, disk, circuit, remote, late, lost>>

NoRoute(r) ==
  /\ call[r].stage = "routing"
  /\ Ends(r)
  /\ UNCHANGED <<current, disk, circuit, remote, late, lost>>

-----------------------------------------------------------------------------
(* Changing the group of the key (switchSingle).                            *)

(* Slip: the current group changes before AIHub has agreed.                 *)
PutFailsAdopted(c, arrives) ==
  /\ call[c].stage = "moving" /\ call[c].puts = 0
  /\ call' = [call EXCEPT ![c] = [@ EXCEPT !.puts = 1]]
  /\ current' = call[c].group
  /\ late' = IF arrives THEN late \cup {call[c].group} ELSE late
  /\ UNCHANGED <<gate, disk, circuit, remote, lost>>

(* The first PUT fails; one that timed out may yet arrive.  It is repeated. *)
PutFails(c, arrives) ==
  /\ call[c].stage = "moving" /\ call[c].puts = 0
  /\ call' = [call EXCEPT ![c] = [@ EXCEPT !.puts = 1]]
  /\ late' = IF arrives THEN late \cup {call[c].group} ELSE late
  /\ UNCHANGED <<gate, current, disk, circuit, remote, lost>>

PutAnswered(c) ==
  /\ call[c].stage = "moving"
  /\ remote' = call[c].group /\ current' = call[c].group
  /\ lost' = FALSE
  /\ Goes(c, "saving")
  /\ UNCHANGED <<disk, circuit, late>>

(* The switch throws: a request gives its admission back and is answered    *)
(* with an error, a round goes on without the switch.                       *)
(* Slip: the admission is not given back.                                   *)
ThrowsAdmitted(c) == Ends(c) /\ UNCHANGED circuit

Throws(c) ==
  /\ Ends(c)
  /\ IF c = Round THEN UNCHANGED circuit ELSE Neutral(call[c].group)

(* The second PUT fails, or the key is not found in the first place.        *)
MoveFails(c, arrives) ==
  /\ call[c].stage = "moving" /\ (arrives => call[c].puts = 1)
  /\ Throws(c)
  /\ late' = IF arrives THEN late \cup {call[c].group} ELSE late
  /\ UNCHANGED <<current, disk, remote, lost>>

Saved(c) ==
  /\ call[c].stage = "saving"
  /\ disk' = current
  /\ IF c = Round THEN Ends(c) ELSE Goes(c, "sent")
  /\ UNCHANGED <<current, circuit, remote, late, lost>>

SaveFails(c) ==
  /\ call[c].stage = "saving"
  /\ Throws(c)
  /\ UNCHANGED <<current, disk, remote, late, lost>>

-----------------------------------------------------------------------------
(* The upstream's answers (handleProxyRequest).                             *)

(* Slip: one attempt too many.                                              *)
RetryOnceMore(r) ==
  IF call[r].attempt <= MaxRetries /\ r \notin Unrepeatable
    THEN /\ call' = [call EXCEPT ![r] =
              [Idle EXCEPT !.stage = "routing", !.attempt = call[r].attempt + 1,
                           !.failed = call[r].failed \cup {call[r].group}]]
         /\ UNCHANGED gate
    ELSE Ends(r)

RetryOrEnd(r) ==
  IF call[r].attempt < MaxRetries /\ r \notin Unrepeatable
    THEN /\ call' = [call EXCEPT ![r] =
              [Idle EXCEPT !.stage = "routing", !.attempt = call[r].attempt + 1,
                           !.failed = call[r].failed \cup {call[r].group}]]
         /\ UNCHANGED gate
    ELSE Ends(r)

(* The first byte arrives, an error fails the attempt, an error that is not *)
(* the group's fault is passed through, the model is not supported, or the  *)
(* client cancels.                                                          *)
Answered(r) ==
  LET g == call[r].group IN
  /\ call[r].stage = "sent"
  /\ \/ Goes(r, "streaming") /\ UNCHANGED circuit
     \/ RetryOrEnd(r) /\ (Failure(g) \/ Neutral(g))
     \/ Goes(r, "passing") /\ Neutral(g)
     \/ Ends(r) /\ Neutral(g)
  /\ UNCHANGED <<current, disk, remote, late, lost>>

(* The body ends, breaks or is cancelled by the client.                     *)
BodyEnds(r) ==
  LET g == call[r].group IN
  /\ \/ call[r].stage = "streaming" /\ (Success(g) \/ Failure(g) \/ Neutral(g))
     \/ call[r].stage = "passing" /\ UNCHANGED circuit
  /\ Ends(r)
  /\ UNCHANGED <<current, disk, remote, late, lost>>

-----------------------------------------------------------------------------
(* A PUT that timed out takes effect after all, or never.                   *)
LateArrives(g) ==
  /\ g \in late
  /\ remote' = g /\ late' = late \ {g} /\ lost' = TRUE
  /\ UNCHANGED <<gate, call, current, disk, circuit>>

LateVanishes(g) ==
  /\ g \in late
  /\ late' = late \ {g}
  /\ UNCHANGED <<gate, call, current, disk, circuit, remote, lost>>

(* The debounced write of the state (Persistence).                          *)
SavedElsewhere ==
  /\ disk' = current
  /\ UNCHANGED <<gate, call, current, circuit, remote, late, lost>>

(* The process dies and starts again, with breakers of an older copy.       *)
Restart ==
  /\ gate' = <<>>
  /\ call' = [c \in Callers |-> Idle]
  /\ current' = disk
  /\ circuit' \in [Groups -> {"closed", "open", "half-open"}]
  /\ late' = late \cup {call[c].group : c \in {d \in Callers : call[d].stage = "moving"}}
  /\ lost' = (lost \/ disk # current)
  /\ UNCHANGED <<disk, remote>>

(* What c does next, or what it awaits.                                     *)
Step(c) ==
  \/ Enter(c)
  \/ \E arrives \in BOOLEAN : PutFails(c, arrives) \/ MoveFails(c, arrives)
  \/ PutAnswered(c) \/ Saved(c) \/ SaveFails(c)

RequestStep(r) ==
  \/ Step(r) \/ NoRoute(r) \/ Answered(r) \/ BodyEnds(r)
  \/ \E locked \in Groups \cup {NoGroup}, usable \in SUBSET Groups :
       RouteSingle(r, locked, usable)

Next ==
  \/ \E r \in Requests : Arrive(r) \/ RequestStep(r)
  \/ Step(Round)
  \/ \E g \in Groups : RoundDecides(g) \/ Cools(g) \/ LateArrives(g) \/ LateVanishes(g)
  \/ SavedElsewhere \/ Restart

Spec == Init /\ [][Next]_vars

(* The router's own steps, and calls of AIHub, which time out.  That bodies *)
(* end is assumed, as for ProxyRequests.                                    *)
FairSpec ==
  Spec /\ WF_vars(Step(Round)) /\ \A r \in Requests : WF_vars(RequestStep(r))

-----------------------------------------------------------------------------
(* Properties.                                                              *)

(* README.md:309: the key does not change its group while a response is     *)
(* under way, unless by a PUT given up long before.                         *)
NoRegroupInFlight ==
  [][remote' # remote /\ ~(\E g \in Groups : LateArrives(g))
     => \A r \in Requests : call[r].stage \notin InFlight]_vars

(* What a response says of its group is said of the group that served it,   *)
(* as long as every change of the key was answered.                         *)
ServedAsRouted ==
  ~lost => /\ current \in {NoGroup, remote}
           /\ \A r \in Requests : call[r].stage \in InFlight => call[r].group = remote

(* A half-open group's slot belongs to the request that holds the lease;    *)
(* otherwise the group would be refused for ever.                           *)
SlotWithLease ==
  \A g \in Groups :
    circuit[g] = "probing" =>
      \E r \in Requests : /\ call[r].stage \in InFlight \cup {"moving", "saving"}
                          /\ call[r].group = g

(* What SingleKeyGate promises: callers are inside one at a time, in the    *)
(* order of acquire, whatever way each of them ends.                        *)
Gate == INSTANCE AbstractGate
          WITH line <- gate,
               inside <- gate # <<>> /\ call[Head(gate)].stage \notin {"idle", "waiting"}

RefinesAbstractGate == Gate!Spec

(* Whoever waits for the lease gets it and gives it back.                   *)
LeaseComesRound == \A c \in Callers : call[c].stage = "waiting" ~> call[c].stage = "idle"
=============================================================================
