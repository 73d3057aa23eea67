--------------------------- MODULE MCControlPlane ---------------------------
(* A small instance of ControlPlane for TLC. *)
EXTENDS ControlPlane

MCGroups == {1, 2}

Stats(rate, latency) == [rate |-> rate, latency |-> latency]

(* Two healthy groups with statistics a and b.                              *)
Healthy(a, b) ==
  [items |-> [g \in MCGroups |-> IF g = 1 THEN a ELSE b], allowed |-> MCGroups,
   circuit |-> [g \in MCGroups |-> "closed"], record |-> [g \in MCGroups |-> "fine"]]

CheapOrFast == Healthy(Stats(1, 4), Stats(3, 0))

(* Both prefer one or the other group by mode; a close race either way; a   *)
(* free group; one that is too slow, unstable, failing, half-open, open,    *)
(* unmeasured, not available or gone; no statistics at all.                 *)
MCSituations ==
  {CheapOrFast,
   Healthy(Stats(1, 1), Stats(1, 0)), Healthy(Stats(1, 0), Stats(1, 1)),
   Healthy(Stats(0, 3), Stats(1, 0)), Healthy(Stats(1, 6), Stats(2, 2)),
   Healthy(Stats(1, 1), Stats(2, Unmeasured)),
   [CheapOrFast EXCEPT !.record[1] = "unstable"],
   [CheapOrFast EXCEPT !.circuit[2] = "half-open"],
   [CheapOrFast EXCEPT !.circuit[1] = "open", !.record[1] = "failing"],
   [CheapOrFast EXCEPT !.allowed = {2}],
   [CheapOrFast EXCEPT !.items = [g \in {2} |-> Stats(3, 0)]],
   [CheapOrFast EXCEPT !.items = [g \in {} |-> Stats(0, 0)]]}

MCConfigs == {[mode |-> "economy", blacklist |-> {}],
              [mode |-> "balanced", blacklist |-> {}]}

(* Inputs of an evaluation: all pairs of groups in the configurations, each *)
(* with one of many rates, latencies, records and circuits.                 *)
Candidates ==
  [rate : 0 .. 3, latency : {0, 1, 4, 6, Unmeasured}, record : {"fine"},
   circuit : {"closed"}, allowed : {TRUE}]
  \cup [rate : {0, 2, 4}, latency : {1, 6}, record : Records, circuit : Circuits,
        allowed : BOOLEAN]

Meets(a, b) ==
  LET of == <<a, b>> IN
  [items |-> [g \in MCGroups |-> Stats(of[g].rate, of[g].latency)],
   allowed |-> {g \in MCGroups : of[g].allowed},
   circuit |-> [g \in MCGroups |-> of[g].circuit],
   record |-> [g \in MCGroups |-> of[g].record]]

MCImagined == {Meets(a, b) : a, b \in Candidates}

(* FairSpec with its weak fairness written out, which TLC checks faster: a  *)
(* step of the chain is enabled exactly when its first call is at one of    *)
(* these points, and takes this call further or out of the chain, which no  *)
(* other step but a restart does.                                           *)
HasStep ==
  /\ chain # <<>>
  /\ \/ Head(chain).stage = "queued"
     \/ Head(chain).stage = "fetching" /\ Head(chain).kind # "config"
     \/ Head(chain).stage \in {"keying", "adopting"} /\ Head(chain).kind = "round"
     \/ Head(chain).stage = "saving" /\ Head(chain).kind # "dryrun"

GoesOn == Len(chain') < Len(chain) \/ Head(chain') # Head(chain)

PlainFairSpec == Spec /\ ([]<>~HasStep \/ []<><<HasStep /\ GoesOn>>_vars)
=============================================================================
