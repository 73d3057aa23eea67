------------------------- MODULE SingleKeyModeProofs -------------------------
(***************************************************************************)
(* The safety properties of SingleKeyMode for any number of requests and   *)
(* groups.  All follow from one inductive invariant: besides the types,    *)
(* whoever has gone beyond waiting holds the lease (so nobody else has),   *)
(* probe slots belong to the holder, and while no PUT was lost the current *)
(* group and that of the request under way are the key's.                  *)
(* A second one, LineOk, says who is in the line of the lease; the         *)
(* refinement of AbstractGate and the bound of a turn rest on both.        *)
(***************************************************************************)
EXTENDS SingleKeyMode, TLAPS

Busy(c) == call[c].stage \notin {"idle", "waiting"}

OneBusy == \A c \in Callers : Busy(c) => Holds(c)

(* A response that is passed through has given its admission back.          *)
PassingIsFree ==
  \A r \in Requests : call[r].stage = "passing" => circuit[call[r].group] # "probing"

(* ServedAsRouted already holds while the state is being written.           *)
Moved ==
  ~lost => /\ current \in {NoGroup, remote}
           /\ \A c \in Callers :
                call[c].stage \in InFlight \cup {"saving"} => call[c].group = remote

(* Whoever is past routing has a group.                                     *)
Grouped ==
  /\ \A r \in Requests :
       call[r].stage \in InFlight \cup {"moving", "saving"} => call[r].group \in Groups
  /\ call[Round].stage # "idle" => call[Round].group \in Groups

IInv == TypeOK /\ Grouped /\ OneBusy /\ SlotWithLease /\ PassingIsFree /\ Moved

-----------------------------------------------------------------------------
(* Records of calls.                                                        *)

LEMMA IdleIsCall == Idle \in Call
BY SingleKeyAssumption DEF Idle, Call, Stages

LEMMA Fields ==
  ASSUME NEW q \in Call
  PROVE  /\ q.stage \in Stages /\ q.group \in Groups \cup {NoGroup}
         /\ q.failed \subseteq Groups /\ q.attempt \in 0 .. MaxRetries
         /\ q.puts \in 0 .. 1
BY DEF Call

(* A call at another stage.                                                 *)
LEMMA Staged ==
  ASSUME NEW p \in Call, NEW s \in Stages
  PROVE  LET q == [p EXCEPT !.stage = s]
         IN  q \in Call /\ q.stage = s /\ q.group = p.group
BY Zenon DEF Call

LEMMA Changed ==
  ASSUME TypeOK, NEW c \in Callers, NEW q \in Call, call' = [call EXCEPT ![c] = q]
  PROVE  /\ call' \in [Callers -> Call] /\ call'[c] = q
         /\ \A d \in Callers : d # c => call'[d] = call[d]
BY DEF TypeOK

-----------------------------------------------------------------------------
(* The inductive invariant holds when the process starts for the first time.*)
THEOREM InvInit == Init => IInv
<1> SUFFICES ASSUME Init PROVE IInv
  OBVIOUS
<1>1. TypeOK
  <2>1. gate \in Seq(Callers)
    BY DEF Init
  <2>2. call \in [Callers -> Call]
    BY IdleIsCall DEF Init
  <2>3. circuit \in [Groups -> Circuits]
    BY DEF Init, Circuits
  <2> QED
    BY <2>1, <2>2, <2>3 DEF Init, TypeOK
<1>2. \A c \in Callers : call[c].stage = "idle"
  BY DEF Init, Idle
<1>3. Round \in Callers /\ Requests \subseteq Callers
  BY DEF Callers
<1>4. Grouped /\ OneBusy /\ PassingIsFree
  BY <1>2, <1>3 DEF Grouped, OneBusy, Busy, PassingIsFree, InFlight
<1>5. SlotWithLease
  BY DEF Init, SlotWithLease
<1>6. Moved
  BY <1>2 DEF Init, Moved, InFlight
<1> QED
  BY <1>1, <1>4, <1>5, <1>6 DEF IInv

(* Nobody but the holder of the lease is busy, so a taken slot is the       *)
(* holder's.                                                                *)
LEMMA HolderAlone ==
  ASSUME IInv, NEW c \in Callers, Holds(c)
  PROVE  /\ \A d \in Callers : d # c => call[d].stage \in {"idle", "waiting"}
         /\ \A g \in Groups : circuit[g] = "probing" =>
              /\ c \in Requests /\ call[c].group = g
              /\ call[c].stage \in InFlight \cup {"moving", "saving"}
<1>1. \A d \in Callers : d # c => call[d].stage \in {"idle", "waiting"}
  BY DEF IInv, OneBusy, Busy, Holds
<1>2. ASSUME NEW g \in Groups, circuit[g] = "probing"
      PROVE  /\ c \in Requests /\ call[c].group = g
             /\ call[c].stage \in InFlight \cup {"moving", "saving"}
  <2>1. PICK r \in Requests : /\ call[r].stage \in InFlight \cup {"moving", "saving"}
                              /\ call[r].group = g
    BY <1>2 DEF IInv, SlotWithLease
  <2>2. r = c
    BY <1>1, <2>1 DEF InFlight, Callers
  <2> QED
    BY <2>1, <2>2
<1> QED
  BY <1>1, <1>2

(* What a step of the holder, from whatever stage, has to observe.          *)
LEMMA HolderStep ==
  ASSUME IInv, NEW c \in Callers, Holds(c),
         NEW q \in Call, call' = [call EXCEPT ![c] = q],
         gate' = gate \/ (q.stage = "idle" /\ gate' = Tail(gate)),
         current' \in Groups \cup {NoGroup}, disk' \in Groups \cup {NoGroup},
         circuit' \in [Groups -> Circuits], remote' \in Groups,
         late' \subseteq Groups, lost' \in BOOLEAN,
         q.stage \in InFlight \cup {"moving", "saving"} => q.group \in Groups,
         c = Round => q.stage \in {"idle", "moving", "saving"},
         \A g \in Groups : circuit'[g] = "probing" =>
           /\ c \in Requests /\ q.group = g
           /\ q.stage \in InFlight \cup {"moving", "saving"},
         q.stage = "passing" => circuit'[q.group] # "probing",
         ~lost' => /\ current' \in {NoGroup, remote'}
                   /\ q.stage \in InFlight \cup {"saving"} => q.group = remote'
  PROVE  IInv'
<1> USE DEF IInv
<1>1. /\ call' \in [Callers -> Call] /\ call'[c] = q
      /\ \A d \in Callers : d # c => call'[d] = call[d]
  BY Changed
<1>2. \A d \in Callers : d # c => call[d].stage \in {"idle", "waiting"}
  BY HolderAlone
<1>3. Round \in Callers /\ Requests \subseteq Callers /\ Round \notin Requests
  BY SingleKeyAssumption DEF Callers
<1>4. gate' \in Seq(Callers)
  <2>1. gate \in Seq(Callers) /\ gate # <<>>
    BY DEF TypeOK, Holds
  <2>2. Tail(gate) \in Seq(Callers)
    BY <2>1
  <2> QED
    BY <2>1, <2>2
<1>5. TypeOK'
  BY <1>1, <1>4 DEF TypeOK
<1>6. Grouped'
  BY <1>1, <1>2, <1>3 DEF Grouped, InFlight
<1>7. OneBusy'
  BY <1>1, <1>2 DEF OneBusy, Busy, Holds
<1>8. SlotWithLease'
  BY <1>1 DEF SlotWithLease
<1>9. PassingIsFree'
  BY <1>1, <1>2, <1>3 DEF PassingIsFree
<1>10. Moved'
  BY <1>1, <1>2 DEF Moved, InFlight
<1> QED
  BY <1>5, <1>6, <1>7, <1>8, <1>9, <1>10

(* Whoever is past waiting holds the lease.                                 *)
LEMMA BusyHolds ==
  ASSUME IInv, NEW c \in Callers, Busy(c)
  PROVE  Holds(c)
BY DEF IInv, OneBusy

(* The facts every step of the holder starts from.                          *)
LEMMA Start ==
  ASSUME IInv, NEW c \in Callers
  PROVE  /\ call[c] \in Call /\ call[c].stage \in Stages
         /\ call[c].group \in Groups \cup {NoGroup}
         /\ current \in Groups \cup {NoGroup} /\ disk \in Groups \cup {NoGroup}
         /\ circuit \in [Groups -> Circuits]
         /\ remote \in Groups /\ late \subseteq Groups /\ lost \in BOOLEAN
         /\ Idle \in Call /\ Idle.stage = "idle"
         /\ call[c].stage \in InFlight \cup {"moving", "saving"} => call[c].group \in Groups
         /\ c = Round /\ call[c].stage # "idle" => call[c].group \in Groups
         /\ ~lost => /\ current \in {NoGroup, remote}
                     /\ call[c].stage \in InFlight \cup {"saving"} => call[c].group = remote
<1>1. call[c] \in Call
  BY DEF IInv, TypeOK
<1>2. /\ call[c].stage \in InFlight \cup {"moving", "saving"} => call[c].group \in Groups
      /\ c = Round /\ call[c].stage # "idle" => call[c].group \in Groups
  BY DEF IInv, Grouped, Callers, InFlight
<1> QED
  BY <1>1, <1>2, Fields, IdleIsCall DEF IInv, TypeOK, Moved, Idle

-----------------------------------------------------------------------------
(* Waiting for the lease, and getting it.                                   *)

LEMMA AcquireKeeps ==
  ASSUME IInv, NEW c \in Callers, NEW g \in Groups \cup {NoGroup},
         c = Round => g \in Groups, Acquire(c, g)
  PROVE  IInv'
<1> DEFINE q == [call[c] EXCEPT !.stage = "waiting", !.group = g]
<1>1. q \in Call /\ q.stage = "waiting" /\ q.group = g
  <2>1. call[c] \in Call /\ "waiting" \in Stages
    BY Start DEF Stages
  <2>2. q \in Call
    BY <2>1, Zenon DEF Call
  <2>3. q.stage = "waiting" /\ q.group = g
    BY <2>1, SMT DEF Call
  <2> QED
    BY <2>2, <2>3
<1>2. call' = [call EXCEPT ![c] = q]
  BY DEF Acquire
<1> HIDE DEF q
<1>3. /\ call' \in [Callers -> Call] /\ call'[c] = q
      /\ \A d \in Callers : d # c => call'[d] = call[d]
  BY <1>1, <1>2, Changed DEF IInv
<1>4. Round \in Callers /\ Requests \subseteq Callers
  BY DEF Callers
<1>5. call[c].stage = "idle" /\ gate' = Append(gate, c)
      /\ UNCHANGED <<current, disk, circuit, remote, late, lost>>
  BY DEF Acquire
<1>6. TypeOK'
  BY <1>3, <1>5 DEF IInv, TypeOK
<1>7. Grouped'
  BY <1>1, <1>3, <1>4, <1>5 DEF IInv, Grouped, InFlight
<1>8. OneBusy'
  <2> SUFFICES ASSUME NEW d \in Callers, Busy(d)' PROVE Holds(d)'
    BY DEF OneBusy
  <2>1. Holds(d)
    BY <1>1, <1>3 DEF IInv, OneBusy, Busy
  <2>2. gate \in Seq(Callers) /\ gate # <<>>
    BY <2>1 DEF IInv, TypeOK, Holds
  <2>3. Append(gate, c) # <<>> /\ Head(Append(gate, c)) = Head(gate)
    BY <2>2
  <2> QED
    BY <1>5, <2>1, <2>3 DEF Holds
<1>9. SlotWithLease' /\ PassingIsFree'
  BY <1>1, <1>3, <1>4, <1>5 DEF IInv, SlotWithLease, PassingIsFree, InFlight
<1>10. Moved'
  BY <1>1, <1>3, <1>5 DEF IInv, Moved, InFlight
<1> QED
  BY <1>6, <1>7, <1>8, <1>9, <1>10 DEF IInv

-----------------------------------------------------------------------------
(* The two ways the holder of the lease goes on: to another stage, with the *)
(* group it has, or to its end.                                             *)

LEMMA GoesStep ==
  ASSUME IInv, NEW c \in Callers, Holds(c), NEW s \in Stages, Goes(c, s),
         current' \in Groups \cup {NoGroup}, disk' \in Groups \cup {NoGroup},
         circuit' \in [Groups -> Circuits], remote' \in Groups,
         late' \subseteq Groups, lost' \in BOOLEAN,
         s \in InFlight \cup {"moving", "saving"} => call[c].group \in Groups,
         c = Round => s \in {"moving", "saving"},
         \A g \in Groups : circuit'[g] = "probing" =>
           /\ c \in Requests /\ call[c].group = g
           /\ s \in InFlight \cup {"moving", "saving"},
         s = "passing" => circuit'[call[c].group] # "probing",
         ~lost' => /\ current' \in {NoGroup, remote'}
                   /\ s \in InFlight \cup {"saving"} => call[c].group = remote'
  PROVE  IInv'
<1> DEFINE q == [call[c] EXCEPT !.stage = s]
<1>1. q \in Call /\ q.stage = s /\ q.group = call[c].group
  <2>1. call[c] \in Call
    BY Start
  <2> QED
    BY <2>1, Staged
<1>2. call' = [call EXCEPT ![c] = q] /\ gate' = gate
  BY DEF Goes
<1> HIDE DEF q
<1> QED
  BY <1>1, <1>2, HolderStep

LEMMA EndsStep ==
  ASSUME IInv, NEW c \in Callers, Holds(c), Ends(c),
         current' \in Groups \cup {NoGroup}, disk' \in Groups \cup {NoGroup},
         circuit' \in [Groups -> Circuits], remote' \in Groups,
         late' \subseteq Groups, lost' \in BOOLEAN,
         \A g \in Groups : circuit'[g] # "probing",
         ~lost' => current' \in {NoGroup, remote'}
  PROVE  IInv'
<1>1. Idle \in Call /\ Idle.stage = "idle"
  BY Start
<1>2. call' = [call EXCEPT ![c] = Idle] /\ gate' = Tail(gate)
  BY DEF Ends
<1> QED
  BY <1>1, <1>2, HolderStep DEF InFlight

(* The slot of the holder is the only one that can be taken; giving it back *)
(* or having its probe decided leaves none.                                 *)
LEMMA SlotReturned ==
  ASSUME IInv, NEW c \in Callers, Holds(c), call[c].group \in Groups,
         \/ Neutral(call[c].group) \/ Success(call[c].group) \/ Failure(call[c].group)
  PROVE  /\ circuit' \in [Groups -> Circuits]
         /\ \A g \in Groups : circuit'[g] # "probing"
<1> DEFINE h == call[c].group
<1>1. circuit \in [Groups -> Circuits]
  BY Start
<1>2. \A g \in Groups : circuit[g] = "probing" => g = h
  BY HolderAlone
<1>3. CASE circuit' = [circuit EXCEPT ![h] = IF @ = "probing" THEN "half-open" ELSE @]
  BY <1>1, <1>2, <1>3 DEF Circuits
<1>4. CASE circuit' = [circuit EXCEPT ![h] = IF @ = "probing" THEN "closed" ELSE @]
  BY <1>1, <1>2, <1>4 DEF Circuits
<1>5. CASE circuit' = [circuit EXCEPT ![h] = IF @ \in {"probing", "closed"} THEN "open" ELSE @]
  BY <1>1, <1>2, <1>5 DEF Circuits
<1>6. CASE circuit[h] = "closed" /\ circuit' = circuit
  BY <1>1, <1>2, <1>6
<1> QED
  BY <1>3, <1>4, <1>5, <1>6 DEF Neutral, Success, Failure

(* Without a slot to give back there is none, unless a request is past      *)
(* routing.                                                                 *)
LEMMA NoSlot ==
  ASSUME IInv, NEW c \in Callers, Holds(c),
         c = Round \/ call[c].stage \notin InFlight \cup {"moving", "saving"}
  PROVE  \A g \in Groups : circuit[g] # "probing"
BY HolderAlone, SingleKeyAssumption

LEMMA EnterKeeps ==
  ASSUME IInv, NEW c \in Callers, Enter(c)
  PROVE  IInv'
<1> DEFINE s == IF c = Round THEN "moving" ELSE "routing"
<1>1. Holds(c) /\ call[c].stage = "waiting" /\ Goes(c, s)
      /\ UNCHANGED <<current, disk, circuit, remote, late, lost>>
  BY DEF Enter
<1>2. \A g \in Groups : circuit[g] # "probing"
  BY <1>1, NoSlot DEF InFlight
<1>3. s \in Stages /\ (c = Round => s = "moving") /\ (c # Round => s = "routing")
  BY DEF Stages
<1>4. c = Round => call[c].group \in Groups
  BY <1>1, Start
<1> HIDE DEF s
<1> QED
  BY <1>1, <1>2, <1>3, <1>4, Start, GoesStep DEF InFlight

-----------------------------------------------------------------------------
(* Routing.                                                                 *)

LEMMA RouteSingleKeeps ==
  ASSUME IInv, NEW r \in Requests, NEW locked \in Groups \cup {NoGroup},
         NEW usable \in SUBSET Groups, RouteSingle(r, locked, usable)
  PROVE  IInv'
<1>1. r \in Callers /\ r # Round
  BY SingleKeyAssumption DEF Callers
<1>2. call[r].stage = "routing" /\ gate' = gate
      /\ UNCHANGED <<current, disk, remote, late, lost>>
  BY DEF RouteSingle
<1>3. Holds(r)
  BY <1>1, <1>2, BusyHolds DEF Busy
<1>4. PICK g \in Groups :
        /\ Admit(g)
        /\ call' = [call EXCEPT ![r] =
             [@ EXCEPT !.stage = IF g = current THEN "sent" ELSE "moving", !.group = g]]
  BY DEF RouteSingle
<1> DEFINE s == IF g = current THEN "sent" ELSE "moving"
           q == [call[r] EXCEPT !.stage = s, !.group = g]
<1>5. q \in Call /\ q.stage = s /\ q.group = g
  <2>1. call[r] \in Call /\ s \in Stages
    BY <1>1, Start DEF Stages
  <2> HIDE DEF s
  <2>2. q \in Call
    BY <2>1, Zenon DEF Call
  <2>3. q.stage = s /\ q.group = g
    BY <2>1, SMT DEF Call
  <2> QED
    BY <2>2, <2>3
<1>6. call' = [call EXCEPT ![r] = q]
  BY <1>4
<1> HIDE DEF q
<1>7. \A h \in Groups : circuit[h] # "probing"
  BY <1>1, <1>2, <1>3, NoSlot DEF InFlight
<1>8. circuit' \in [Groups -> Circuits]
      /\ \A h \in Groups : circuit'[h] = "probing" => h = g
  BY <1>1, <1>4, <1>7, Start DEF Admit, Circuits
<1>9. ~lost' => current' \in {NoGroup, remote'} /\ (s = "sent" => g = remote')
  BY <1>1, <1>2, Start, SingleKeyAssumption
<1>10. s \in {"sent", "moving"} /\ g \in Groups
  OBVIOUS
<1> HIDE DEF s
<1> QED
  BY <1>1, <1>2, <1>3, <1>5, <1>6, <1>8, <1>9, <1>10, Start, HolderStep DEF InFlight

LEMMA NoRouteKeeps ==
  ASSUME IInv, NEW r \in Requests, NoRoute(r)
  PROVE  IInv'
<1>1. r \in Callers
  BY DEF Callers
<1>2. call[r].stage = "routing" /\ Ends(r)
      /\ UNCHANGED <<current, disk, circuit, remote, late, lost>>
  BY DEF NoRoute
<1>3. Holds(r)
  BY <1>1, <1>2, BusyHolds DEF Busy
<1>4. \A g \in Groups : circuit[g] # "probing"
  BY <1>1, <1>2, <1>3, NoSlot DEF InFlight
<1> QED
  BY <1>1, <1>2, <1>3, <1>4, Start, EndsStep

-----------------------------------------------------------------------------
(* Changing the group of the key.                                           *)

LEMMA PutFailsKeeps ==
  ASSUME IInv, NEW c \in Callers, NEW arrives \in BOOLEAN, PutFails(c, arrives)
  PROVE  IInv'
<1> DEFINE q == [call[c] EXCEPT !.puts = 1]
<1>1. call[c].stage = "moving" /\ gate' = gate
      /\ UNCHANGED <<current, disk, circuit, remote, lost>>
      /\ call' = [call EXCEPT ![c] = q]
      /\ late' = IF arrives THEN late \cup {call[c].group} ELSE late
  BY DEF PutFails
<1>2. Holds(c)
  BY <1>1, BusyHolds DEF Busy
<1>3. call[c].group \in Groups
  BY <1>1, Start
<1>4. q \in Call /\ q.stage = "moving" /\ q.group = call[c].group
  <2>1. call[c] \in Call /\ 1 \in 0 .. 1
    BY Start
  <2>2. q \in Call
    BY <2>1, Zenon DEF Call
  <2>3. q.stage = call[c].stage /\ q.group = call[c].group
    BY <2>1, SMT DEF Call
  <2> QED
    BY <1>1, <2>2, <2>3
<1> HIDE DEF q
<1>5. \A g \in Groups : circuit[g] = "probing" => c \in Requests /\ call[c].group = g
  BY <1>2, HolderAlone
<1>6. late' \subseteq Groups
  BY <1>1, <1>3, Start
<1> QED
  BY <1>1, <1>2, <1>3, <1>4, <1>5, <1>6, Start, HolderStep DEF InFlight

LEMMA PutAnsweredKeeps ==
  ASSUME IInv, NEW c \in Callers, PutAnswered(c)
  PROVE  IInv'
<1>1. call[c].stage = "moving" /\ Goes(c, "saving")
      /\ remote' = call[c].group /\ current' = call[c].group /\ lost' = FALSE
      /\ UNCHANGED <<disk, circuit, late>>
  BY DEF PutAnswered
<1>2. Holds(c)
  BY <1>1, BusyHolds DEF Busy
<1>3. call[c].group \in Groups
  BY <1>1, Start
<1>4. \A g \in Groups : circuit[g] = "probing" => c \in Requests /\ call[c].group = g
  BY <1>2, HolderAlone
<1>5. "saving" \in Stages
  BY DEF Stages
<1> QED
  BY <1>1, <1>2, <1>3, <1>4, <1>5, Start, GoesStep

(* A switch that throws leaves no slot taken.                               *)
LEMMA ThrowsKeeps ==
  ASSUME IInv, NEW c \in Callers, call[c].stage \in {"moving", "saving"}, Throws(c),
         UNCHANGED <<current, disk, remote, lost>>, late' \subseteq Groups
  PROVE  IInv'
<1>1. Holds(c)
  BY BusyHolds DEF Busy
<1>2. call[c].group \in Groups
  BY Start
<1>3. circuit' \in [Groups -> Circuits] /\ \A g \in Groups : circuit'[g] # "probing"
  <2>1. CASE c = Round
    BY <1>1, <2>1, NoSlot, Start DEF Throws
  <2>2. CASE c # Round
    BY <1>1, <1>2, <2>2, SlotReturned DEF Throws
  <2> QED
    BY <2>1, <2>2
<1>4. Ends(c)
  BY DEF Throws
<1> QED
  BY <1>1, <1>3, <1>4, Start, EndsStep

LEMMA MoveFailsKeeps ==
  ASSUME IInv, NEW c \in Callers, NEW arrives \in BOOLEAN, MoveFails(c, arrives)
  PROVE  IInv'
<1>1. call[c].stage = "moving" /\ Throws(c) /\ UNCHANGED <<current, disk, remote, lost>>
      /\ late' = IF arrives THEN late \cup {call[c].group} ELSE late
  BY DEF MoveFails
<1>2. call[c].group \in Groups
  BY <1>1, Start
<1>3. late' \subseteq Groups
  BY <1>1, <1>2, Start
<1> QED
  BY <1>1, <1>3, ThrowsKeeps

LEMMA SaveFailsKeeps ==
  ASSUME IInv, NEW c \in Callers, SaveFails(c)
  PROVE  IInv'
<1>1. call[c].stage = "saving" /\ Throws(c)
      /\ UNCHANGED <<current, disk, remote, late, lost>>
  BY DEF SaveFails
<1> QED
  BY <1>1, Start, ThrowsKeeps

LEMMA SavedKeeps ==
  ASSUME IInv, NEW c \in Callers, Saved(c)
  PROVE  IInv'
<1>1. call[c].stage = "saving" /\ disk' = current
      /\ UNCHANGED <<current, circuit, remote, late, lost>>
  BY DEF Saved
<1>2. Holds(c)
  BY <1>1, BusyHolds DEF Busy
<1>3. CASE c = Round
  <2>1. Ends(c)
    BY <1>3 DEF Saved
  <2>2. \A g \in Groups : circuit[g] # "probing"
    BY <1>2, <1>3, NoSlot
  <2> QED
    BY <1>1, <1>2, <2>1, <2>2, Start, EndsStep
<1>4. CASE c # Round
  <2>1. Goes(c, "sent")
    BY <1>4 DEF Saved
  <2>2. \A g \in Groups : circuit[g] = "probing" => c \in Requests /\ call[c].group = g
    BY <1>2, HolderAlone
  <2>3. "sent" \in Stages /\ "sent" \in InFlight /\ "saving" \in {"moving", "saving"}
    BY DEF Stages, InFlight
  <2> QED
    BY <1>1, <1>2, <1>4, <2>1, <2>2, <2>3, Start, GoesStep
<1> QED
  BY <1>3, <1>4

-----------------------------------------------------------------------------
(* The upstream's answers.                                                  *)

LEMMA RetryOrEndKeeps ==
  ASSUME IInv, NEW r \in Requests, Holds(r), call[r].group \in Groups, RetryOrEnd(r),
         Failure(call[r].group) \/ Neutral(call[r].group),
         UNCHANGED <<current, disk, remote, late, lost>>
  PROVE  IInv'
<1>1. r \in Callers /\ r # Round
  BY SingleKeyAssumption DEF Callers
<1>2. circuit' \in [Groups -> Circuits] /\ \A g \in Groups : circuit'[g] # "probing"
  BY <1>1, SlotReturned
<1>3. CASE Ends(r)
  BY <1>1, <1>2, <1>3, Start, EndsStep
<1>4. CASE /\ call[r].attempt < MaxRetries
           /\ call' = [call EXCEPT ![r] =
                [Idle EXCEPT !.stage = "routing", !.attempt = call[r].attempt + 1,
                             !.failed = call[r].failed \cup {call[r].group}]]
           /\ UNCHANGED gate
  <2> DEFINE a == call[r].attempt + 1
             f == call[r].failed \cup {call[r].group}
             q == [Idle EXCEPT !.stage = "routing", !.attempt = a, !.failed = f]
  <2>1. Idle \in Call /\ "routing" \in Stages /\ a \in 0 .. MaxRetries /\ f \subseteq Groups
    <3>1. call[r] \in Call
      BY <1>1, Start
    <3>2. call[r].attempt \in 0 .. MaxRetries /\ call[r].failed \subseteq Groups
      BY <3>1, Fields
    <3>3. a \in 0 .. MaxRetries
      BY <1>4, <3>2, SingleKeyAssumption
    <3> QED
      BY <3>2, <3>3, IdleIsCall DEF Stages
  <2>2. call' = [call EXCEPT ![r] = q] /\ gate' = gate
    BY <1>4
  <2> HIDE DEF a, f
  <2>3. q \in Call
    BY <2>1, Zenon DEF Call
  <2>4. q.stage = "routing"
    BY DEF Idle
  <2> HIDE DEF q
  <2> QED
    BY <1>1, <1>2, <2>2, <2>3, <2>4, Start, HolderStep DEF InFlight
<1> QED
  BY <1>3, <1>4 DEF RetryOrEnd

LEMMA AnsweredKeeps ==
  ASSUME IInv, NEW r \in Requests, Answered(r)
  PROVE  IInv'
<1> DEFINE g == call[r].group
<1>1. r \in Callers /\ r # Round
  BY SingleKeyAssumption DEF Callers
<1>2. call[r].stage = "sent" /\ UNCHANGED <<current, disk, remote, late, lost>>
  BY DEF Answered
<1>3. Holds(r)
  BY <1>1, <1>2, BusyHolds DEF Busy
<1>4. "sent" \in InFlight /\ {"streaming", "passing"} \subseteq InFlight \cap Stages
  BY DEF InFlight, Stages
<1>5. g \in Groups
  BY <1>1, <1>2, <1>4, Start
<1>6. ~lost => current \in {NoGroup, remote} /\ g = remote
  BY <1>1, <1>2, <1>4, Start
<1>7. CASE Goes(r, "streaming") /\ UNCHANGED circuit
  <2>1. \A h \in Groups : circuit[h] = "probing" => r \in Requests /\ g = h
    BY <1>1, <1>3, HolderAlone
  <2> QED
    BY <1>1, <1>2, <1>3, <1>4, <1>5, <1>6, <1>7, <2>1, Start, GoesStep
<1>8. CASE RetryOrEnd(r) /\ (Failure(g) \/ Neutral(g))
  BY <1>2, <1>3, <1>5, <1>8, RetryOrEndKeeps
<1>9. CASE Goes(r, "passing") /\ Neutral(g)
  <2>1. circuit' \in [Groups -> Circuits] /\ \A h \in Groups : circuit'[h] # "probing"
    BY <1>1, <1>3, <1>5, <1>9, SlotReturned
  <2> QED
    BY <1>1, <1>2, <1>3, <1>4, <1>5, <1>6, <1>9, <2>1, Start, GoesStep
<1>10. CASE Ends(r) /\ Neutral(g)
  <2>1. circuit' \in [Groups -> Circuits] /\ \A h \in Groups : circuit'[h] # "probing"
    BY <1>1, <1>3, <1>5, <1>10, SlotReturned
  <2> QED
    BY <1>1, <1>2, <1>3, <1>6, <1>10, <2>1, Start, EndsStep
<1> QED
  BY <1>7, <1>8, <1>9, <1>10 DEF Answered

LEMMA BodyEndsKeeps ==
  ASSUME IInv, NEW r \in Requests, BodyEnds(r)
  PROVE  IInv'
<1> DEFINE g == call[r].group
<1>1. r \in Callers
  BY DEF Callers
<1>2. Ends(r) /\ UNCHANGED <<current, disk, remote, late, lost>>
      /\ call[r].stage \in {"streaming", "passing"}
  BY DEF BodyEnds
<1>3. Holds(r)
  BY <1>1, <1>2, BusyHolds DEF Busy
<1>4. g \in Groups
  BY <1>1, <1>2, Start DEF InFlight
<1>5. circuit' \in [Groups -> Circuits] /\ \A h \in Groups : circuit'[h] # "probing"
  <2>1. CASE Success(g) \/ Failure(g) \/ Neutral(g)
    BY <1>1, <1>3, <1>4, <2>1, SlotReturned
  <2>2. CASE call[r].stage = "passing" /\ UNCHANGED circuit
    <3>1. \A h \in Groups : circuit[h] = "probing" => g = h
      BY <1>1, <1>3, HolderAlone
    <3>2. circuit[g] # "probing"
      BY <2>2 DEF IInv, PassingIsFree
    <3> QED
      BY <1>1, <2>2, <3>1, <3>2, Start
  <2> QED
    BY <2>1, <2>2 DEF BodyEnds
<1> QED
  BY <1>1, <1>2, <1>3, <1>5, Start, EndsStep

-----------------------------------------------------------------------------
(* Steps of nobody's call.                                                  *)

(* As long as the calls and the lease stay, only slots, the key and what    *)
(* was lost can disturb the invariant.                                      *)
LEMMA Elsewhere ==
  ASSUME IInv, UNCHANGED <<gate, call, current>>, disk' \in Groups \cup {NoGroup},
         circuit' \in [Groups -> Circuits], remote' \in Groups,
         late' \subseteq Groups, lost' \in BOOLEAN,
         \A g \in Groups : circuit'[g] = "probing" => circuit[g] = "probing",
         ~lost' => ~lost /\ remote' = remote
  PROVE  IInv'
<1>1. TypeOK' /\ Grouped' /\ OneBusy'
  BY DEF IInv, TypeOK, Grouped, OneBusy, Busy, Holds
<1>2. SlotWithLease'
  BY DEF IInv, SlotWithLease
<1>3. PassingIsFree'
  BY DEF IInv, PassingIsFree, Grouped, InFlight
<1>4. Moved'
  BY DEF IInv, Moved
<1> QED
  BY <1>1, <1>2, <1>3, <1>4 DEF IInv

LEMMA RestartKeeps ==
  ASSUME IInv, Restart
  PROVE  IInv'
<1>1. \A c \in Callers : call'[c] = Idle /\ call'[c].stage = "idle"
  BY DEF Restart, Idle
<1>2. late' \subseteq Groups
  BY Start DEF Restart, IInv, TypeOK
<1>3. TypeOK'
  <2>1. gate' \in Seq(Callers) /\ call' \in [Callers -> Call]
    BY IdleIsCall DEF Restart
  <2>2. circuit' \in [Groups -> Circuits]
    BY DEF Restart, Circuits
  <2> QED
    BY <1>2, <2>1, <2>2 DEF Restart, IInv, TypeOK
<1>4. Round \in Callers /\ Requests \subseteq Callers
  BY DEF Callers
<1>5. Grouped' /\ OneBusy' /\ PassingIsFree'
  BY <1>1, <1>4 DEF Grouped, OneBusy, Busy, PassingIsFree, InFlight
<1>6. SlotWithLease'
  BY DEF Restart, SlotWithLease
<1>7. Moved'
  BY <1>1 DEF Restart, IInv, TypeOK, Moved, InFlight
<1> QED
  BY <1>3, <1>5, <1>6, <1>7 DEF IInv

-----------------------------------------------------------------------------
LEMMA StepKeeps ==
  ASSUME IInv, NEW c \in Callers, Step(c)
  PROVE  IInv'
<1>1. CASE \E arrives \in BOOLEAN : PutFails(c, arrives) \/ MoveFails(c, arrives)
  BY <1>1, PutFailsKeeps, MoveFailsKeeps
<1> QED
  BY <1>1, EnterKeeps, PutAnsweredKeeps, SavedKeeps, SaveFailsKeeps DEF Step

LEMMA RequestKeeps ==
  ASSUME IInv, NEW r \in Requests, Arrive(r) \/ RequestStep(r)
  PROVE  IInv'
<1>1. r \in Callers /\ r # Round
  BY SingleKeyAssumption DEF Callers
<1>2. CASE Arrive(r)
  BY <1>1, <1>2, AcquireKeeps DEF Arrive
<1>3. CASE Step(r)
  BY <1>1, <1>3, StepKeeps
<1>4. CASE NoRoute(r) \/ Answered(r) \/ BodyEnds(r)
  BY <1>4, NoRouteKeeps, AnsweredKeeps, BodyEndsKeeps
<1>5. CASE \E locked \in Groups \cup {NoGroup}, usable \in SUBSET Groups :
             RouteSingle(r, locked, usable)
  BY <1>5, RouteSingleKeeps
<1> QED
  BY <1>2, <1>3, <1>4, <1>5 DEF RequestStep

LEMMA ElsewhereKeeps ==
  ASSUME IInv, NEW g \in Groups,
         Cools(g) \/ LateArrives(g) \/ LateVanishes(g) \/ SavedElsewhere
  PROVE  IInv'
<1> USE DEF IInv, TypeOK
<1>1. CASE Cools(g)
  <2>1. circuit' \in [Groups -> Circuits]
        /\ \A h \in Groups : circuit'[h] = "probing" => circuit[h] = "probing"
    BY <1>1 DEF Cools, Circuits
  <2> QED
    BY <1>1, <2>1, Elsewhere DEF Cools
<1>2. CASE LateArrives(g)
  BY <1>2, Elsewhere DEF LateArrives
<1>3. CASE LateVanishes(g)
  BY <1>3, Elsewhere DEF LateVanishes
<1>4. CASE SavedElsewhere
  BY <1>4, Elsewhere DEF SavedElsewhere
<1> QED
  BY <1>1, <1>2, <1>3, <1>4

(* Every step keeps the inductive invariant.                                *)
THEOREM InvNext == IInv /\ [Next]_vars => IInv'
<1> SUFFICES ASSUME IInv, [Next]_vars PROVE IInv'
  OBVIOUS
<1>1. ASSUME NEW r \in Requests, Arrive(r) \/ RequestStep(r) PROVE IInv'
  BY <1>1, RequestKeeps
<1>2. CASE Step(Round)
  BY <1>2, StepKeeps DEF Callers
<1>3. ASSUME NEW g \in Groups, RoundDecides(g) PROVE IInv'
  BY <1>3, AcquireKeeps DEF RoundDecides, Callers
<1>4. ASSUME NEW g \in Groups, Cools(g) \/ LateArrives(g) \/ LateVanishes(g)
      PROVE IInv'
  BY <1>4, ElsewhereKeeps
<1>5. CASE SavedElsewhere
  BY <1>5, Start, ElsewhereKeeps DEF IInv, TypeOK
<1>6. CASE Restart
  BY <1>6, RestartKeeps
<1>7. CASE UNCHANGED vars
  BY <1>7, Elsewhere DEF IInv, TypeOK, vars
<1> QED
  BY <1>1, <1>2, <1>3, <1>4, <1>5, <1>6, <1>7 DEF Next

(* The inductive invariant holds in every reachable state of single mode.   *)
THEOREM Invariant == Spec => []IInv
<1>1. Init => IInv
  BY InvInit
<1>2. IInv /\ [Next]_vars => IInv'
  BY InvNext
<1> QED
  BY <1>1, <1>2, PTL DEF Spec

(* The types, and with them the bounds of retries and of PUTs per switch    *)
(* (RETRY_ONCE and maxRetries), hold for any number of requests.            *)
THEOREM TypesHold == Spec => []TypeOK
<1>1. IInv => TypeOK
  BY DEF IInv
<1> QED
  BY <1>1, Invariant, PTL

(* allowRequest's slot is always in the hands of a request that holds the   *)
(* lease of SingleKeyGate, or it has been given back.                       *)
THEOREM SlotsAreHeld == Spec => []SlotWithLease
<1>1. IInv => SlotWithLease
  BY DEF IInv
<1> QED
  BY <1>1, Invariant, PTL

(* What routeSingle reports as the serving group is the group of the key,   *)
(* unless a PUT nobody waited for took effect.                              *)
THEOREM RoutedIsServed == Spec => []ServedAsRouted
<1>1. IInv => ServedAsRouted
  BY DEF IInv, Moved, ServedAsRouted, Callers
<1> QED
  BY <1>1, Invariant, PTL

(* SingleKeyGate keeps every switch, by a request or by a round, out of the *)
(* time in which a response is under way (README.md:309).                   *)
THEOREM ResponsesKeepTheirGroup == Spec => NoRegroupInFlight
<1> DEFINE Safe == remote' # remote /\ ~(\E g \in Groups : LateArrives(g))
                   => \A r \in Requests : call[r].stage \notin InFlight
<1>1. IInv /\ [Next]_vars => [Safe]_vars
  <2> SUFFICES ASSUME IInv, Next, remote' # remote,
                      ~(\E g \in Groups : LateArrives(g)), NEW r \in Requests
               PROVE  call[r].stage \notin InFlight
    BY DEF vars
  <2>1. PICK c \in Callers : PutAnswered(c)
    BY DEF Next, RequestStep, Step, Arrive, Acquire, Enter, NoRoute, RouteSingle,
           PutFails, MoveFails, Saved, SaveFails, Answered, BodyEnds, RoundDecides,
           Cools, LateVanishes, SavedElsewhere, Restart, Callers
  <2>2. call[c].stage = "moving"
    BY <2>1 DEF PutAnswered
  <2>3. r \in Callers
    BY DEF Callers
  <2> QED
    BY <2>2, <2>3, BusyHolds, HolderAlone DEF Busy, InFlight
<1> QED
  BY <1>1, Invariant, PTL DEF Spec, NoRegroupInFlight

-----------------------------------------------------------------------------
(* Turns: what callers do with the lease, and for how many steps.           *)

(* How many steps a call has left within its attempt, and until its end.    *)
Rank(q) ==
  IF q.stage = "routing" THEN 6
  ELSE IF q.stage = "moving" THEN 5 - q.puts
  ELSE IF q.stage = "saving" THEN 3
  ELSE IF q.stage = "sent" THEN 2
  ELSE 1

StepsLeft(q) ==
  IF q.stage = "idle" THEN 0
  ELSE IF q.stage = "waiting" THEN 6 * MaxRetries + 7
  ELSE 6 * (MaxRetries - q.attempt) + Rank(q)

(* Somebody asks for the lease.                                             *)
Joins(c) ==
  /\ call[c].stage = "idle" /\ gate' = Append(gate, c)
  /\ \E q \in Call : q.stage = "waiting" /\ call' = [call EXCEPT ![c] = q]

(* The holder enters, or goes on.                                           *)
GoesOn(c) ==
  /\ Holds(c) /\ gate' = gate /\ call[c].stage # "idle"
  /\ \E q \in Call : /\ q.stage \notin {"idle", "waiting"}
                     /\ call' = [call EXCEPT ![c] = q]
                     /\ StepsLeft(q) < StepsLeft(call[c])

(* The holder ends.                                                         *)
GivesBack(c) == Busy(c) /\ Holds(c) /\ Ends(c)

LEMMA LeftBounded ==
  ASSUME NEW q \in Call
  PROVE  /\ StepsLeft(q) \in 0 .. 6 * MaxRetries + 7
         /\ q.stage # "idle" => StepsLeft(q) > 0
BY Fields, SingleKeyAssumption DEF StepsLeft, Rank

LEMMA GoesGoesOn ==
  ASSUME IInv, NEW c \in Callers, Holds(c), NEW s \in Stages, Goes(c, s),
         \/ call[c].stage = "waiting" /\ s \notin {"idle", "waiting"}
         \/ call[c].stage = "moving" /\ s = "saving"
         \/ call[c].stage = "saving" /\ s = "sent"
         \/ call[c].stage = "sent" /\ s \in {"streaming", "passing"}
  PROVE  GoesOn(c)
<1> DEFINE q == [call[c] EXCEPT !.stage = s]
<1>1. call' = [call EXCEPT ![c] = q] /\ gate' = gate
  BY DEF Goes
<1>2. call[c] \in Call
  BY Start
<1>3. q \in Call /\ q.stage = s
  BY <1>2, Staged
<1>4. q.attempt = call[c].attempt /\ q.puts = call[c].puts
  BY <1>2, SMT DEF Call
<1> HIDE DEF q
<1>5. StepsLeft(q) < StepsLeft(call[c])
  BY <1>2, <1>3, <1>4, Fields, SingleKeyAssumption DEF StepsLeft, Rank
<1> QED
  BY <1>1, <1>3, <1>5 DEF GoesOn

LEMMA PutFailsGoesOn ==
  ASSUME IInv, NEW c \in Callers, NEW arrives \in BOOLEAN, PutFails(c, arrives)
  PROVE  GoesOn(c)
<1> DEFINE q == [call[c] EXCEPT !.puts = 1]
<1>1. call[c].stage = "moving" /\ call[c].puts = 0 /\ gate' = gate
      /\ call' = [call EXCEPT ![c] = q]
  BY DEF PutFails
<1>2. Holds(c)
  BY <1>1, BusyHolds DEF Busy
<1>3. call[c] \in Call /\ 1 \in 0 .. 1
  BY Start
<1>4. q \in Call
  BY <1>3, Zenon DEF Call
<1>5. q.stage = call[c].stage /\ q.attempt = call[c].attempt /\ q.puts = 1
  BY <1>3, SMT DEF Call
<1> HIDE DEF q
<1>6. StepsLeft(q) < StepsLeft(call[c])
  BY <1>1, <1>3, <1>4, <1>5, Fields, SingleKeyAssumption DEF StepsLeft, Rank
<1> QED
  BY <1>1, <1>2, <1>4, <1>5, <1>6 DEF GoesOn

LEMMA RouteSingleGoesOn ==
  ASSUME IInv, NEW r \in Requests, NEW locked \in Groups \cup {NoGroup},
         NEW usable \in SUBSET Groups, RouteSingle(r, locked, usable)
  PROVE  GoesOn(r)
<1>1. r \in Callers
  BY DEF Callers
<1>2. call[r].stage = "routing" /\ gate' = gate
  BY DEF RouteSingle
<1>3. Holds(r)
  BY <1>1, <1>2, BusyHolds DEF Busy
<1>4. PICK g \in Groups :
        call' = [call EXCEPT ![r] =
          [@ EXCEPT !.stage = IF g = current THEN "sent" ELSE "moving", !.group = g]]
  BY DEF RouteSingle
<1> DEFINE s == IF g = current THEN "sent" ELSE "moving"
           q == [call[r] EXCEPT !.stage = s, !.group = g]
<1>5. call[r] \in Call /\ s \in Stages /\ s \in {"sent", "moving"}
  BY <1>1, Start DEF Stages
<1>6. call' = [call EXCEPT ![r] = q]
  BY <1>4
<1> HIDE DEF s
<1>7. q \in Call
  BY <1>5, Zenon DEF Call
<1>8. q.stage = s /\ q.attempt = call[r].attempt /\ q.puts = call[r].puts
  BY <1>5, SMT DEF Call
<1> HIDE DEF q
<1>9. StepsLeft(q) < StepsLeft(call[r])
  BY <1>2, <1>5, <1>7, <1>8, Fields, SingleKeyAssumption DEF StepsLeft, Rank
<1> QED
  BY <1>1, <1>2, <1>3, <1>5, <1>6, <1>7, <1>8, <1>9 DEF GoesOn

LEMMA RetryOrEndTurns ==
  ASSUME IInv, NEW r \in Requests, call[r].stage = "sent", RetryOrEnd(r)
  PROVE  GoesOn(r) \/ GivesBack(r)
<1>1. r \in Callers
  BY DEF Callers
<1>2. Holds(r)
  BY <1>1, BusyHolds DEF Busy
<1>3. CASE Ends(r)
  BY <1>2, <1>3 DEF GivesBack, Busy
<1>4. CASE /\ call[r].attempt < MaxRetries
           /\ call' = [call EXCEPT ![r] =
                [Idle EXCEPT !.stage = "routing", !.attempt = call[r].attempt + 1,
                             !.failed = call[r].failed \cup {call[r].group}]]
           /\ UNCHANGED gate
  <2> DEFINE a == call[r].attempt + 1
             f == call[r].failed \cup {call[r].group}
             q == [Idle EXCEPT !.stage = "routing", !.attempt = a, !.failed = f]
  <2>1. /\ call[r] \in Call /\ Idle \in Call /\ "routing" \in Stages
        /\ call[r].attempt \in 0 .. MaxRetries /\ call[r].failed \subseteq Groups
    BY <1>1, Start, Fields DEF Stages
  <2>2. call[r].group \in Groups
    BY <1>1, Start DEF InFlight
  <2>3. a \in 0 .. MaxRetries /\ f \subseteq Groups /\ a = call[r].attempt + 1
    BY <1>4, <2>1, <2>2, SingleKeyAssumption
  <2>4. call' = [call EXCEPT ![r] = q] /\ gate' = gate
    BY <1>4
  <2> HIDE DEF a, f
  <2>5. q \in Call
    BY <2>1, <2>3, Zenon DEF Call
  <2>6. q.stage = "routing" /\ q.attempt = a
    BY DEF Idle
  <2> HIDE DEF q
  <2>7. StepsLeft(q) < StepsLeft(call[r])
    BY <2>1, <2>3, <2>5, <2>6, Fields, SingleKeyAssumption DEF StepsLeft, Rank
  <2> QED
    BY <1>2, <2>4, <2>5, <2>6, <2>7 DEF GoesOn
<1> QED
  BY <1>3, <1>4 DEF RetryOrEnd

LEMMA StepTurns ==
  ASSUME IInv, NEW c \in Callers, Step(c)
  PROVE  GoesOn(c) \/ GivesBack(c)
<1>1. CASE Enter(c)
  <2>1. /\ call[c].stage = "waiting" /\ Holds(c)
        /\ Goes(c, IF c = Round THEN "moving" ELSE "routing")
    BY <1>1 DEF Enter
  <2>2. {"moving", "routing"} \subseteq Stages
    BY DEF Stages
  <2> QED
    BY <2>1, <2>2, GoesGoesOn
<1>2. CASE \E arrives \in BOOLEAN : PutFails(c, arrives)
  BY <1>2, PutFailsGoesOn
<1>3. CASE \E arrives \in BOOLEAN : MoveFails(c, arrives)
  BY <1>3, BusyHolds DEF MoveFails, Throws, GivesBack, Busy
<1>4. CASE PutAnswered(c)
  <2>1. call[c].stage = "moving" /\ Goes(c, "saving") /\ "saving" \in Stages
    BY <1>4 DEF PutAnswered, Stages
  <2> QED
    BY <2>1, BusyHolds, GoesGoesOn DEF Busy
<1>5. CASE Saved(c)
  <2>1. call[c].stage = "saving" /\ Holds(c) /\ "sent" \in Stages
    BY <1>5, BusyHolds DEF Saved, Busy, Stages
  <2> QED
    BY <1>5, <2>1, GoesGoesOn DEF Saved, GivesBack, Busy
<1>6. CASE SaveFails(c)
  BY <1>6, BusyHolds DEF SaveFails, Throws, GivesBack, Busy
<1> QED
  BY <1>1, <1>2, <1>3, <1>4, <1>5, <1>6 DEF Step

LEMMA RequestTurns ==
  ASSUME IInv, NEW r \in Requests, RequestStep(r)
  PROVE  GoesOn(r) \/ GivesBack(r)
<1>1. r \in Callers
  BY DEF Callers
<1>2. CASE Step(r)
  BY <1>1, <1>2, StepTurns
<1>3. CASE NoRoute(r)
  BY <1>1, <1>3, BusyHolds DEF NoRoute, GivesBack, Busy
<1>4. CASE Answered(r)
  <2>1. call[r].stage = "sent" /\ Holds(r)
    BY <1>1, <1>4, BusyHolds DEF Answered, Busy
  <2>2. "streaming" \in Stages /\ "passing" \in Stages
    BY DEF Stages
  <2>3. CASE Goes(r, "streaming") \/ Goes(r, "passing")
    BY <1>1, <2>1, <2>2, <2>3, GoesGoesOn
  <2>4. CASE RetryOrEnd(r)
    BY <2>1, <2>4, RetryOrEndTurns
  <2>5. CASE Ends(r)
    BY <2>1, <2>5 DEF GivesBack, Busy
  <2> QED
    BY <1>4, <2>3, <2>4, <2>5 DEF Answered
<1>5. CASE BodyEnds(r)
  BY <1>1, <1>5, BusyHolds DEF BodyEnds, GivesBack, Busy
<1>6. CASE \E locked \in Groups \cup {NoGroup}, usable \in SUBSET Groups :
             RouteSingle(r, locked, usable)
  BY <1>6, RouteSingleGoesOn
<1> QED
  BY <1>2, <1>3, <1>4, <1>5, <1>6 DEF RequestStep

LEMMA AcquireJoins ==
  ASSUME IInv, NEW c \in Callers, NEW g \in Groups \cup {NoGroup}, Acquire(c, g)
  PROVE  Joins(c)
<1> DEFINE q == [call[c] EXCEPT !.stage = "waiting", !.group = g]
<1>1. call[c] \in Call /\ "waiting" \in Stages
  BY Start DEF Stages
<1>2. q \in Call
  BY <1>1, Zenon DEF Call
<1>3. q.stage = "waiting"
  BY <1>1, SMT DEF Call
<1>4. call' = [call EXCEPT ![c] = q] /\ gate' = Append(gate, c) /\ call[c].stage = "idle"
  BY DEF Acquire
<1> HIDE DEF q
<1> QED
  BY <1>2, <1>3, <1>4 DEF Joins

(* A step is a caller's turn, a restart, or does not concern the lease.     *)
LEMMA Turns ==
  ASSUME IInv, [Next]_vars
  PROVE  \/ \E c \in Callers : Joins(c) \/ GoesOn(c) \/ GivesBack(c)
         \/ gate' = <<>> /\ call' = [c \in Callers |-> Idle]
         \/ UNCHANGED <<gate, call>>
<1>1. ASSUME NEW r \in Requests, Arrive(r) \/ RequestStep(r)
      PROVE  r \in Callers /\ (Joins(r) \/ GoesOn(r) \/ GivesBack(r))
  BY <1>1, AcquireJoins, RequestTurns DEF Arrive, Callers
<1>2. ASSUME Step(Round)
      PROVE  Round \in Callers /\ (GoesOn(Round) \/ GivesBack(Round))
  BY <1>2, StepTurns DEF Callers
<1>3. ASSUME NEW g \in Groups, RoundDecides(g)
      PROVE  Round \in Callers /\ Joins(Round)
  BY <1>3, AcquireJoins DEF RoundDecides, Callers
<1>4. ASSUME NEW g \in Groups, Cools(g) \/ LateArrives(g) \/ LateVanishes(g)
      PROVE  UNCHANGED <<gate, call>>
  BY <1>4 DEF Cools, LateArrives, LateVanishes
<1>5. CASE SavedElsewhere \/ UNCHANGED vars
  BY <1>5 DEF SavedElsewhere, vars
<1>6. CASE Restart
  BY <1>6 DEF Restart
<1> QED
  BY <1>1, <1>2, <1>3, <1>4, <1>5, <1>6 DEF Next

-----------------------------------------------------------------------------
(* The line of the lease.                                                   *)

(* Exactly the callers that are not idle are in the line, each once: nobody *)
(* waits who will not be let in, and nobody is let in who does not wait.    *)
LineOk ==
  /\ \A i \in 1 .. Len(gate) : call[gate[i]].stage # "idle"
  /\ \A i, j \in 1 .. Len(gate) : gate[i] = gate[j] => i = j
  /\ \A c \in Callers :
       call[c].stage # "idle" => \E i \in 1 .. Len(gate) : gate[i] = c

LEMMA JoinsKeepsLine ==
  ASSUME IInv, LineOk, NEW c \in Callers, Joins(c)
  PROVE  LineOk'
<1>1. PICK q \in Call : q.stage = "waiting" /\ call' = [call EXCEPT ![c] = q]
  BY DEF Joins
<1>2. /\ call'[c] = q
      /\ \A d \in Callers : d # c => call'[d] = call[d]
  BY <1>1, Changed DEF IInv
<1>3. gate \in Seq(Callers) /\ call[c].stage = "idle" /\ gate' = Append(gate, c)
  BY DEF IInv, TypeOK, Joins
<1>4. /\ Len(gate) \in Nat /\ Len(gate') = Len(gate) + 1
      /\ gate'[Len(gate) + 1] = c
      /\ \A i \in 1 .. Len(gate) : gate'[i] = gate[i] /\ gate[i] \in Callers
  BY <1>3
<1>5. \A i \in 1 .. Len(gate) : gate[i] # c
  BY <1>3 DEF LineOk
<1>6. \A i \in 1 .. Len(gate') : i \in 1 .. Len(gate) \/ i = Len(gate) + 1
  BY <1>4
<1>7. (\A i \in 1 .. Len(gate) : call[gate[i]].stage # "idle")'
  <2> SUFFICES ASSUME NEW i \in 1 .. Len(gate') PROVE call'[gate'[i]].stage # "idle"
    OBVIOUS
  <2>1. CASE i \in 1 .. Len(gate)
    BY <1>2, <1>4, <1>5, <2>1 DEF LineOk
  <2>2. CASE i = Len(gate) + 1
    BY <1>1, <1>2, <1>4, <2>2
  <2> QED
    BY <1>6, <2>1, <2>2
<1>8. (\A i, j \in 1 .. Len(gate) : gate[i] = gate[j] => i = j)'
  BY <1>4, <1>5, <1>6 DEF LineOk
<1>9. ASSUME NEW d \in Callers, call'[d].stage # "idle"
      PROVE  \E i \in 1 .. Len(gate') : gate'[i] = d
  <2>1. CASE d = c
    BY <1>4, <2>1
  <2>2. CASE d # c
    <3>1. PICK i \in 1 .. Len(gate) : gate[i] = d
      BY <1>2, <1>9, <2>2 DEF LineOk
    <3> QED
      BY <1>4, <3>1
  <2> QED
    BY <2>1, <2>2
<1> QED
  BY <1>7, <1>8, <1>9 DEF LineOk

LEMMA GoesOnKeepsLine ==
  ASSUME IInv, LineOk, NEW c \in Callers, GoesOn(c)
  PROVE  LineOk'
<1>1. PICK q \in Call : /\ q.stage \notin {"idle", "waiting"}
                        /\ call' = [call EXCEPT ![c] = q]
  BY DEF GoesOn
<1>2. /\ call'[c] = q
      /\ \A d \in Callers : d # c => call'[d] = call[d]
  BY <1>1, Changed DEF IInv
<1>3. gate \in Seq(Callers) /\ call[c].stage # "idle" /\ gate' = gate
  BY DEF IInv, TypeOK, GoesOn
<1>4. \A i \in 1 .. Len(gate) : gate[i] \in Callers
  BY <1>3
<1>5. \A d \in Callers : call'[d].stage # "idle" <=> call[d].stage # "idle"
  BY <1>1, <1>2, <1>3
<1> QED
  BY <1>3, <1>4, <1>5 DEF LineOk

LEMMA GivesBackKeepsLine ==
  ASSUME IInv, LineOk, NEW c \in Callers, GivesBack(c)
  PROVE  LineOk'
<1>1. call' = [call EXCEPT ![c] = Idle] /\ gate' = Tail(gate) /\ Holds(c)
  BY DEF GivesBack, Ends
<1>2. /\ call'[c] = Idle /\ Idle.stage = "idle"
      /\ \A d \in Callers : d # c => call'[d] = call[d]
  BY <1>1, IdleIsCall, Changed DEF IInv, Idle
<1>3. gate \in Seq(Callers) /\ gate # <<>> /\ gate[1] = c
  BY <1>1 DEF IInv, TypeOK, Holds
<1>4. /\ Len(gate) \in Nat /\ Len(gate) > 0 /\ Len(gate') = Len(gate) - 1
      /\ \A i \in 1 .. Len(gate') : gate'[i] = gate[i + 1] /\ i + 1 \in 1 .. Len(gate)
      /\ \A i \in 1 .. Len(gate) : gate[i] \in Callers
  BY <1>1, <1>3
<1>5. \A i \in 1 .. Len(gate) : i # 1 => gate[i] # c
  BY <1>3, <1>4 DEF LineOk
<1>6. (\A i \in 1 .. Len(gate) : call[gate[i]].stage # "idle")'
  <2> SUFFICES ASSUME NEW i \in 1 .. Len(gate') PROVE call'[gate'[i]].stage # "idle"
    OBVIOUS
  <2>1. gate'[i] = gate[i + 1] /\ i + 1 \in 1 .. Len(gate) /\ i + 1 # 1
    BY <1>4
  <2> QED
    BY <1>2, <1>4, <1>5, <2>1 DEF LineOk
<1>7. (\A i, j \in 1 .. Len(gate) : gate[i] = gate[j] => i = j)'
  <2> SUFFICES ASSUME NEW i \in 1 .. Len(gate'), NEW j \in 1 .. Len(gate'),
                      gate'[i] = gate'[j]
               PROVE  i = j
    OBVIOUS
  <2>1. gate[i + 1] = gate[j + 1]
        /\ i + 1 \in 1 .. Len(gate) /\ j + 1 \in 1 .. Len(gate)
    BY <1>4
  <2>2. i + 1 = j + 1
    BY <2>1 DEF LineOk
  <2> QED
    BY <1>4, <2>2
<1>8. ASSUME NEW d \in Callers, call'[d].stage # "idle"
      PROVE  \E i \in 1 .. Len(gate') : gate'[i] = d
  <2>1. d # c /\ call[d].stage # "idle"
    BY <1>2, <1>8
  <2>2. PICK i \in 1 .. Len(gate) : gate[i] = d
    BY <2>1 DEF LineOk
  <2>3. i # 1 /\ i - 1 \in 1 .. Len(gate') /\ (i - 1) + 1 = i
    BY <1>3, <1>4, <2>1, <2>2
  <2> QED
    BY <1>4, <2>2, <2>3
<1> QED
  BY <1>6, <1>7, <1>8 DEF LineOk

(* No way a caller ends, no failed switch and no restart loses a waiter or  *)
(* leaves the lease with somebody who is gone (SingleKeyGate, traffic.ts).  *)
THEOREM NoWaiterIsLost == Spec => []LineOk
<1>1. Init => LineOk
  BY DEF Init, LineOk, Idle
<1>2. IInv /\ LineOk /\ [Next]_vars => LineOk'
  <2> SUFFICES ASSUME IInv, LineOk, [Next]_vars PROVE LineOk'
    OBVIOUS
  <2>1. CASE gate' = <<>> /\ call' = [c \in Callers |-> Idle]
    BY <2>1 DEF LineOk, Idle
  <2>2. CASE UNCHANGED <<gate, call>>
    BY <2>2 DEF LineOk
  <2>3. ASSUME NEW c \in Callers, Joins(c) \/ GoesOn(c) \/ GivesBack(c)
        PROVE  LineOk'
    BY <2>3, JoinsKeepsLine, GoesOnKeepsLine, GivesBackKeepsLine
  <2> QED
    BY <2>1, <2>2, <2>3, Turns
<1> QED
  BY <1>1, <1>2, Invariant, PTL DEF Spec

-----------------------------------------------------------------------------
(* The lease as SingleKeyGate promises it.                                  *)

Inside == gate # <<>> /\ call[Head(gate)].stage \notin {"idle", "waiting"}

LEMMA JoinsMaps ==
  ASSUME IInv, LineOk, NEW c \in Callers, Joins(c)
  PROVE  Gate!Join(c)
<1>1. PICK q \in Call : q.stage = "waiting" /\ call' = [call EXCEPT ![c] = q]
  BY DEF Joins
<1>2. /\ call'[c] = q
      /\ \A d \in Callers : d # c => call'[d] = call[d]
  BY <1>1, Changed DEF IInv
<1>3. gate \in Seq(Callers) /\ call[c].stage = "idle" /\ gate' = Append(gate, c)
  BY DEF IInv, TypeOK, Joins
<1>4. \A i \in 1 .. Len(gate) : gate[i] # c
  BY <1>3 DEF LineOk
<1>5. Inside' = Inside
  <2>1. CASE gate = <<>>
    <3>1. gate' # <<>> /\ Head(gate') = c
      BY <1>3, <2>1
    <3> QED
      BY <1>1, <1>2, <2>1, <3>1 DEF Inside
  <2>2. CASE gate # <<>>
    <3>1. gate' # <<>> /\ Head(gate') = Head(gate)
      BY <1>3, <2>2
    <3>2. Head(gate) \in Callers /\ Head(gate) # c
      BY <1>3, <1>4, <2>2
    <3> QED
      BY <1>2, <2>2, <3>1, <3>2 DEF Inside
  <2> QED
    BY <2>1, <2>2
<1> QED
  BY <1>3, <1>4, <1>5 DEF Gate!Join, Inside

LEMMA GoesOnMaps ==
  ASSUME IInv, NEW c \in Callers, GoesOn(c)
  PROVE  Gate!Enter \/ UNCHANGED Gate!vars
<1>1. PICK q \in Call : /\ q.stage \notin {"idle", "waiting"}
                        /\ call' = [call EXCEPT ![c] = q]
  BY DEF GoesOn
<1>2. call'[c] = q
  BY <1>1, Changed DEF IInv
<1>3. gate' = gate /\ gate # <<>> /\ Head(gate) = c /\ Inside'
  BY <1>1, <1>2 DEF GoesOn, Holds, Inside
<1> QED
  BY <1>3 DEF Gate!Enter, Gate!vars, Inside

LEMMA GivesBackMaps ==
  ASSUME IInv, LineOk, NEW c \in Callers, GivesBack(c)
  PROVE  Gate!Leave
<1>1. gate' = Tail(gate) /\ Inside
  BY DEF GivesBack, Ends, Busy, Holds, Inside
<1>2. LineOk /\ gate \in Seq(Callers) /\ gate # <<>> /\ gate[1] = c
  BY DEF IInv, TypeOK, GivesBack, Holds
<1>3. \A d \in Callers : d # c => call'[d] = call[d]
  BY IdleIsCall, Changed DEF IInv, GivesBack, Ends
<1>4. ~Inside'
  <2> SUFFICES ASSUME gate' # <<>> PROVE call'[Head(gate')].stage \in {"idle", "waiting"}
    BY DEF Inside
  <2>1. Head(gate') = gate[2] /\ 2 \in 1 .. Len(gate) /\ gate[2] \in Callers
    BY <1>1, <1>2
  <2>2. gate[2] # c
    BY <1>2, <2>1 DEF LineOk
  <2>3. call[gate[2]].stage \in {"idle", "waiting"}
    BY <2>1, <2>2, HolderAlone DEF GivesBack
  <2> QED
    BY <1>3, <2>1, <2>2, <2>3
<1> QED
  BY <1>1, <1>4 DEF Gate!Leave, Inside

(* Whatever the callers do and however they end, they are let in one at a   *)
(* time, in the order of acquire, the next one only after the one before    *)
(* has left (SingleKeyGate, traffic.ts).                                    *)
THEOREM ImplementsAbstractGate == Spec => RefinesAbstractGate
<1>1. Init => Gate!Init
  BY DEF Init, Gate!Init
<1>2. IInv /\ LineOk /\ [Next]_vars => [Gate!Next]_(Gate!vars)
  <2> SUFFICES ASSUME IInv, LineOk, [Next]_vars PROVE [Gate!Next]_(Gate!vars)
    OBVIOUS
  <2>1. CASE gate' = <<>> /\ call' = [c \in Callers |-> Idle]
    BY <2>1 DEF Gate!Next, Gate!Crash
  <2>2. CASE UNCHANGED <<gate, call>>
    BY <2>2 DEF Gate!vars
  <2>3. ASSUME NEW c \in Callers, Joins(c)
        PROVE  Gate!Next
    BY <2>3, JoinsMaps DEF Gate!Next
  <2>4. ASSUME NEW c \in Callers, GoesOn(c)
        PROVE  [Gate!Next]_(Gate!vars)
    BY <2>4, GoesOnMaps DEF Gate!Next
  <2>5. ASSUME NEW c \in Callers, GivesBack(c)
        PROVE  Gate!Next
    BY <2>5, GivesBackMaps DEF Gate!Next
  <2> QED
    BY <2>1, <2>2, <2>3, <2>4, <2>5, Turns
<1> QED
  BY <1>1, <1>2, Invariant, NoWaiterIsLost, PTL DEF Spec, RefinesAbstractGate, Gate!Spec

-----------------------------------------------------------------------------
(* The safety half of LeaseComesRound: every turn is bounded, and the line  *)
(* only gets shorter in front of a waiter.                                  *)

(* Every step of a caller after it has asked takes it closer to its end.    *)
TurnsRunOut ==
  [][\A c \in Callers :
       call[c].stage # "idle" /\ call'[c] # call[c]
         => /\ StepsLeft(call[c]) \in 1 .. 6 * MaxRetries + 7
            /\ StepsLeft(call'[c]) < StepsLeft(call[c])]_vars

(* Nobody who has asked is ever further back in the line than before.       *)
NobodyOvertakes ==
  [][\A i \in 1 .. Len(gate) :
       call'[gate[i]].stage # "idle"
         => \E j \in 1 .. i : j \in 1 .. Len(gate') /\ gate'[j] = gate[i]]_vars

LEMMA TurnIsShorter ==
  ASSUME IInv, NEW d \in Callers, Joins(d) \/ GoesOn(d) \/ GivesBack(d),
         NEW c \in Callers, call[c].stage # "idle", call'[c] # call[c]
  PROVE  StepsLeft(call'[c]) < StepsLeft(call[c])
<1>1. CASE Joins(d)
  BY <1>1, Changed DEF IInv, Joins
<1>2. CASE GoesOn(d)
  <2>1. PICK q \in Call : /\ call' = [call EXCEPT ![d] = q]
                          /\ StepsLeft(q) < StepsLeft(call[d])
    BY <1>2 DEF GoesOn
  <2>2. call'[d] = q /\ c = d
    BY <2>1, Changed DEF IInv
  <2> QED
    BY <2>1, <2>2
<1>3. CASE GivesBack(d)
  <2>1. call'[d] = Idle /\ c = d
    BY <1>3, IdleIsCall, Changed DEF IInv, GivesBack, Ends
  <2>2. call[c] \in Call
    BY Start
  <2>3. StepsLeft(call[c]) > 0 /\ StepsLeft(call[c]) \in 0 .. 6 * MaxRetries + 7
    BY <2>2, LeftBounded
  <2>4. StepsLeft(Idle) = 0
    BY DEF StepsLeft, Idle
  <2> QED
    BY <2>1, <2>3, <2>4
<1> QED
  BY <1>1, <1>2, <1>3

(* With the lease, no caller takes more than 6 * maxRetries + 7 steps until *)
(* it gives it back, whatever AIHub and the upstreams answer (handleProxy,  *)
(* RETRY_ONCE).                                                             *)
THEOREM TurnsEnd == Spec => TurnsRunOut
<1> DEFINE Shorter == \A c \in Callers :
             call[c].stage # "idle" /\ call'[c] # call[c]
               => /\ StepsLeft(call[c]) \in 1 .. 6 * MaxRetries + 7
                  /\ StepsLeft(call'[c]) < StepsLeft(call[c])
<1>1. IInv /\ [Next]_vars => [Shorter]_vars
  <2> SUFFICES ASSUME IInv, [Next]_vars, NEW c \in Callers,
                      call[c].stage # "idle", call'[c] # call[c]
               PROVE  /\ StepsLeft(call[c]) \in 1 .. 6 * MaxRetries + 7
                      /\ StepsLeft(call'[c]) < StepsLeft(call[c])
    OBVIOUS
  <2>0. StepsLeft(call[c]) \in 1 .. 6 * MaxRetries + 7
    <3>1. call[c] \in Call
      BY Start
    <3> QED
      BY <3>1, LeftBounded
  <2>1. ASSUME NEW d \in Callers, Joins(d) \/ GoesOn(d) \/ GivesBack(d)
        PROVE  StepsLeft(call'[c]) < StepsLeft(call[c])
    BY <2>1, TurnIsShorter
  <2>2. CASE gate' = <<>> /\ call' = [d \in Callers |-> Idle]
    <3>1. call'[c] = Idle
      BY <2>2
    <3>2. StepsLeft(Idle) = 0
      BY DEF StepsLeft, Idle
    <3> QED
      BY <2>0, <3>1, <3>2
  <2> QED
    BY <2>0, <2>1, <2>2, Turns
<1> QED
  BY <1>1, Invariant, PTL DEF Spec, TurnsRunOut

(* acquire chains every caller behind the one that asked before it: no      *)
(* retry, failed switch or round ever goes before a waiter.                 *)
THEOREM WaitersKeepTheirTurn == Spec => NobodyOvertakes
<1> DEFINE Kept == \A i \in 1 .. Len(gate) :
             call'[gate[i]].stage # "idle"
               => \E j \in 1 .. i : j \in 1 .. Len(gate') /\ gate'[j] = gate[i]
<1>1. IInv /\ LineOk /\ [Next]_vars => [Kept]_vars
  <2> SUFFICES ASSUME IInv, LineOk, [Next]_vars, NEW i \in 1 .. Len(gate),
                      call'[gate[i]].stage # "idle"
               PROVE  \E j \in 1 .. i : j \in 1 .. Len(gate') /\ gate'[j] = gate[i]
    OBVIOUS
  <2>1. gate \in Seq(Callers) /\ Len(gate) \in Nat /\ i \in 1 .. i /\ gate[i] \in Callers
    BY DEF IInv, TypeOK
  <2>2. ASSUME NEW c \in Callers, Joins(c)
        PROVE  i \in 1 .. Len(gate') /\ gate'[i] = gate[i]
    BY <2>1, <2>2 DEF Joins
  <2>3. ASSUME NEW c \in Callers, GoesOn(c)
        PROVE  i \in 1 .. Len(gate') /\ gate'[i] = gate[i]
    BY <2>1, <2>3 DEF GoesOn
  <2>4. ASSUME NEW c \in Callers, GivesBack(c)
        PROVE  \E j \in 1 .. i : j \in 1 .. Len(gate') /\ gate'[j] = gate[i]
    <3>1. gate' = Tail(gate) /\ gate # <<>> /\ gate[1] = c
          /\ call' = [call EXCEPT ![c] = Idle]
      BY <2>1, <2>4 DEF GivesBack, Ends, Holds
    <3>2. call'[c].stage = "idle"
      BY <3>1, IdleIsCall, Changed DEF IInv, Idle
    <3>3. i # 1
      BY <3>1, <3>2
    <3>4. i - 1 \in 1 .. i /\ i - 1 \in 1 .. Len(gate') /\ gate'[i - 1] = gate[i]
      BY <2>1, <3>1, <3>3
    <3> QED
      BY <3>4
  <2>5. CASE gate' = <<>> /\ call' = [c \in Callers |-> Idle]
    BY <2>1, <2>5 DEF Idle
  <2>6. CASE UNCHANGED <<gate, call>>
    BY <2>1, <2>6
  <2> QED
    BY <2>1, <2>2, <2>3, <2>4, <2>5, <2>6, Turns
<1> QED
  BY <1>1, Invariant, NoWaiterIsLost, PTL DEF Spec, NobodyOvertakes
=============================================================================
