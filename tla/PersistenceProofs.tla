-------------------------- MODULE PersistenceProofs --------------------------
(***************************************************************************)
(* The safety properties of Persistence for any number of changes and of   *)
(* pending writes.  The pending texts of state.json ascend from the file   *)
(* to the memory (so no write takes the file back), and the newest of them *)
(* is the memory unless a timer is set (so nothing is forgotten).          *)
(***************************************************************************)
EXTENDS Persistence, TLAPS

(* The versions in w ascend from low to high.                               *)
Ascending(w, low, high) ==
  /\ \A i \in 1 .. Len(w) : low <= w[i] /\ w[i] <= high
  /\ \A i, j \in 1 .. Len(w) : i <= j => w[i] <= w[j]

Ascends == stateFile <= state /\ Ascending(writes.state, stateFile, state)

(* NothingForgotten with what makes it inductive: a failed write excuses    *)
(* only as long as no later text is pending.                                *)
OnItsWay ==
  proc = "up" =>
    /\ timer # "cleared"
    /\ \/ timer = "set"
       \/ writes.state # <<>> /\ Last(writes.state) = state
       \/ writes.state = <<>> /\ (stateFile = state \/ excused)

(* Nothing is written while the process is down.                            *)
DownIsQuiet == proc = "down" => writes = NoWrites

IInv == TypeOK /\ Ascends /\ OnItsWay /\ DownIsQuiet

-----------------------------------------------------------------------------
(* Sequences of versions.                                                   *)

LEMMA AppendAscends ==
  ASSUME NEW w \in Seq(Versions), NEW low \in Versions, NEW high \in Versions,
         low <= high, Ascending(w, low, high)
  PROVE  /\ Append(w, high) \in Seq(Versions)
         /\ Ascending(Append(w, high), low, high)
         /\ Append(w, high) # <<>> /\ Last(Append(w, high)) = high
<1> USE PersistenceAssumption DEF Versions
<1>1. /\ Append(w, high) \in Seq(Versions) /\ Len(Append(w, high)) = Len(w) + 1
      /\ Append(w, high)[Len(w) + 1] = high
      /\ \A i \in 1 .. Len(w) : Append(w, high)[i] = w[i]
  OBVIOUS
<1>2. Len(w) \in Nat
  OBVIOUS
<1>3. \A i \in 1 .. Len(w) : w[i] \in 0 .. MaxChanges
  OBVIOUS
<1>4. Ascending(Append(w, high), low, high)
  BY <1>1, <1>2, <1>3 DEF Ascending
<1>5. Append(w, high) # <<>>
  BY <1>1, <1>2
<1> QED
  BY <1>1, <1>4, <1>5 DEF Last

LEMMA TailAscends ==
  ASSUME NEW w \in Seq(Versions), NEW low \in Versions, NEW high \in Versions,
         w # <<>>, Ascending(w, low, high)
  PROVE  /\ Head(w) \in Versions /\ low <= Head(w) /\ Head(w) <= high
         /\ Tail(w) \in Seq(Versions)
         /\ Ascending(Tail(w), Head(w), high) /\ Ascending(Tail(w), low, high)
         /\ Tail(w) = <<>> => Head(w) = Last(w)
         /\ Tail(w) # <<>> => Last(Tail(w)) = Last(w)
<1> USE PersistenceAssumption DEF Versions
<1>1. /\ Len(w) \in Nat \ {0} /\ Head(w) = w[1]
      /\ Tail(w) \in Seq(Versions) /\ Len(Tail(w)) = Len(w) - 1
      /\ \A i \in 1 .. Len(w) - 1 : Tail(w)[i] = w[i + 1]
  OBVIOUS
<1>2. \A i \in 1 .. Len(w) : w[i] \in 0 .. MaxChanges
  OBVIOUS
<1>3. Head(w) \in Versions /\ low <= Head(w) /\ Head(w) <= high
  BY <1>1, <1>2 DEF Ascending
<1>4. Ascending(Tail(w), Head(w), high)
  BY <1>1, <1>2 DEF Ascending
<1>5. Ascending(Tail(w), low, high)
  BY <1>1, <1>2 DEF Ascending
<1>6. Tail(w) = <<>> => Len(w) = 1
  <2>1. Len(w) - 1 = Len(Tail(w)) /\ Len(w) \in Nat
    BY <1>1
  <2>2. Len(<<>>) = 0
    OBVIOUS
  <2>3. Tail(w) = <<>> => Len(w) - 1 = 0
    BY <2>1, <2>2, Zenon
  <2> QED
    BY <2>1, <2>3
<1>7. Tail(w) # <<>> => Len(w) - 1 \in 1 .. Len(w) - 1
  BY <1>1
<1> QED
  BY <1>1, <1>3, <1>4, <1>5, <1>6, <1>7 DEF Last

LEMMA AscendsHigher ==
  ASSUME NEW w \in Seq(Versions), NEW low \in Versions, NEW high \in Versions,
         Ascending(w, low, high), high < MaxChanges
  PROVE  high + 1 \in Versions /\ Ascending(w, low, high + 1)
<1> USE PersistenceAssumption DEF Versions
<1>1. \A i \in 1 .. Len(w) : w[i] \in 0 .. MaxChanges
  OBVIOUS
<1> QED
  BY <1>1 DEF Ascending

LEMMA NothingPending ==
  ASSUME NEW low, NEW high
  PROVE  Ascending(<<>>, low, high)
BY DEF Ascending

-----------------------------------------------------------------------------
(* The records of the state.                                                *)

Texts == [config : Seq(Config), state : Seq(Versions)]

LEMMA StateWrites ==
  ASSUME NEW p \in Texts, NEW q \in Seq(Versions)
  PROVE  /\ [p EXCEPT !.state = q] \in Texts
         /\ [p EXCEPT !.state = q].state = q
<1>1. [p EXCEPT !.state = q] \in Texts
  BY Zenon DEF Texts
<1> QED
  BY <1>1 DEF Texts

LEMMA ConfigWrites ==
  ASSUME NEW p \in Texts, NEW q \in Seq(Config)
  PROVE  /\ [p EXCEPT !.config = q] \in Texts
         /\ [p EXCEPT !.config = q].state = p.state
<1>1. [p EXCEPT !.config = q] \in Texts
  BY Zenon DEF Texts
<1> QED
  BY <1>1 DEF Texts

LEMMA Patched ==
  ASSUME NEW text \in Config, NEW port \in Ports, NEW mode \in Modes
  PROVE  /\ [text EXCEPT !.port = port] \in Config
         /\ [text EXCEPT !.mode = mode] \in Config
         /\ text.port \in Ports
BY Zenon DEF Config

LEMMA NoWritesTyped == NoWrites \in Texts /\ NoWrites.state = <<>>
BY DEF NoWrites, Texts

(* What is known before every step.                                         *)
LEMMA Given ==
  ASSUME IInv
  PROVE  /\ writes \in Texts /\ writes.state \in Seq(Versions)
         /\ writes.config \in Seq(Config)
         /\ config \in Config /\ configFile \in Config /\ authored \in Ports
         /\ state \in Versions /\ stateFile \in Versions /\ stateFile <= state
         /\ timer \in {"unset", "set", "cleared"} /\ mutating \in BOOLEAN
         /\ excused \in BOOLEAN /\ proc \in {"down", "up", "stopping", "leaving"}
         /\ Ascending(writes.state, stateFile, state)
BY DEF IInv, TypeOK, Ascends, Texts

-----------------------------------------------------------------------------
(* The invariant holds at the beginning.                                    *)
THEOREM InvInit == Init => IInv
<1> SUFFICES ASSUME Init PROVE IInv
  OBVIOUS
<1>1. config.port \in Ports
  BY DEF Init, Config
<1>2. TypeOK
  <2>1. writes \in [config : Seq(Config), state : Seq(Versions)]
    BY NoWritesTyped DEF Init, Texts
  <2>2. state \in Versions /\ stateFile \in Versions
    BY PersistenceAssumption DEF Init, Versions
  <2> QED
    BY <1>1, <2>1, <2>2 DEF Init, TypeOK
<1>3. Ascends
  BY NoWritesTyped, NothingPending DEF Init, Ascends
<1> QED
  BY <1>2, <1>3 DEF Init, IInv, OnItsWay, DownIsQuiet

(* A step that writes what the memory then holds; it may be a change.       *)
LEMMA WriteKeeps ==
  ASSUME IInv, proc # "down", proc' \in {proc, "leaving"},
         state' \in {state, state + 1}, state' \in Versions, WriteState(state'),
         timer' \in {timer, "unset"},
         UNCHANGED <<config, mutating, configFile, stateFile, excused, authored>>
  PROVE  IInv'
<1> DEFINE q == Append(writes.state, state')
<1>1. stateFile <= state' /\ Ascending(writes.state, stateFile, state')
  <2>1. CASE state' = state
    BY <2>1, Given
  <2>2. CASE state' = state + 1
    <3>1. state < MaxChanges /\ stateFile <= state + 1
      BY <2>2, Given, PersistenceAssumption DEF Versions
    <3> QED
      BY <2>2, <3>1, Given, AscendsHigher
  <2> QED
    BY <2>1, <2>2
<1>2. /\ q \in Seq(Versions) /\ q # <<>> /\ Last(q) = state'
      /\ Ascending(q, stateFile, state')
  BY <1>1, Given, AppendAscends
<1>3. writes' = [writes EXCEPT !.state = q]
  BY DEF WriteState
<1> HIDE DEF q
<1>4. writes' \in Texts /\ writes'.state = q
  BY <1>2, <1>3, Given, StateWrites
<1>5. TypeOK'
  BY <1>4, Given DEF TypeOK, Texts
<1>6. Ascends'
  BY <1>1, <1>2, <1>4 DEF Ascends
<1>7. OnItsWay'
  BY <1>2, <1>4 DEF IInv, OnItsWay
<1>8. DownIsQuiet'
  BY DEF DownIsQuiet
<1> QED
  BY <1>5, <1>6, <1>7, <1>8 DEF IInv

LEMMA ChangeKeeps ==
  ASSUME IInv, Change
  PROVE  IInv'
<1>1. /\ proc # "down" /\ state < MaxChanges /\ state' = state + 1
      /\ timer' = IF timer = "unset" THEN "set" ELSE timer
      /\ UNCHANGED <<proc, config, mutating, configFile, stateFile, writes, excused, authored>>
  BY DEF Change, Running
<1>2. state' \in Versions /\ stateFile <= state'
      /\ Ascending(writes.state, stateFile, state')
  <2>1. stateFile <= state + 1
    BY Given, PersistenceAssumption DEF Versions
  <2> QED
    BY <1>1, <2>1, Given, AscendsHigher
<1>3. TypeOK' /\ Ascends'
  BY <1>1, <1>2, Given DEF TypeOK, Texts, Ascends
<1>4. OnItsWay' /\ DownIsQuiet'
  BY <1>1, Given DEF IInv, OnItsWay, DownIsQuiet
<1> QED
  BY <1>3, <1>4 DEF IInv

(* A write of state.json ends, well or not.                                 *)
LEMMA StateWriteEndsKeeps ==
  ASSUME IInv, StateWriteEnds
  PROVE  IInv' /\ stateFile' >= stateFile
<1> DEFINE w == writes.state
<1>1. w # <<>> /\ writes' = [writes EXCEPT !.state = Tail(w)]
      /\ UNCHANGED <<proc, config, state, timer, mutating, configFile, authored>>
  BY DEF StateWriteEnds, StateWritten, StateWriteFails
<1>2. \/ stateFile' = Head(w) /\ excused' = FALSE
      \/ stateFile' = stateFile /\ excused' = TRUE
  BY DEF StateWriteEnds, StateWritten, StateWriteFails
<1>3. /\ Head(w) \in Versions /\ stateFile <= Head(w) /\ Head(w) <= state
      /\ Tail(w) \in Seq(Versions)
      /\ Ascending(Tail(w), Head(w), state) /\ Ascending(Tail(w), stateFile, state)
      /\ Tail(w) = <<>> => Head(w) = Last(w)
      /\ Tail(w) # <<>> => Last(Tail(w)) = Last(w)
  BY <1>1, Given, TailAscends
<1>4. writes' \in Texts /\ writes'.state = Tail(w)
  BY <1>1, <1>3, Given, StateWrites
<1>5. TypeOK'
  BY <1>1, <1>2, <1>3, <1>4, Given DEF TypeOK, Texts
<1>6. Ascends' /\ stateFile' >= stateFile
  BY <1>1, <1>2, <1>3, <1>4, Given, PersistenceAssumption DEF Ascends, Versions
<1>7. OnItsWay'
  BY <1>1, <1>2, <1>3, <1>4, Given DEF IInv, OnItsWay
<1>8. DownIsQuiet'
  BY <1>1, NoWritesTyped DEF IInv, DownIsQuiet
<1> QED
  BY <1>5, <1>6, <1>7, <1>8 DEF IInv

LEMMA ConfigKeeps ==
  ASSUME IInv, (\E mode \in Modes : PostConfig(mode)) \/ ConfigWriteEnds
  PROVE  IInv'
<1>1. /\ UNCHANGED <<proc, state, timer, stateFile, excused, authored>>
      /\ config' \in Config /\ configFile' \in Config /\ mutating' \in BOOLEAN
      /\ \E q \in Seq(Config) : writes' = [writes EXCEPT !.config = q]
  <2>1. CASE \E mode \in Modes : PostConfig(mode)
    <3>1. PICK mode \in Modes : PostConfig(mode)
      BY <2>1
    <3>2. config.port \in Ports /\ config' \in Config
      BY <3>1, Given, Patched DEF PostConfig, Config
    <3>3. writes' = [writes EXCEPT !.config = Append(writes.config, config')]
      BY <3>1 DEF PostConfig, WriteConfig
    <3>4. Append(writes.config, config') \in Seq(Config)
      BY <3>2, Given
    <3> QED
      BY <3>1, <3>2, <3>3, <3>4, Given DEF PostConfig
  <2>2. CASE ConfigWriteEnds
    <3>1. Tail(writes.config) \in Seq(Config) /\ Head(writes.config) \in Config
      BY <2>2, Given DEF ConfigWriteEnds
    <3>2. writes' = [writes EXCEPT !.config = Tail(writes.config)]
      BY <2>2 DEF ConfigWriteEnds
    <3> QED
      BY <2>2, <3>1, <3>2, Given DEF ConfigWriteEnds
  <2> QED
    BY <2>1, <2>2
<1>2. writes' \in Texts /\ writes'.state = writes.state
  BY <1>1, Given, ConfigWrites
<1>3. TypeOK' /\ Ascends'
  BY <1>1, <1>2, Given DEF TypeOK, Texts, Ascends
<1>4. OnItsWay'
  BY <1>1, <1>2 DEF IInv, OnItsWay
<1>5. proc # "down"
  BY NoWritesTyped DEF IInv, DownIsQuiet, PostConfig, ConfigWriteEnds, NoWrites
<1> QED
  BY <1>1, <1>3, <1>4, <1>5 DEF IInv, DownIsQuiet

-----------------------------------------------------------------------------
(* Start, shutdown and the end.                                             *)

LEMMA StartKeeps ==
  ASSUME IInv, NEW override \in Ports \cup {NoOverride}, Start(override)
  PROVE  IInv'
<1>1. /\ proc = "down" /\ proc' = "up" /\ state' = stateFile /\ timer' = "unset"
      /\ mutating' = FALSE /\ excused' = FALSE
      /\ UNCHANGED <<configFile, stateFile, writes, authored>>
  BY DEF Start
<1>2. writes.state = <<>>
  BY <1>1, NoWritesTyped DEF IInv, DownIsQuiet
<1>3. config' \in Config
  <2> DEFINE port == IF override = NoOverride THEN configFile.port ELSE override
  <2>1. config' = [configFile EXCEPT !.port = port]
    BY DEF Start
  <2>2. configFile.port \in Ports /\ configFile.mode \in Modes
    BY Given DEF Config
  <2>3. port \in Ports
    BY <2>2
  <2> HIDE DEF port
  <2> QED
    BY <2>1, <2>2, <2>3, Given, Patched
<1>4. TypeOK'
  BY <1>1, <1>3, Given DEF TypeOK, Texts
<1>5. Ascends'
  BY <1>1, <1>2, Given, NothingPending DEF Ascends, Versions
<1> QED
  BY <1>1, <1>2, <1>4, <1>5 DEF IInv, OnItsWay, DownIsQuiet

LEMMA LeaveKeeps ==
  ASSUME IInv, NEW excuse \in BOOLEAN, Leave(excuse)
  PROVE  IInv'
<1>1. TypeOK' /\ Ascends'
  BY Given, NoWritesTyped, NothingPending DEF Leave, TypeOK, Texts, Ascends
<1> QED
  BY <1>1 DEF Leave, IInv, OnItsWay, DownIsQuiet

LEMMA ShutdownKeeps ==
  ASSUME IInv, Shutdown
  PROVE  IInv'
BY Given DEF Shutdown, IInv, TypeOK, Texts, Ascends, OnItsWay, DownIsQuiet

LEMMA EditKeeps ==
  ASSUME IInv, NEW text \in Config, EditConfig(text)
  PROVE  IInv'
<1>1. text.port \in Ports
  BY DEF Config
<1> QED
  BY <1>1, Given DEF EditConfig, IInv, TypeOK, Texts, Ascends, OnItsWay, DownIsQuiet

-----------------------------------------------------------------------------
(* Every step keeps the invariant, and none takes state.json back.          *)
THEOREM InvNext == IInv /\ [Next]_vars => IInv' /\ stateFile' >= stateFile
<1> SUFFICES ASSUME IInv, [Next]_vars PROVE IInv' /\ stateFile' >= stateFile
  OBVIOUS
<1> stateFile \in Int
  BY Given, PersistenceAssumption DEF Versions
<1>1. ASSUME NEW override \in Ports \cup {NoOverride}, Start(override)
      PROVE  IInv' /\ stateFile' >= stateFile
  <2>1. stateFile' = stateFile
    BY <1>1 DEF Start
  <2> QED
    BY <1>1, <2>1, StartKeeps
<1>2. CASE Change
  BY <1>2, ChangeKeeps DEF Change
<1>3. CASE ChangeNow
  <2>1. state' \in Versions
    BY <1>3, Given, PersistenceAssumption DEF ChangeNow, Versions
  <2> QED
    BY <1>3, <2>1, WriteKeeps DEF ChangeNow, Running
<1>4. CASE TimerFires
  BY <1>4, Given, WriteKeeps DEF TimerFires, Running
<1>5. CASE \E mode \in Modes : PostConfig(mode)
  BY <1>5, ConfigKeeps DEF PostConfig
<1>6. CASE StateWriteEnds
  BY <1>6, StateWriteEndsKeeps
<1>7. CASE ConfigWriteEnds
  <2>1. stateFile' = stateFile
    BY <1>7 DEF ConfigWriteEnds
  <2> QED
    BY <1>7, <2>1, ConfigKeeps
<1>8. CASE Shutdown
  BY <1>8, ShutdownKeeps DEF Shutdown
<1>9. CASE LastWrite
  BY <1>9, Given, WriteKeeps DEF LastWrite
<1>10. CASE Exit \/ Crash
  <2>1. PICK excuse \in BOOLEAN : Leave(excuse)
    <3>1. excused \in BOOLEAN
      BY Given
    <3> QED
      BY <1>10, <3>1, Zenon DEF Exit, Crash
  <2>2. stateFile' = stateFile
    BY <2>1 DEF Leave
  <2> QED
    BY <2>1, <2>2, LeaveKeeps
<1>11. ASSUME NEW text \in Config, EditConfig(text)
       PROVE  IInv' /\ stateFile' >= stateFile
  BY <1>11, EditKeeps DEF EditConfig
<1>12. CASE UNCHANGED vars
  BY <1>12 DEF vars, IInv, TypeOK, Ascends, OnItsWay, DownIsQuiet
<1> QED
  BY <1>1, <1>2, <1>3, <1>4, <1>5, <1>6, <1>7, <1>8, <1>9, <1>10, <1>11, <1>12 DEF Next

(* In every reachable state the pending texts ascend to the memory.         *)
THEOREM Invariant == Spec => []IInv
BY InvInit, InvNext, PTL DEF Spec

(* The variables of main.ts and FileStore keep their types.                 *)
THEOREM TypesHold == Spec => []TypeOK
<1>1. IInv => TypeOK
  BY DEF IInv
<1> QED
  BY <1>1, Invariant, PTL

(* persistStateSoon loses no change: what state.json lacks is on its way.   *)
THEOREM NoneForgotten == Spec => []NothingForgotten
<1>1. IInv => NothingForgotten
  BY Given, PersistenceAssumption DEF IInv, OnItsWay, NothingForgotten, Versions
<1> QED
  BY <1>1, Invariant, PTL

(* The queue of FileStore.write never renames an older text over a newer.   *)
THEOREM FileNeverBack == Spec => NeverBackwards
<1>1. IInv /\ [Next]_vars => [stateFile' >= stateFile]_vars
  BY InvNext
<1> QED
  BY <1>1, Invariant, PTL DEF Spec, NeverBackwards
=============================================================================
