----------------------------- MODULE Persistence -----------------------------
(***************************************************************************)
(* What of the router survives a restart: class FileStore of               *)
(* apps/router/src/config.ts with its two main users, the configuration    *)
(* (loaded with overrides at startup, rewritten by POST /ctl/config) and   *)
(* the runtime state (written at once or by a debounced timer, main.ts).   *)
(*                                                                         *)
(* A write hands over the text of the moment; the texts of one file are    *)
(* written one after the other, each to a temporary file that is renamed   *)
(* over the target, so a reader sees a whole old text or a whole new one.  *)
(* The runtime state is its version: how many changes it contains.         *)
(***************************************************************************)
EXTENDS Integers, SequencesExt

CONSTANTS
  Ports,       \* values of a setting that the command line, the environment
               \* or the desktop shell overrides at startup (listen.port, ...)
  NoOverride,
  Modes,       \* values of a setting that POST /ctl/config changes
  MaxChanges,  \* bound: changes of the runtime state
  MaxPending   \* bound: writes of one file under way

ASSUME PersistenceAssumption ==
  /\ Ports # {} /\ Modes # {} /\ NoOverride \notin Ports
  /\ MaxChanges \in Nat /\ MaxPending \in Nat

VARIABLES
  proc,       \* "down", "up", "stopping" (shutdown, before its last write),
              \* "leaving" (that write is under way)
  config,     \* the configuration in memory
  state,      \* the version of the runtime state in memory
  timer,      \* persistTimer: unset, set, or cleared but never unset
  mutating,   \* a POST /ctl/config waits for persistConfig
  configFile, \* config.json
  stateFile,  \* the version in state.json
  writes,     \* the pending texts of either file, the one being written first
  excused,    \* history: since the last finished write of state.json one has
              \* failed, or the process has died
  authored    \* history: the overridable setting as the user put it in the file

vars == <<proc, config, state, timer, mutating, configFile, stateFile, writes,
          excused, authored>>

Config == [port : Ports, mode : Modes]
Versions == 0 .. MaxChanges

TypeOK ==
  /\ proc \in {"down", "up", "stopping", "leaving"}
  /\ config \in Config /\ configFile \in Config
  /\ state \in Versions /\ stateFile \in Versions
  /\ timer \in {"unset", "set", "cleared"}
  /\ mutating \in BOOLEAN /\ excused \in BOOLEAN
  /\ writes \in [config : Seq(Config), state : Seq(Versions)]
  /\ authored \in Ports

NoWrites == [config |-> <<>>, state |-> <<>>]

Init ==
  /\ proc = "down"
  /\ config \in Config /\ configFile = config /\ authored = config.port
  /\ state = 0 /\ stateFile = 0
  /\ timer = "unset" /\ mutating = FALSE /\ excused = FALSE
  /\ writes = NoWrites

Running == proc # "down"

-----------------------------------------------------------------------------
(* FileStore.write: behind the pending writes of the same file.             *)
WriteState(version) ==
  /\ Len(writes.state) < MaxPending
  /\ writes' = [writes EXCEPT !.state = Append(@, version)]

WriteConfig(text) == writes' = [writes EXCEPT !.config = Append(@, text)]

(* loadConfig with the overrides of this start; loadState.                  *)
(* Slip: an override that is not given is taken over as well.               *)
StartUnchecked(override) ==
  /\ proc = "down"
  /\ proc' = "up"
  /\ config' = [configFile EXCEPT !.port = override]
  /\ state' = stateFile
  /\ timer' = "unset" /\ mutating' = FALSE /\ excused' = FALSE
  /\ UNCHANGED <<configFile, stateFile, writes, authored>>

Start(override) ==
  /\ proc = "down"
  /\ proc' = "up"
  /\ config' = [configFile EXCEPT !.port = IF override = NoOverride THEN @ ELSE override]
  /\ state' = stateFile
  /\ timer' = "unset" /\ mutating' = FALSE /\ excused' = FALSE
  /\ UNCHANGED <<configFile, stateFile, writes, authored>>

(* A change saved soon: persistStateSoon leaves a timer that is there.      *)
(* Slip: it also relies on a write under way to include the change.         *)
ChangeTrustsWrite ==
  /\ Running /\ state < MaxChanges
  /\ state' = state + 1
  /\ timer' = IF timer = "unset" /\ writes.state = <<>> THEN "set" ELSE timer
  /\ UNCHANGED <<proc, config, mutating, configFile, stateFile, writes, excused, authored>>

Change ==
  /\ Running /\ state < MaxChanges
  /\ state' = state + 1
  /\ timer' = IF timer = "unset" THEN "set" ELSE timer
  /\ UNCHANGED <<proc, config, mutating, configFile, stateFile, writes, excused, authored>>

(* A change saved at once (persistState): a switch, a pool operation.       *)
ChangeNow ==
  /\ Running /\ state < MaxChanges
  /\ state' = state + 1
  /\ WriteState(state')
  /\ UNCHANGED <<proc, config, timer, mutating, configFile, stateFile, excused, authored>>

(* The timer is unset before the write starts, so that a change during the  *)
(* write sets it again.                                                     *)
TimerFires ==
  /\ Running /\ timer = "set"
  /\ timer' = "unset"
  /\ WriteState(state)
  /\ UNCHANGED <<proc, config, state, mutating, configFile, stateFile, excused, authored>>

(* POST /ctl/config, one at a time among the control mutations: the patch   *)
(* is applied to the configuration in memory, which is then written.        *)
PostConfig(mode) ==
  /\ proc = "up" /\ ~mutating
  /\ config' = [config EXCEPT !.mode = mode]
  /\ WriteConfig(config')
  /\ mutating' = TRUE
  /\ UNCHANGED <<proc, state, timer, configFile, stateFile, excused, authored>>

-----------------------------------------------------------------------------
(* How a pending write ends.  A failed one leaves the target as it was.     *)
(* Slip: writes of one file run side by side and finish in any order.       *)
StateWrittenAnyTime ==
  \E i \in DOMAIN writes.state :
    /\ stateFile' = writes.state[i]
    /\ writes' = [writes EXCEPT !.state = RemoveAt(@, i)]
    /\ excused' = FALSE
    /\ UNCHANGED <<proc, config, state, timer, mutating, configFile, authored>>

StateWritten ==
  /\ writes.state # <<>>
  /\ stateFile' = Head(writes.state)
  /\ writes' = [writes EXCEPT !.state = Tail(@)]
  /\ excused' = FALSE
  /\ UNCHANGED <<proc, config, state, timer, mutating, configFile, authored>>

StateWriteFails ==
  /\ writes.state # <<>>
  /\ writes' = [writes EXCEPT !.state = Tail(@)]
  /\ excused' = TRUE
  /\ UNCHANGED <<proc, config, state, timer, mutating, configFile, stateFile, authored>>

(* The waiting POST /ctl/config is answered, or fails; the configuration in *)
(* memory keeps the patch either way.                                       *)
ConfigWriteEnds ==
  /\ writes.config # <<>>
  /\ configFile' \in {Head(writes.config), configFile}
  /\ writes' = [writes EXCEPT !.config = Tail(@)]
  /\ mutating' = FALSE
  /\ UNCHANGED <<proc, config, state, timer, stateFile, excused, authored>>

-----------------------------------------------------------------------------
(* shutdown: the timer is cleared (persistTimer itself stays as it is),     *)
(* then, after the optional cleanup of the pool, the state is written for   *)
(* the last time, and the process exits when that write has ended.          *)
Shutdown ==
  /\ proc = "up"
  /\ proc' = "stopping"
  /\ timer' = IF timer = "set" THEN "cleared" ELSE timer
  /\ UNCHANGED <<config, state, mutating, configFile, stateFile, writes, excused, authored>>

(* Slip: there is nothing to write unless the timer was running.            *)
LastWriteIfTimed ==
  /\ proc = "stopping"
  /\ proc' = "leaving"
  /\ IF timer = "set" THEN WriteState(state) ELSE UNCHANGED writes
  /\ UNCHANGED <<config, state, timer, mutating, configFile, stateFile, excused, authored>>

LastWrite ==
  /\ proc = "stopping"
  /\ proc' = "leaving"
  /\ WriteState(state)
  /\ UNCHANGED <<config, state, timer, mutating, configFile, stateFile, excused, authored>>

Leave(excuse) ==
  /\ proc' = "down"
  /\ writes' = NoWrites
  /\ excused' = excuse
  /\ UNCHANGED <<config, state, timer, mutating, configFile, stateFile, authored>>

Exit == proc = "leaving" /\ writes.state = <<>> /\ Leave(excused)

Crash == Running /\ Leave(TRUE)

(* The user edits config.json while the router is not running.              *)
EditConfig(text) ==
  /\ proc = "down"
  /\ configFile' = text /\ authored' = text.port
  /\ UNCHANGED <<proc, config, state, timer, mutating, stateFile, writes, excused>>

StateWriteEnds == StateWritten \/ StateWriteFails

Next ==
  \/ \E override \in Ports \cup {NoOverride} : Start(override)
  \/ Change \/ ChangeNow \/ TimerFires
  \/ \E mode \in Modes : PostConfig(mode)
  \/ StateWriteEnds \/ ConfigWriteEnds
  \/ Shutdown \/ LastWrite \/ Exit \/ Crash
  \/ \E text \in Config : EditConfig(text)

Spec == Init /\ [][Next]_vars

(* Timers fire, file operations end, and a shutdown gets on: its cleanup    *)
(* only waits for calls that time out.                                      *)
FairSpec ==
  Spec /\ WF_vars(TimerFires) /\ WF_vars(StateWriteEnds) /\ WF_vars(LastWrite)
       /\ WF_vars(Exit)

-----------------------------------------------------------------------------
(* Properties.                                                              *)

(* config.ts:360: writes of one file are serialised so that no rename       *)
(* overwrites a newer text with an older one: state.json never goes back    *)
(* behind a version that it has held.                                       *)
NeverBackwards == [][stateFile' >= stateFile]_vars

(* As long as the router runs, a change that state.json lacks is on its     *)
(* way: a timer is set or the newest pending text contains it.  Otherwise   *)
(* the debounce has swallowed it, and an idle router would never save it.   *)
NothingForgotten ==
  proc = "up" /\ stateFile < state =>
    \/ timer = "set"
    \/ writes.state # <<>> /\ Last(writes.state) = state
    \/ excused

(* Every change made while the router is up reaches state.json, also when   *)
(* a shutdown clears the timer that was to save it, unless a write fails or *)
(* the process dies.                                                        *)
EverSaved ==
  \A v \in Versions : (proc = "up" /\ state >= v) ~> (stateFile >= v \/ excused)

(* README.md:132, startup.ts:18: the command line and the environment       *)
(* override settings for one start and are not written back to config.json. *)
OverridesNotPersisted == configFile.port = authored
=============================================================================
