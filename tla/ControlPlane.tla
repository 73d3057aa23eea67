---------------------------- MODULE ControlPlane ----------------------------
(***************************************************************************)
(* The control plane of apps/router/src/daemon.ts in pool mode: rounds,    *)
(* the manual lock and configuration updates, called by the daemon's own   *)
(* loop and by console pages (server.ts), serialised by one promise chain. *)
(*                                                                         *)
(* The code between two awaits is one action.  What a fetch or the local   *)
(* records show at an await's end is any of Situations.  Keys are made and *)
(* reclaimed by KeyPool; here making one works or throws.                  *)
(***************************************************************************)
EXTENDS Decision, SequencesExt

CONSTANTS
  Situations,  \* what an evaluation may see
  Imagined,    \* more situations, in which the properties try evaluations
  Configs,     \* configurations: [mode, blacklist]
  MaxNow, MaxRevision,
  MaxCalls     \* calls in the chain at once

ASSUME ControlAssumption ==
  /\ \A s \in Situations \cup Imagined : IsSituation(s)
  /\ Configs \subseteq [mode : Modes, blacklist : SUBSET Groups]
  /\ Configs # {} /\ Situations # {}
  /\ MaxNow \in Nat /\ MaxRevision \in Nat \ {0} /\ MaxCalls \in Nat \ {0}

Times == 0 .. MaxNow
Revisions == 0 .. MaxRevision
Lock == [group : Groups \cup {NoGroup}, revision : Revisions]

VARIABLES
  now,
  config,   \* the configuration in memory
  state,    \* current, lastSwitch and lock of the state in memory
  disk,     \* the same in the state file
  chain,    \* controlMutation: the calls in it, of which the first one runs
  moved     \* history: when the current group last changed, by the time of the
            \* round; Never after a crash or a failed write in the middle of it

vars == <<now, config, state, disk, chain, moved>>

State == [current : Groups \cup {NoGroup}, lastSwitch : Times \cup {Never},
          lock : Lock]

(* queued: not yet started;  fetching: statistics and account data awaited; *)
(* keying: the key of the new current group awaited;  adopting: the state   *)
(* with the new current group being written;  saving: the state or the      *)
(* configuration being so.                                                  *)
(* seen is the revision the page showed when it asked for the lock; told    *)
(* that of the lock it is answered with after its round; at the time a      *)
(* round takes for its own; plan its decision and, for the properties, the  *)
(* other groups that it saw unusable.                                       *)
Stages == {"queued", "fetching", "keying", "adopting", "saving"}
Kinds == {"round", "dryrun", "lock", "config"}
NoPlan == [target |-> NoGroup, weighed |-> FALSE, unusable |-> {}]
NewCall(kind) ==
  [stage |-> "queued", kind |-> kind, group |-> NoGroup, seen |-> 0, told |-> 0,
   at |-> 0, plan |-> NoPlan]

Call == [stage : Stages, kind : Kinds, group : Groups \cup {NoGroup},
         seen : Revisions, told : Revisions, at : Times,
         plan : [target : Groups \cup {NoGroup}, weighed : BOOLEAN,
                 unusable : SUBSET Groups]]

TypeOK ==
  /\ now \in Times /\ config \in Configs
  /\ state \in State /\ disk \in State
  /\ chain \in Seq(Call) /\ Len(chain) <= MaxCalls
  /\ \A i \in DOMAIN chain : i > 1 => chain[i].stage = "queued"
  /\ moved \in Times \cup {Never}

Init ==
  /\ now = 0
  /\ config \in Configs
  /\ state = [current |-> NoGroup, lastSwitch |-> Never,
              lock |-> [group |-> NoGroup, revision |-> 0]]
  /\ disk = state
  /\ chain = <<>>
  /\ moved = Never

-----------------------------------------------------------------------------
(* Evaluations.                                                             *)

CircuitIn(s, kinds) == {g \in Groups : s.circuit[g] \in kinds}

(* A round: half-open groups are excluded like open ones.                   *)
RoundEvaluation(s, cfg) ==
  Evaluate(s, cfg.mode, cfg.blacklist, CircuitIn(s, {"open", "half-open"}))

(* A single group judged for the manual lock: balanced whatever the mode,   *)
(* half-open allowed.  Alone, it always scores finitely.                    *)
(* Slip: judged in the configured mode.                                     *)
LockableInMode(s, cfg, g) ==
  g \in Evaluate([s EXCEPT !.items = [h \in {g} |-> s.items[h]]], cfg.mode,
                 cfg.blacklist, CircuitIn(s, {"open"})).worthy

Lockable(s, cfg, g) ==
  g \in Evaluate([s EXCEPT !.items = [h \in {g} |-> s.items[h]]], "balanced",
                 cfg.blacklist, CircuitIn(s, {"open"})).worthy

(* The groups the console offers for locking: every candidate of the last   *)
(* round but those with a hard reason or a tripped circuit.                 *)
Forceable(e) == e.eligible \cup e.standby \cup e.weak

(* Both for all that may be met, tabulated because they depend on nothing   *)
(* else.                                                                    *)
Evaluations == [s \in Situations |-> [cfg \in Configs |-> RoundEvaluation(s, cfg)]]
LockableGroups ==
  [s \in Situations |-> [cfg \in Configs |-> {g \in DOMAIN s.items : Lockable(s, cfg, g)}]]

(* The decision of a round: the manual lock goes before everything else.    *)
RoundDecision(s, traffic, at) ==
  LET rs == [current |-> state.current, lastSwitch |-> state.lastSwitch]
      locked == state.lock.group
  IN  IF locked \in LockableGroups[s][config]
        THEN IF rs.current = locked THEN Stay(rs, "manual_lock")
                                    ELSE Move(locked, "manual_lock", FALSE)
        ELSE Decide(s, Evaluations[s][config], rs, traffic, at)

-----------------------------------------------------------------------------
(* The chain.                                                               *)

(* Slip: the chain is not waited for.                                       *)
RunsAtOnce(i) == i \in DOMAIN chain

Runs(i) == i = 1 /\ chain # <<>>

Queued(i, kinds) == Runs(i) /\ chain[i].stage = "queued" /\ chain[i].kind \in kinds

At(i, stage, kinds) ==
  i \in DOMAIN chain /\ chain[i].stage = stage /\ chain[i].kind \in kinds

(* The call goes on at stage.                                               *)
Goes(i, stage) == chain' = [chain EXCEPT ![i] = [@ EXCEPT !.stage = stage]]

(* The call is over; the next one runs whatever its outcome was.            *)
Ends(i) == chain' = RemoveAt(chain, i)

(* Slip: then(fn) without a handler for rejections: behind a failure        *)
(* nothing runs any more (the call stays, with nothing left to do).         *)
RejectsForEver(i) == chain' = [chain EXCEPT ![i] = [@ EXCEPT !.kind = "dryrun"]]

Rejects(i) == Ends(i)

(* The handler of an accepted lock or configuration runs a round, behind    *)
(* whatever has queued up meanwhile, and answers when that is done.         *)
FollowedByRound(i, revision) ==
  chain' = Append(RemoveAt(chain, i), [NewCall("round") EXCEPT !.told = revision])

-----------------------------------------------------------------------------
(* The callers: the loop's timer or a page asks for a round, a page for a   *)
(* dry run, PUT /ctl/route-lock or POST /ctl/config.  The revision that     *)
(* the page of a lock shows may be of any age.                              *)

Asks(kind, group, seen) ==
  /\ Len(chain) < MaxCalls
  /\ chain' = Append(chain, [NewCall(kind) EXCEPT !.group = group, !.seen = seen])
  /\ UNCHANGED <<now, config, state, disk, moved>>

AskRound == \E kind \in {"round", "dryrun"} : Asks(kind, NoGroup, 0)

PutLock(g, seen) == Asks("lock", g, seen)

PostConfig == Asks("config", NoGroup, 0)

-----------------------------------------------------------------------------
(* Rounds (runOnceLocked).                                                  *)

StartRound(i) ==
  /\ Queued(i, {"round", "dryrun"})
  /\ chain' = [chain EXCEPT ![i] = [@ EXCEPT !.stage = "fetching", !.at = now]]
  /\ UNCHANGED <<now, config, state, disk, moved>>

(* The data is there (a failed fetch falls back on the last one): evaluate, *)
(* decide, and switch or not.  A dry run stops here.                        *)
DecideRound(i, s, traffic) ==
  LET at == chain[i].at
      d == RoundDecision(s, traffic, at)
  IN
  /\ At(i, "fetching", {"round", "dryrun"})
  /\ IF chain[i].kind = "dryrun" THEN Ends(i)
     ELSE IF d.switch
       THEN chain' = [chain EXCEPT ![i] =
              [@ EXCEPT !.stage = "keying",
                        !.plan = [target |-> d.target, weighed |-> d.weighed,
                                  unusable |-> Groups \ (LockableGroups[s][config]
                                                            \cup {d.target})]]]
     ELSE Goes(i, "saving")
  /\ UNCHANGED <<now, config, state, disk, moved>>

(* executor.switchTo: the key is there, the current group changes and is    *)
(* written.                                                                 *)
KeyReady(i) ==
  /\ At(i, "keying", {"round"})
  /\ state' = [state EXCEPT !.current = chain[i].plan.target]
  /\ moved' = chain[i].at
  /\ chain' = [chain EXCEPT ![i] = [@ EXCEPT !.stage = "adopting", !.plan = NoPlan]]
  /\ UNCHANGED <<now, config, disk>>

KeyFails(i) ==
  /\ At(i, "keying", {"round"})
  /\ chain' = [chain EXCEPT ![i] = [@ EXCEPT !.stage = "saving", !.plan = NoPlan]]
  /\ UNCHANGED <<now, config, state, disk, moved>>

(* switchTo returns; only now the time of the switch is remembered.         *)
(* Slip: the time of the switch is not remembered.                          *)
AdoptedUntimed(i) ==
  /\ At(i, "adopting", {"round"})
  /\ disk' = state
  /\ Goes(i, "saving")
  /\ UNCHANGED <<now, config, state, moved>>

Adopted(i) ==
  /\ At(i, "adopting", {"round"})
  /\ disk' = state
  /\ state' = [state EXCEPT !.lastSwitch = chain[i].at]
  /\ Goes(i, "saving")
  /\ UNCHANGED <<now, config, moved>>

(* The write in switchTo throws: the group stays changed, its time is lost. *)
AdoptFails(i) ==
  /\ At(i, "adopting", {"round"})
  /\ moved' = Never
  /\ Goes(i, "saving")
  /\ UNCHANGED <<now, config, state, disk>>

(* The state is written and the round is over.  A page that had set a lock  *)
(* is answered now.                                                         *)
(* Slip: a round that did not switch does not write.                        *)
RoundSavedIfSwitched(i) ==
  /\ At(i, "saving", {"round"})
  /\ disk' = IF state.lastSwitch = chain[i].at THEN state ELSE disk
  /\ Ends(i)
  /\ UNCHANGED <<now, config, state, moved>>

RoundSaved(i) ==
  /\ At(i, "saving", {"round"})
  /\ disk' = state
  /\ Ends(i)
  /\ UNCHANGED <<now, config, state, moved>>

RoundNotSaved(i) ==
  /\ At(i, "saving", {"round"})
  /\ Rejects(i)
  /\ UNCHANGED <<now, config, state, disk, moved>>

-----------------------------------------------------------------------------
(* Manual lock (updateManualLock).                                          *)

(* The new lock is set in memory and then written; its revision follows the *)
(* one that was compared before the data was fetched.                       *)
SetLock(i) ==
  /\ state' = [state EXCEPT !.lock = [group |-> chain[i].group,
                                      revision |-> chain[i].seen + 1]]
  /\ Goes(i, "saving")

(* Compare the revision; a repeated wish is granted as it is, an unlock     *)
(* needs no data.                                                           *)
(* Slip: an unlock is granted whatever the page had seen.                   *)
StartLockTrusting(i) ==
  LET mine == chain[i] IN
  /\ Queued(i, {"lock"})
  /\ IF mine.seen # state.lock.revision /\ mine.group # NoGroup
       THEN Ends(i) /\ UNCHANGED state
     ELSE IF state.lock.group = mine.group
       THEN FollowedByRound(i, state.lock.revision) /\ UNCHANGED state
     ELSE IF mine.group = NoGroup THEN SetLock(i)
     ELSE Goes(i, "fetching") /\ UNCHANGED state
  /\ UNCHANGED <<now, config, disk, moved>>

StartLock(i) ==
  LET mine == chain[i] IN
  /\ Queued(i, {"lock"})
  /\ IF mine.seen # state.lock.revision
       THEN Ends(i) /\ UNCHANGED state
     ELSE IF state.lock.group = mine.group
       THEN FollowedByRound(i, state.lock.revision) /\ UNCHANGED state
     ELSE IF mine.group = NoGroup THEN SetLock(i)
     ELSE Goes(i, "fetching") /\ UNCHANGED state
  /\ UNCHANGED <<now, config, disk, moved>>

(* The data is there: not found, not eligible, or locked.                   *)
JudgeLock(i, s) ==
  LET g == chain[i].group IN
  /\ At(i, "fetching", {"lock"})
  /\ IF g \in LockableGroups[s][config]
       THEN SetLock(i)
       ELSE Ends(i) /\ UNCHANGED state
  /\ UNCHANGED <<now, config, disk, moved>>

LockSaved(i) ==
  /\ At(i, "saving", {"lock"})
  /\ disk' = state
  /\ FollowedByRound(i, state.lock.revision)
  /\ UNCHANGED <<now, config, state, moved>>

(* persistState throws: the lock stays in memory, the page gets an error.   *)
LockNotSaved(i) ==
  /\ At(i, "saving", {"lock"})
  /\ Rejects(i)
  /\ UNCHANGED <<now, config, state, disk, moved>>

-----------------------------------------------------------------------------
(* Configuration.                                                           *)

StartConfig(i, cfg) ==
  /\ Queued(i, {"config"})
  /\ config' = cfg
  /\ Goes(i, "saving")
  /\ UNCHANGED <<now, state, disk, moved>>

InvalidConfig(i) ==
  /\ Queued(i, {"config"})
  /\ Ends(i)
  /\ UNCHANGED <<now, config, state, disk, moved>>

ConfigSaved(i) ==
  /\ At(i, "saving", {"config"})
  /\ FollowedByRound(i, 0)
  /\ UNCHANGED <<now, config, state, disk, moved>>

ConfigNotSaved(i) ==
  /\ At(i, "saving", {"config"})
  /\ Rejects(i)
  /\ UNCHANGED <<now, config, state, disk, moved>>

-----------------------------------------------------------------------------
(* The process dies and starts again from its files; that of the            *)
(* configuration may hold an older one or have been edited.                 *)
Restart ==
  /\ config' \in Configs
  /\ state' = disk
  /\ chain' = <<>>
  /\ moved' = IF disk.lastSwitch = moved THEN moved ELSE Never
  /\ UNCHANGED <<now, disk>>

(* The debounced write of the state that requests ask for (Persistence).    *)
SavedElsewhere ==
  /\ disk' = state
  /\ UNCHANGED <<now, config, state, chain, moved>>

Tick ==
  /\ now < MaxNow
  /\ now' = now + 1
  /\ UNCHANGED <<config, state, disk, chain, moved>>

(* What moves a call on: it is started, or what it awaits arrives.          *)
Step(i) ==
  \/ StartRound(i)
  \/ \E s \in Situations, traffic \in Traffic : DecideRound(i, s, traffic)
  \/ KeyReady(i) \/ KeyFails(i) \/ Adopted(i) \/ AdoptFails(i)
  \/ RoundSaved(i) \/ RoundNotSaved(i)
  \/ StartLock(i) \/ (\E s \in Situations : JudgeLock(i, s))
  \/ LockSaved(i) \/ LockNotSaved(i)
  \/ (\E cfg \in Configs : StartConfig(i, cfg)) \/ InvalidConfig(i)
  \/ ConfigSaved(i) \/ ConfigNotSaved(i)

Next ==
  \/ AskRound \/ PostConfig
  \/ \E g \in Groups \cup {NoGroup}, seen \in 0 .. MaxRevision - 1 : PutLock(g, seen)
  \/ \E i \in 1 .. MaxCalls : Step(i)
  \/ SavedElsewhere \/ Restart \/ Tick

Spec == Init /\ [][Next]_vars

(* Every fetch, key call and write of a running call returns: the client    *)
(* library times each of them out.  Nothing is assumed of pages or the loop.*)
FairSpec == Spec /\ WF_vars(\E i \in 1 .. MaxCalls : Step(i))

-----------------------------------------------------------------------------
(* Properties.                                                              *)

(* Configurations in which some situation is evaluated unsoundly, or in     *)
(* which the console offers a group for locking that cannot be locked.      *)
UnsoundIn ==
  {cfg \in Configs :
     \E s \in Imagined :
       ~SoundEvaluation(s, cfg.mode, cfg.blacklist, CircuitIn(s, {"open", "half-open"}))}
MisleadingIn ==
  {cfg \in Configs :
     \E s \in Imagined :
       \E g \in Forceable(RoundEvaluation(s, cfg)) : ~Lockable(s, cfg, g)}

(* scoring.ts: whatever groups it compares, in whatever configuration the   *)
(* router gets into, an evaluation keeps its promise.                       *)
EvaluationSound == config \notin UnsoundIn

(* server.ts:129: what the console offers for locking, economy's soft       *)
(* thresholds notwithstanding, can be locked as long as nothing changes.    *)
ConsoleOffersOnlyLockable == config \notin MisleadingIn

(* A lock a page was told is set is on disk, where no crash takes it back:  *)
(* neither after a write that failed and was tried again, nor because the   *)
(* wish was granted without a change, nor by a later write.                 *)
AnsweredLockIsSaved ==
  [][/\ disk'.lock.revision >= disk.lock.revision
     /\ \A i \in DOMAIN chain :
          RoundSaved(i) => disk'.lock.revision >= chain[i].told]_vars

(* config.ts: the revision keeps a page from overwriting a lock it has not  *)
(* seen, although the check and the write are awaits apart.                 *)
NoLostLockUpdate ==
  [][\A i \in DOMAIN chain \cap DOMAIN chain' :
       chain[i].kind = "lock" /\ chain[i].stage # "saving" /\ chain'[i].stage = "saving"
       => chain[i].seen = state.lock.revision]_vars

(* What the lock promises all pages together, whatever calls are in the     *)
(* chain: see AbstractLock.                                                 *)
Register == INSTANCE AbstractLock WITH lock <- state.lock, stored <- disk.lock

(* The manual lock implements the register: neither a page that saw another *)
(* lock nor a round that writes the state it has changed brings a revision  *)
(* back, skips one or gives it to two locks in a row.                       *)
RefinesAbstractLock == Register!Spec

(* A round has changed the current group.                                   *)
Adopting(i) ==
  /\ i \in DOMAIN chain' /\ chain[i].stage = "keying"
  /\ chain'[i].stage = "adopting"

(* ALGORITHM.md, section 7: while a lock is set, rounds move the current    *)
(* group to the locked one, or away from it only when they saw it unusable, *)
(* although locks are set while rounds are under way.                       *)
LockObeyed ==
  [][\A i \in DOMAIN chain :
       Adopting(i) => state.lock.group
                        \in {NoGroup, chain[i].plan.target} \cup chain[i].plan.unusable]_vars

(* decision.ts: a group chosen by score is kept for MinDwell, whatever came *)
(* between: dry runs, failed switches, restarts.  (Not if the write of the  *)
(* switch failed or the process died in it, see moved.)                     *)
DwellKept ==
  [][\A i \in DOMAIN chain :
       Adopting(i) /\ chain[i].plan.weighed /\ moved # Never
       => chain[i].at - moved >= MinDwell]_vars

(* Every call returns, also behind one that fails: again and again the      *)
(* chain is empty or comes to the next call, and it is served in order.     *)
OperationsReturn == []<>(chain = <<>> \/ Head(chain).stage = "queued")
=============================================================================
