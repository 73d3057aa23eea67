------------------------------- MODULE KeyPool -------------------------------
(***************************************************************************)
(* The pool of managed API keys: class RouteExecutor (pool mode) of        *)
(* apps/router/src/executor.ts, used by concurrent requests and by the     *)
(* control plane, over a remote account whose calls may fail, get lost     *)
(* after taking effect, or be undone from outside.                         *)
(*                                                                         *)
(* Operations on the pool run one after the other in a promise chain,      *)
(* modelled as a queue whose head is running.  A caller that only waits    *)
(* for the chain counts the operations queued before it.  The code between *)
(* two awaits is one action, and continuations run before the next answer  *)
(* from the network or the disk (Settled).  lastUsedAt is kept as the      *)
(* order of use (older).  Session affinity and the grace period are        *)
(* outside: which groups they protect is chosen anew whenever it is asked. *)
(***************************************************************************)
EXTENDS Integers, FiniteSets, Sequences

CONSTANTS
  Groups, NoGroup,
  Clients,      \* slots of concurrent requests
  Daemon,       \* the control plane: its rounds run one at a time
  Limit,        \* poolMaxGroups
  PageSize,     \* keys on a page of the account's listing
  MaxKeys       \* bound: keys ever created; key k is the k-th

ASSUME PoolAssumption ==
  /\ NoGroup \notin Groups /\ Daemon \notin Clients
  /\ Limit \in Nat /\ PageSize \in Nat \ {0} /\ MaxKeys \in Nat

VARIABLES
  pool,      \* [Groups -> Nat]: the key recorded for a group, 0 for none
  older,     \* <<g, h>>: of the groups of the pool, g was used before h
  remote,    \* the keys that exist on the account
  made,      \* how many keys were ever created
  creating,  \* the groups of the creating map
  queue,     \* operations of the poolMutation chain, the running one first
  job,       \* progress of the running operation
  calls,     \* [Callers -> Call]
  current,   \* state.currentGroupId
  disk,      \* the pool and current group of the last written state file
  stopping   \* shuttingDown of main.ts, with cleanupPoolOnExit

vars == <<pool, older, remote, made, creating, queue, job, calls, current, disk,
          stopping>>
poolVars == <<pool, older>>
opVars == <<creating, queue, job>>

Callers == Clients \cup {Daemon}
Keys == 1 .. MaxKeys
NoKey == 0

(* waiting: for the chain;  joining: for the key being created for group;   *)
(* holding: reserved, key in hand;  using: counted by the TrafficTracker;   *)
(* dropping: counted, its rejected key is being invalidated;                *)
(* saving, trimming: the control plane after a switch, and in trimPool.     *)
Call == [phase : {"none", "waiting", "joining", "holding", "using", "dropping",
                  "saving", "trimming"},
         group : Groups \cup {NoGroup}, key : 0 .. MaxKeys, behind : Nat]
NoCall == [phase |-> "none", group |-> NoGroup, key |-> NoKey, behind |-> 0]

Operation == [kind : {"create", "invalidate", "trim", "reconcile", "cleanup"},
              group : Groups \cup {NoGroup}, key : 0 .. MaxKeys,
              forced : SUBSET Groups, by : Callers]
Op(kind, g, k, forced, by) ==
  [kind |-> kind, group |-> g, key |-> k, forced |-> forced, by |-> by]

(* victims: still to be considered, in the order of use they were found in; *)
(* victim: whose key is being deleted;  dirty: the pool record has changed; *)
(* page: pages of a listing that have come;  listed: the keys on them;      *)
(* torn: since then one of those pages lost a key (history, never read).    *)
Job == [stage : {"none", "creating", "listing", "evicting", "deleting", "cleaning",
                 "writing"},
        victims : SUBSET Groups, order : SUBSET (Groups \X Groups),
        victim : Groups \cup {NoGroup}, dirty : BOOLEAN,
        page : Nat, listed : SUBSET Keys, torn : BOOLEAN]
NoJob == [stage |-> "none", victims |-> {}, order |-> {}, victim |-> NoGroup,
          dirty |-> FALSE, page |-> 0, listed |-> {}, torn |-> FALSE]

(* An order of the groups that a pool record p holds.                       *)
PooledIn(p) == {g \in Groups : p[g] # NoKey}
Pooled == PooledIn(pool)

OrderOf(p, order) ==
  /\ order \subseteq PooledIn(p) \X PooledIn(p)
  /\ \A g, h \in PooledIn(p) :
       /\ <<g, h>> \in order => <<h, g>> \notin order
       /\ g # h => <<g, h>> \in order \/ <<h, g>> \in order
       /\ \A i \in PooledIn(p) :
            <<g, h>> \in order /\ <<h, i>> \in order => <<g, i>> \in order

TypeOK ==
  /\ pool \in [Groups -> 0 .. MaxKeys]
  /\ OrderOf(pool, older)
  /\ creating \subseteq Groups
  /\ remote \subseteq Keys /\ made \in 0 .. MaxKeys
  /\ queue \in Seq(Operation) /\ job \in Job
  /\ calls \in [Callers -> Call]
  /\ current \in Groups \cup {NoGroup}
  /\ disk.pool \in [Groups -> 0 .. MaxKeys] /\ OrderOf(disk.pool, disk.older)
  /\ disk.current \in Groups \cup {NoGroup}
  /\ stopping \in BOOLEAN

(* What persistState writes of all this.                                    *)
State == [pool |-> pool, older |-> older, current |-> current]

Init ==
  /\ pool = [g \in Groups |-> NoKey] /\ older = {}
  /\ remote = {} /\ made = 0
  /\ creating = {} /\ queue = <<>> /\ job = NoJob
  /\ calls = [c \in Callers |-> NoCall]
  /\ current = NoGroup
  /\ disk = State
  /\ stopping = FALSE

-----------------------------------------------------------------------------
(* Bookkeeping of the pool record.                                          *)

Among(G, order) == order \cap (G \X G)

Touch(g) == LET rest == Pooled \ {g} IN older' = Among(rest, older) \cup (rest \X {g})

Record(g, k) == pool' = [pool EXCEPT ![g] = k] /\ Touch(g)

(* Slip: the removed entries keep their place in the order of use.          *)
DropLeavesOrder(G) ==
  /\ pool' = [g \in Groups |-> IF g \in G THEN NoKey ELSE pool[g]]
  /\ UNCHANGED older

Drop(G) ==
  /\ pool' = [g \in Groups |-> IF g \in G THEN NoKey ELSE pool[g]]
  /\ older' = Among(Pooled \ G, older)

(* The reservations of requests, and the groups traffic is active on.       *)
Reserved == {calls[c].group : c \in {d \in Clients :
                calls[d].phase \in {"waiting", "joining", "holding"}}}
Active == {calls[c].group : c \in {d \in Clients : calls[d].phase \in {"using", "dropping"}}}

(* Slip: the groups traffic is active on are not asked for.                 *)
HardProtectedIdle(g) == g = current \/ g \in creating \/ g \in Reserved

(* isHardProtected.  While an operation creates the key of a group, that    *)
(* group (protectGroupId) is in `creating' as well.                         *)
HardProtected(g) ==
  g = current \/ g \in creating \/ g \in Reserved \/ g \in Active

-----------------------------------------------------------------------------
(* The chain.                                                               *)

Ready(c) == calls[c].phase = "waiting" /\ calls[c].behind = 0

(* No continuation is pending: the next event comes from outside.           *)
Settled ==
  /\ \A c \in Callers : ~Ready(c)
  /\ queue # <<>> => job.stage \notin {"none", "evicting"}

(* Slip: a creation that fails does not wake the callers that joined it.    *)
AfterOpStrands(op, key) ==
  [c \in Callers |->
    LET call == calls[c] IN
    CASE call.phase = "waiting" -> [call EXCEPT !.behind = IF @ > 0 THEN @ - 1 ELSE 0]
      [] call.phase = "joining" /\ op.kind = "create" /\ call.group = op.group
         /\ key # NoKey ->
           IF c = Daemon THEN [call EXCEPT !.phase = "saving"]
           ELSE [call EXCEPT !.phase = "holding", !.key = key]
      [] c = op.by /\ \/ call.phase = "dropping" /\ op.kind = "invalidate"
                      \/ call.phase = "trimming" /\ op.kind = "trim" -> NoCall
      [] OTHER -> call]

(* What the callers become when the running operation ends: those behind it *)
(* move up, and those that joined a creation get its key (0 if it failed).  *)
AfterOp(op, key) ==
  [c \in Callers |->
    LET call == calls[c] IN
    CASE call.phase = "waiting" -> [call EXCEPT !.behind = IF @ > 0 THEN @ - 1 ELSE 0]
      [] call.phase = "joining" /\ op.kind = "create" /\ call.group = op.group ->
           IF key = NoKey THEN NoCall
           ELSE IF c = Daemon THEN [call EXCEPT !.phase = "saving"]
           ELSE [call EXCEPT !.phase = "holding", !.key = key]
      [] c = op.by /\ \/ call.phase = "dropping" /\ op.kind = "invalidate"
                      \/ call.phase = "trimming" /\ op.kind = "trim" -> NoCall
      [] OTHER -> call]

(* The control plane adopts the group as soon as its key is there.          *)
Adopt(op, key) ==
  IF /\ op.kind = "create" /\ key # NoKey
     /\ calls[Daemon].phase = "joining" /\ calls[Daemon].group = op.group
    THEN current' = op.group ELSE UNCHANGED current

(* Slip: the creating map is cleared only after a success.                  *)
EndOpKeepsFailed(key) ==
  LET op == Head(queue) IN
  /\ queue' = Tail(queue)
  /\ job' = NoJob
  /\ creating' = IF op.kind = "create" /\ key # NoKey THEN creating \ {op.group}
                                                      ELSE creating
  /\ calls' = AfterOp(op, key)
  /\ Adopt(op, key)

EndOp(key) ==
  LET op == Head(queue) IN
  /\ queue' = Tail(queue)
  /\ job' = NoJob
  /\ creating' = IF op.kind = "create" THEN creating \ {op.group} ELSE creating
  /\ calls' = AfterOp(op, key)
  /\ Adopt(op, key)

Enqueue(op) == queue' = Append(queue, op)

-----------------------------------------------------------------------------
(* ensureKey: join a creation under way, else wait for the chain.           *)
EnsureKey(c, g) ==
  /\ calls[c].phase = "none" /\ Settled
  /\ calls' = [calls EXCEPT ![c] =
       IF g \in creating THEN [NoCall EXCEPT !.phase = "joining", !.group = g]
       ELSE [NoCall EXCEPT !.phase = "waiting", !.group = g, !.behind = Len(queue)]]
  /\ UNCHANGED <<poolVars, remote, made, opVars, current, disk, stopping>>

(* acquireKey of a request, and switchTo of the control plane, which takes  *)
(* no reservation.                                                          *)
AcquireKey(c, g) == c \in Clients /\ ~stopping /\ EnsureKey(c, g)
SwitchTo(g) == EnsureKey(Daemon, g)

(* The chain is through: the recorded key, a creation under way, or a new   *)
(* creation at the end of the chain.                                        *)
Resume(c) ==
  LET g == calls[c].group IN
  /\ Ready(c)
  /\ \/ /\ pool[g] # NoKey
        /\ Touch(g)
        /\ calls' = [calls EXCEPT
             ![c] = IF c = Daemon THEN [@ EXCEPT !.phase = "saving"]
                    ELSE [@ EXCEPT !.phase = "holding", !.key = pool[g]]]
        /\ current' = IF c = Daemon THEN g ELSE current
        /\ UNCHANGED <<pool, opVars>>
     \/ /\ pool[g] = NoKey /\ g \in creating
        /\ calls' = [calls EXCEPT ![c].phase = "joining"]
        /\ UNCHANGED <<poolVars, opVars, current>>
     \/ /\ pool[g] = NoKey /\ g \notin creating
        /\ calls' = [calls EXCEPT ![c].phase = "joining"]
        /\ Enqueue(Op("create", g, NoKey, {}, c))
        /\ creating' = creating \cup {g}
        /\ UNCHANGED <<poolVars, job, current>>
  /\ UNCHANGED <<remote, made, disk, stopping>>

(* The request is counted by the TrafficTracker, then gives up its          *)
(* reservation; later it ends, or upstream refuses its key: one that is     *)
(* gone, or one that the account still has.                                 *)
Use(c) ==
  /\ c \in Clients /\ calls[c].phase = "holding"
  /\ calls' = [calls EXCEPT ![c].phase = "using"]
  /\ UNCHANGED <<poolVars, remote, made, opVars, current, disk, stopping>>

Done(c) ==
  /\ c \in Clients /\ calls[c].phase = "using" /\ Settled
  /\ calls' = [calls EXCEPT ![c] = NoCall]
  /\ UNCHANGED <<poolVars, remote, made, opVars, current, disk, stopping>>

InvalidatePoolKey(c) ==
  /\ c \in Clients /\ calls[c].phase = "using" /\ Settled
  /\ Enqueue(Op("invalidate", calls[c].group, calls[c].key, {}, c))
  /\ calls' = [calls EXCEPT ![c].phase = "dropping"]
  /\ UNCHANGED <<poolVars, remote, made, creating, job, current, disk, stopping>>

(* trimPool of a control-plane round, with the groups it may take by force. *)
TrimPool(forced) ==
  /\ calls[Daemon].phase = "none" /\ Settled
  /\ Enqueue(Op("trim", NoGroup, NoKey, forced, Daemon))
  /\ calls' = [calls EXCEPT ![Daemon].phase = "trimming"]
  /\ UNCHANGED <<poolVars, remote, made, creating, job, current, disk, stopping>>

(* switchTo persists the new current group, or fails to.                    *)
SwitchSaved ==
  /\ calls[Daemon].phase = "saving" /\ Settled
  /\ disk' \in {State, disk}
  /\ calls' = [calls EXCEPT ![Daemon] = NoCall]
  /\ UNCHANGED <<poolVars, remote, made, opVars, current, stopping>>

-----------------------------------------------------------------------------
(* Eviction.                                                                *)

(* The victims evictLru snapshots, from the pool p: those taken by force    *)
(* once they were idle for the grace period and, when the pool is over its  *)
(* limit, those without recent affinity (soft).                             *)
Victims(p, forced, idle, soft) ==
  {g \in PooledIn(p) :
     ~HardProtected(g) /\ \/ g \in forced \cap idle
                          \/ Cardinality(PooledIn(p)) > Limit /\ g \notin soft}

(* The loop stops at a victim taken for capacity once there is room again,  *)
(* and skips one that got protected since the snapshot.                     *)
Stops(g, forced) == g \notin forced /\ Cardinality(Pooled) <= Limit
(* Slip: the snapshot is trusted, nothing is checked again.                 *)
DeletableBySnapshot(g, forced, soft) == TRUE

Deletable(g, forced, soft) == ~HardProtected(g) /\ (g \in forced \/ g \notin soft)

Evicting(victims, order, dirty) ==
  [NoJob EXCEPT !.stage = "evicting", !.victims = victims,
                !.order = Among(victims, order), !.dirty = dirty]

StartEviction(p, order, forced, dirty) ==
  \E idle, soft \in SUBSET Groups :
    job' = Evicting(Victims(p, forced, idle, soft), order, dirty)

(* evictLru is through: write the state if the operation has changed it.    *)
WriteOrEnd(key, dirty) ==
  IF dirty
    THEN /\ job' = [NoJob EXCEPT !.stage = "writing"]
         /\ UNCHANGED <<creating, queue, calls, current>>
    ELSE EndOp(key)

(* The victims before the first at which the loop stops or that may be      *)
(* deleted are skipped for good.                                            *)
EvictNext ==
  LET forced == Head(queue).forced IN
  /\ job.stage = "evicting"
  /\ \E soft \in SUBSET Groups :
       LET considered == {g \in job.victims : Stops(g, forced) \/ Deletable(g, forced, soft)}
           first == {g \in considered : \A h \in considered : <<h, g>> \notin job.order}
           after(g) == {h \in job.victims : <<g, h>> \in job.order}
       IN  \/ /\ \A g \in first : Stops(g, forced)
              /\ WriteOrEnd(NoKey, job.dirty)
           \/ \E g \in first :
                /\ ~Stops(g, forced)
                /\ job' = [Evicting(after(g), job.order, job.dirty)
                             EXCEPT !.stage = "deleting", !.victim = g]
                /\ UNCHANGED <<creating, queue, calls, current>>
  /\ UNCHANGED <<poolVars, remote, made, disk, stopping>>

(* The delete succeeded, if only because the key was gone already.          *)
DeleteReturns ==
  /\ job.stage = "deleting" /\ Settled
  /\ remote' = remote \ {pool[job.victim]}
  /\ Drop({job.victim})
  /\ job' = [job EXCEPT !.stage = "evicting", !.victim = NoGroup, !.dirty = TRUE]
  /\ UNCHANGED <<made, creating, queue, calls, current, disk, stopping>>

(* The delete failed, or its answer was lost: the record stays and the loop *)
(* stops.                                                                   *)
DeleteFails ==
  /\ job.stage = "deleting" /\ Settled
  /\ remote' \in {remote, remote \ {pool[job.victim]}}
  /\ WriteOrEnd(NoKey, job.dirty)
  /\ UNCHANGED <<poolVars, made, disk, stopping>>

-----------------------------------------------------------------------------
(* The other operations of the chain.                                       *)

(* invalidatePoolKey compares the recorded key with the rejected one.       *)
(* Slip: any recorded key is taken for the rejected one.                    *)
InvalidatesAny(op) == pool[op.group] # NoKey
Invalidates(op) == pool[op.group] = op.key

(* cleanup deletes one key after the other, then writes the state.          *)
CleanOn(rest) ==
  \/ /\ rest = {}
     /\ job' = [NoJob EXCEPT !.stage = "writing"]
  \/ \E g \in rest :
       job' = [NoJob EXCEPT !.stage = "cleaning", !.victim = g, !.victims = rest \ {g}]

(* Synchronous part of the operation that gets its turn.                    *)
StartOp ==
  LET op == Head(queue) IN
  /\ queue # <<>> /\ job.stage = "none"
  /\ CASE op.kind = "create" /\ pool[op.group] # NoKey ->
            Touch(op.group) /\ EndOp(pool[op.group]) /\ UNCHANGED pool
       [] op.kind = "create" /\ pool[op.group] = NoKey ->
            /\ job' = [NoJob EXCEPT !.stage = "creating"]
            /\ UNCHANGED <<poolVars, creating, queue, calls, current>>
       [] op.kind = "invalidate" /\ Invalidates(op) ->
            /\ Drop({op.group})
            /\ job' = [NoJob EXCEPT !.stage = "writing"]
            /\ UNCHANGED <<creating, queue, calls, current>>
       [] op.kind = "invalidate" /\ ~Invalidates(op) ->
            EndOp(NoKey) /\ UNCHANGED poolVars
       [] op.kind = "trim" ->
            /\ StartEviction(pool, older, op.forced, FALSE)
            /\ UNCHANGED <<poolVars, creating, queue, calls, current>>
       [] op.kind = "reconcile" ->
            /\ job' = [NoJob EXCEPT !.stage = "listing"]
            /\ UNCHANGED <<poolVars, creating, queue, calls, current>>
       [] op.kind = "cleanup" ->
            /\ CleanOn(Pooled)
            /\ UNCHANGED <<poolVars, creating, queue, calls, current>>
  /\ UNCHANGED <<remote, made, disk, stopping>>

CreateReturns ==
  LET g == Head(queue).group IN
  /\ job.stage = "creating" /\ Settled
  /\ made < MaxKeys
  /\ made' = made + 1
  /\ remote' = remote \cup {made'}
  /\ Record(g, made')
  /\ StartEviction(pool', older', {}, TRUE)
  /\ UNCHANGED <<creating, queue, calls, current, disk, stopping>>

(* The call failed, or the key was created and its answer was lost.         *)
CreateFails ==
  /\ job.stage = "creating" /\ Settled
  /\ \/ UNCHANGED <<made, remote>>
     \/ made < MaxKeys /\ made' = made + 1 /\ remote' = remote \cup {made'}
  /\ EndOp(NoKey)
  /\ UNCHANGED <<poolVars, disk, stopping>>

(* listAllKeys asks for page after page, newest key first, each as the      *)
(* account is when it answers.  (When a page is asked for again, after a    *)
(* new login, the whole listing starts over: ListFails aside, it is as if   *)
(* the first page had taken longer.)                                        *)
Newer(k) == {j \in remote : j > k}

PageOf(n) ==
  {k \in remote : LET newer == Cardinality(Newer(k))
                  IN  n * PageSize <= newer /\ newer < (n + 1) * PageSize}

LastPage(n) == Cardinality(remote) <= (n + 1) * PageSize

ListPage ==
  /\ job.stage = "listing" /\ Settled
  /\ ~LastPage(job.page)
  /\ job' = [job EXCEPT !.page = @ + 1, !.listed = @ \cup PageOf(job.page)]
  /\ UNCHANGED <<poolVars, remote, made, creating, queue, calls, current, disk, stopping>>

(* reconcile drops the records whose keys are not listed, then evicts.      *)
Reconcile(keys) ==
  /\ Drop({g \in Pooled : pool[g] \notin keys})
  /\ StartEviction(pool', older', {}, TRUE)
  /\ UNCHANGED <<remote, made, creating, queue, calls, current, disk, stopping>>

ListReturns ==
  /\ job.stage = "listing" /\ Settled
  /\ LastPage(job.page)
  /\ Reconcile(job.listed \cup PageOf(job.page))

(* An answer without a list of items or a number of pages ends the listing. *)
ListCutShort ==
  /\ job.stage = "listing" /\ Settled
  /\ \E items \in {{}, PageOf(job.page)} : Reconcile(job.listed \cup items)

ListFails ==
  /\ job.stage = "listing" /\ Settled
  /\ EndOp(NoKey)
  /\ UNCHANGED <<poolVars, remote, made, disk, stopping>>

CleanReturns ==
  /\ job.stage = "cleaning" /\ Settled
  /\ remote' = remote \ {pool[job.victim]}
  /\ Drop({job.victim})
  /\ CleanOn(job.victims)
  /\ UNCHANGED <<made, creating, queue, calls, current, disk, stopping>>

(* As for an eviction, but cleanup goes on with the next key.               *)
CleanFails ==
  /\ job.stage = "cleaning" /\ Settled
  /\ remote' \in {remote, remote \ {pool[job.victim]}}
  /\ CleanOn(job.victims)
  /\ UNCHANGED <<poolVars, made, creating, queue, calls, current, disk, stopping>>

(* persistState at the end of an operation; when it throws, so does the     *)
(* operation, although the pool record is already changed.                  *)
Written ==
  /\ job.stage = "writing" /\ Settled
  /\ disk' = State
  /\ EndOp(IF Head(queue).kind = "create" THEN pool[Head(queue).group] ELSE NoKey)
  /\ UNCHANGED <<poolVars, remote, made, stopping>>

WriteFails ==
  /\ job.stage = "writing" /\ Settled
  /\ EndOp(NoKey)
  /\ UNCHANGED <<poolVars, remote, made, disk, stopping>>

-----------------------------------------------------------------------------
(* The surroundings.                                                        *)

(* A key is deleted from outside, e.g. in the account console, or created   *)
(* there or by another router on the same account.                          *)
Revoke(k) ==
  /\ Settled /\ k \in remote
  /\ remote' = remote \ {k}
  /\ job' = IF job.stage = "listing" /\ Cardinality(Newer(k)) < job.page * PageSize
              THEN [job EXCEPT !.torn = TRUE] ELSE job
  /\ UNCHANGED <<poolVars, made, creating, queue, calls, current, disk, stopping>>

CreatedElsewhere ==
  /\ Settled /\ made < MaxKeys
  /\ made' = made + 1
  /\ remote' = remote \cup {made'}
  /\ UNCHANGED <<poolVars, opVars, calls, current, disk, stopping>>

(* shutdown: the server takes no more requests, and cleanup is queued behind *)
(* whatever is under way, which goes on beside it.  (Without cleanup a       *)
(* shutdown is a Restart.)                                                   *)
Shutdown ==
  /\ Settled /\ ~stopping
  /\ stopping' = TRUE
  /\ Enqueue(Op("cleanup", NoGroup, NoKey, {}, Daemon))
  /\ UNCHANGED <<poolVars, remote, made, creating, job, calls, current, disk>>

(* A new process starts from a state file; reconcile is the first operation *)
(* of its chain, and rounds start beside it.                                *)
StartFrom(file) ==
  /\ pool' = file.pool /\ older' = file.older /\ current' = file.current
  /\ disk' = file
  /\ creating' = {} /\ job' = NoJob
  /\ queue' = <<Op("reconcile", NoGroup, NoKey, {}, Daemon)>>
  /\ calls' = [c \in Callers |-> NoCall]
  /\ stopping' = FALSE
  /\ UNCHANGED <<remote, made>>

(* The process dies and starts again.                                       *)
Restart == StartFrom(disk)

(* cleanup is through: the state is written once more, or is not, and the   *)
(* process ends; some day it starts again.                                  *)
Exit ==
  /\ stopping /\ Settled
  /\ \A i \in DOMAIN queue : queue[i].kind # "cleanup"
  /\ StartFrom(State)

Internal ==
  \/ \E c \in Callers : Resume(c)
  \/ StartOp \/ EvictNext

(* The running operation gets the answer it awaits.                         *)
JobAnswer ==
  \/ CreateReturns \/ CreateFails \/ DeleteReturns \/ DeleteFails
  \/ ListPage \/ ListReturns \/ ListCutShort \/ ListFails
  \/ CleanReturns \/ CleanFails
  \/ Written \/ WriteFails

Surroundings ==
  \/ (\E k \in Keys : Revoke(k)) \/ CreatedElsewhere
  \/ Shutdown \/ Restart \/ Exit

Next ==
  \/ \E c \in Clients :
       \/ \E g \in Groups : AcquireKey(c, g)
       \/ Use(c) \/ Done(c) \/ InvalidatePoolKey(c)
  \/ \E g \in Groups : SwitchTo(g)
  \/ \E forced \in SUBSET Groups : TrimPool(forced)
  \/ Internal
  \/ JobAnswer
  \/ SwitchSaved
  \/ Surroundings

Spec == Init /\ [][Next]_vars

(* Continuations run, and every call to the account or the disk returns     *)
(* (the API client has a timeout of its own).  The answer waits while       *)
(* continuations are pending, hence strong fairness.                        *)
FairSpec ==
  Spec /\ WF_vars(Internal) /\ SF_vars(JobAnswer) /\ SF_vars(SwitchSaved)

-----------------------------------------------------------------------------
(* Properties.                                                              *)

(* ALGORITHM.md, section 9: no key is deleted that a request holds or uses, *)
(* nor that of the control plane's current group, although the decision is  *)
(* made on a snapshot and the delete takes time, during which requests come *)
(* and the current group changes.                                           *)
DeletesNoKeyInUse ==
  job.stage = "deleting" =>
    /\ job.victim # current
    /\ \A c \in Clients :
         calls[c].phase \in {"holding", "using", "dropping"}
         => calls[c].key # pool[job.victim]

(* executor.ts:289: a request may come between the snapshot of the victims  *)
(* and the delete of the last of them; no delete starts for a group that a  *)
(* request is waiting for, holds or uses a key of.                          *)
DeletesNoKeyWanted ==
  [][job.stage # "deleting" /\ job'.stage = "deleting" =>
       \A c \in Clients : calls[c].phase # "none" => calls[c].group # job'.victim]_vars

(* Single flight: the creating map is exactly the creations queued or       *)
(* running, and there is never more than one of a group.                    *)
SingleFlight ==
  \A g \in Groups :
    LET creations == {i \in DOMAIN queue : queue[i].kind = "create" /\ queue[i].group = g}
    IN  Cardinality(creations) = IF g \in creating THEN 1 ELSE 0

(* A record leaves the pool only for cause, or the key would be orphaned on *)
(* the account: the key is gone; upstream refused this very key, and not    *)
(* another that an old request still used (expectedSk); a listing lost      *)
(* sight of it, because a newer key was deleted between two pages or an     *)
(* unreadable answer cut it short; or the state file was older.             *)
RecordsLeaveForCause ==
  [][\A g \in Groups :
       pool[g] # NoKey /\ pool'[g] # pool[g] =>
         \/ pool[g] \notin remote'
         \/ \E c \in Clients : calls[c].phase = "dropping" /\ calls[c].key = pool[g]
         \/ job.torn \/ ListCutShort
         \/ Restart]_vars

(* Whoever waits for the chain, for a creation, an invalidation or a trim   *)
(* gets on: operations behind operations never wait for each other.         *)
CallsReturn ==
  \A c \in Callers :
    calls[c].phase \in {"waiting", "joining", "dropping", "saving", "trimming"}
    ~> calls[c].phase \in {"none", "holding"}
=============================================================================
