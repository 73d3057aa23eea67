--------------------------- MODULE SessionAffinity ---------------------------
(***************************************************************************)
(* Session and Responses affinity: class SessionAffinity of                *)
(* apps/router/src/session.ts, together with the route attempts that hold  *)
(* its versioned bindings (daemon.ts prepareRequestKey, proxy.ts).         *)
(*                                                                         *)
(* Each method runs without an await and is one action; between them, the  *)
(* attempts of concurrent requests of one session interleave freely.  The  *)
(* time `at' that routing passes was read before it awaited statistics and *)
(* keys, so it may lag behind the clock.                                   *)
(***************************************************************************)
EXTENDS Integers, FiniteSets

CONSTANTS
  Sessions, Groups, Responses, NoGroup,
  Attempts,       \* slots of concurrent route attempts
  TtlMs,          \* sessionTtlMs
  PruneInterval,  \* PRUNE_INTERVAL_MS
  MaxEntries,     \* sessionMaxEntries
  MaxNow,         \* bound: the last instant
  MaxLag,         \* bound: how old a captured time may be
  MaxRevision     \* bound: the last revision issued

ASSUME AffinityAssumption ==
  /\ NoGroup \notin Groups /\ Sessions # {}
  /\ TtlMs \in Nat /\ PruneInterval \in Nat /\ MaxEntries \in Nat \ {0}
  /\ MaxNow \in Nat /\ MaxLag \in Nat /\ MaxRevision \in Nat

VARIABLES
  sessions,   \* [Sessions -> Binding]: state.sessions
  aliases,    \* [Responses -> Alias]: state.responseAliases
  revision,   \* the process-wide revision counter
  lastPrune,  \* lastPruneAt
  attempts,   \* [Attempts -> Attempt]: the RouteBinding closures in use
  saved,      \* <<sessions, aliases>> as last written to the state file
  erased,     \* history: groups forgotten and not chosen by routing since
  now

vars == <<sessions, aliases, revision, lastPrune, attempts, saved, erased, now>>

Times == 0 .. MaxNow
Statuses == {"hit", "miss"}

(* cacheStatus, tagged (history) with the group whose response showed it.   *)
NoEvidence == <<"none", NoGroup>>
Evidence == {NoEvidence} \cup (Statuses \X Groups)

Binding == [group : Groups \cup {NoGroup}, used : Times, revision : Nat, cache : Evidence]
Alias == [session : Sessions, group : Groups \cup {NoGroup}, used : Times]

(* An absent entry of either Record.                                        *)
Unbound == [group |-> NoGroup, used |-> 0, revision |-> 0, cache |-> NoEvidence]
NoAlias == [session |-> CHOOSE s \in Sessions : TRUE, group |-> NoGroup, used |-> 0]

(* trying: before the first byte, rollback is possible;                     *)
(* streaming: committed, only invalidate is left.                           *)
Attempt == [phase : {"none", "trying", "streaming"}, session : Sessions,
            group : Groups \cup {NoGroup}, revision : Nat, previous : Binding]
NoAttempt == [phase |-> "none", session |-> CHOOSE s \in Sessions : TRUE,
              group |-> NoGroup, revision |-> 0, previous |-> Unbound]

TypeOK ==
  /\ sessions \in [Sessions -> Binding]
  /\ aliases \in [Responses -> Alias]
  /\ revision \in Nat /\ lastPrune \in Times /\ now \in Times
  /\ attempts \in [Attempts -> Attempt]
  /\ saved \in [Sessions -> Binding] \X [Responses -> Alias]
  /\ erased \in SUBSET Groups

Present(entries) == {k \in DOMAIN entries : entries[k].group # NoGroup}

-----------------------------------------------------------------------------
(* Pruning.                                                                 *)

Without(entries, keys, absent) ==
  [k \in DOMAIN entries |-> IF k \in keys THEN absent ELSE entries[k]]

Expired(entries, at) == {k \in Present(entries) : at - entries[k].used > TtlMs}

(* trimOldest: the surplus entries that were used least recently; ties go   *)
(* by insertion order, which is left open.                                  *)
OldestSets(entries, limit) ==
  LET live == Present(entries)
      surplus == IF Cardinality(live) > limit THEN Cardinality(live) - limit ELSE 0
  IN  {old \in SUBSET live :
         /\ Cardinality(old) = surplus
         /\ \A k \in old, rest \in live \ old : entries[k].used <= entries[rest].used}

Trims(entries, limit, at, absent) ==
  LET fresh == Without(entries, Expired(entries, at), absent)
  IN  {Without(fresh, old, absent) : old \in OldestSets(fresh, limit)}

(* Slip: only the clock makes a prune due.                                  *)
PruneDueByTime(s, a, at) == at - lastPrune >= PruneInterval

PruneDue(s, a, at) ==
  \/ at - lastPrune >= PruneInterval
  \/ Cardinality(Present(s)) > MaxEntries
  \/ Cardinality(Present(a)) > 2 * MaxEntries

(* The pairs <<sessions, aliases>> that prune, and pruneMaybe, may leave.   *)
Prune(s, a, at) ==
  Trims(s, MaxEntries, at, Unbound) \X Trims(a, 2 * MaxEntries, at, NoAlias)

PruneMaybe(s, a, at) == IF PruneDue(s, a, at) THEN Prune(s, a, at) ELSE {<<s, a>>}

PrunedAt(s, a, at) == IF PruneDue(s, a, at) THEN at ELSE lastPrune

Higher(a, b) == IF a > b THEN a ELSE b

(* nextRevision: above every revision issued and above a persisted one.     *)
(* Slip: only above the entry's.                                            *)
NextRevisionOfEntry(persisted) == persisted + 1

NextRevision(persisted) == Higher(revision, persisted) + 1

-----------------------------------------------------------------------------
Init ==
  /\ sessions = [s \in Sessions |-> Unbound]
  /\ aliases = [p \in Responses |-> NoAlias]
  /\ revision = 0 /\ lastPrune = 0 /\ now = 0
  /\ attempts = [i \in Attempts |-> NoAttempt]
  /\ saved = <<sessions, aliases>>
  /\ erased = {}

CallTimes == {at \in Times : at <= now /\ now - at <= MaxLag}

(* resolve: prunes first, drops an expired binding, refreshes a live one.   *)
Resolve(s, at) ==
  /\ \E kept \in PruneMaybe(sessions, aliases, at) :
       /\ sessions' = IF s \notin Present(kept[1]) THEN kept[1]
                      ELSE IF s \in Expired(kept[1], at)
                        THEN Without(kept[1], {s}, Unbound)
                        ELSE [kept[1] EXCEPT ![s] = [@ EXCEPT !.used = at]]
       /\ aliases' = kept[2]
  /\ lastPrune' = PrunedAt(sessions, aliases, at)
  /\ UNCHANGED <<revision, attempts, saved, erased, now>>

(* Installs a binding, then prunes by the caller's time.                    *)
Install(s, binding, at) ==
  LET next == [sessions EXCEPT ![s] = binding] IN
  /\ \E kept \in PruneMaybe(next, aliases, at) :
       sessions' = kept[1] /\ aliases' = kept[2]
  /\ lastPrune' = PrunedAt(next, aliases, at)
  /\ revision' = binding.revision
  /\ erased' = erased \ {binding.group}

(* bindForRoute: attempt i declares group g for its session.  Evidence on   *)
(* the prefix cache is kept only while the group stays the same.            *)
(* Slip: the evidence moves to the new group with the session.              *)
BindKeepingEvidence(i, s, g, at) ==
  LET previous == sessions[s]
      next == NextRevision(previous.revision)
  IN
  /\ attempts[i].phase = "none"
  /\ next <= MaxRevision
  /\ Install(s, [previous EXCEPT !.group = g, !.used = at, !.revision = next], at)
  /\ attempts' = [attempts EXCEPT ![i] =
                    [phase |-> "trying", session |-> s, group |-> g,
                     revision |-> next, previous |-> previous]]
  /\ UNCHANGED <<saved, now>>

BindForRoute(i, s, g, at) ==
  LET previous == sessions[s]
      next == NextRevision(previous.revision)
  IN
  /\ attempts[i].phase = "none"
  /\ next <= MaxRevision
  /\ Install(s, [group |-> g, used |-> at, revision |-> next,
                 cache |-> IF previous.group = g THEN previous.cache ELSE NoEvidence], at)
  /\ attempts' = [attempts EXCEPT ![i] =
                    [phase |-> "trying", session |-> s, group |-> g,
                     revision |-> next, previous |-> previous]]
  /\ UNCHANGED <<saved, now>>

(* isCurrent: the session still carries the revision this attempt issued.   *)
IsCurrent(i) ==
  /\ sessions[attempts[i].session].group # NoGroup
  /\ sessions[attempts[i].session].revision = attempts[i].revision

EndAttempt(i) == attempts' = [attempts EXCEPT ![i] = NoAttempt]

(* rollback: the attempt failed before the first byte (or its client left). *)
(* Slip: the old binding comes back under its old revision.                 *)
RollbackUnversioned(i) ==
  LET s == attempts[i].session IN
  /\ attempts[i].phase = "trying"
  /\ sessions' = IF IsCurrent(i) THEN [sessions EXCEPT ![s] = attempts[i].previous]
                                 ELSE sessions
  /\ EndAttempt(i)
  /\ UNCHANGED <<aliases, revision, lastPrune, saved, erased, now>>

Rollback(i) ==
  LET s == attempts[i].session
      previous == attempts[i].previous
      next == NextRevision(attempts[i].revision)
  IN
  /\ attempts[i].phase = "trying"
  /\ IF ~IsCurrent(i) THEN UNCHANGED <<sessions, revision>>
     ELSE IF previous.group = NoGroup
       THEN sessions' = Without(sessions, {s}, Unbound) /\ UNCHANGED revision
       ELSE /\ next <= MaxRevision
            /\ sessions' = [sessions EXCEPT ![s] = [previous EXCEPT !.revision = next]]
            /\ revision' = next
  /\ EndAttempt(i)
  /\ UNCHANGED <<aliases, lastPrune, saved, erased, now>>

(* The response is handed to the client: rollback is given up.              *)
Commit(i) ==
  /\ attempts[i].phase = "trying"
  /\ attempts' = [attempts EXCEPT ![i] =
                    [@ EXCEPT !.phase = "streaming", !.previous = Unbound]]
  /\ UNCHANGED <<sessions, aliases, revision, lastPrune, saved, erased, now>>

(* invalidate: the stream of a committed response broke.                    *)
Invalidate(i) ==
  /\ attempts[i].phase = "streaming"
  /\ sessions' = IF IsCurrent(i) THEN Without(sessions, {attempts[i].session}, Unbound)
                                 ELSE sessions
  /\ EndAttempt(i)
  /\ UNCHANGED <<aliases, revision, lastPrune, saved, erased, now>>

(* The stream ends, with usage figures of the prefix cache or without:      *)
(* recordCache runs only for an attempt that still owns the binding.        *)
(* Slip: a response without usage figures is recorded as well.              *)
CompleteAlways(i, status) ==
  LET s == attempts[i].session
      next == NextRevision(sessions[s].revision)
  IN
  /\ attempts[i].phase = "streaming"
  /\ IF ~IsCurrent(i) THEN UNCHANGED <<sessions, revision>>
     ELSE /\ next <= MaxRevision
          /\ sessions' = [sessions EXCEPT ![s] =
               [@ EXCEPT !.revision = next, !.cache = <<status, attempts[i].group>>]]
          /\ revision' = next
  /\ EndAttempt(i)
  /\ UNCHANGED <<aliases, lastPrune, saved, erased, now>>

Complete(i, status) ==
  LET s == attempts[i].session
      next == NextRevision(sessions[s].revision)
  IN
  /\ attempts[i].phase = "streaming"
  /\ IF status = "none" \/ ~IsCurrent(i) THEN UNCHANGED <<sessions, revision>>
     ELSE /\ next <= MaxRevision
          /\ sessions' = [sessions EXCEPT ![s] =
               [@ EXCEPT !.revision = next, !.cache = <<status, attempts[i].group>>]]
          /\ revision' = next
  /\ EndAttempt(i)
  /\ UNCHANGED <<aliases, lastPrune, saved, erased, now>>

(* bindResponse: the stream of attempt i carries response id p.             *)
BindResponse(i, p) ==
  LET next == [aliases EXCEPT ![p] = [session |-> attempts[i].session,
                                      group |-> attempts[i].group, used |-> now]]
  IN
  /\ attempts[i].phase = "streaming"
  /\ \E kept \in PruneMaybe(sessions, next, now) :
       sessions' = kept[1] /\ aliases' = kept[2]
  /\ lastPrune' = PrunedAt(sessions, next, now)
  /\ erased' = erased \ {attempts[i].group}
  /\ UNCHANGED <<revision, attempts, saved, now>>

(* resolveResponse: an expired alias is ignored but not deleted.            *)
ResolveResponse(p) ==
  /\ \E kept \in PruneMaybe(sessions, aliases, now) :
       /\ sessions' = kept[1]
       /\ aliases' = IF p \in Present(kept[2]) \ Expired(kept[2], now)
                       THEN [kept[2] EXCEPT ![p] = [@ EXCEPT !.used = now]] ELSE kept[2]
  /\ lastPrune' = PrunedAt(sessions, aliases, now)
  /\ UNCHANGED <<revision, attempts, saved, erased, now>>

(* forgetGroup: the key of g was reclaimed by force, which evictLru does    *)
(* only while no request is under way on g.                                 *)
ForgetGroup(g) ==
  /\ \A i \in Attempts : attempts[i].phase # "none" => attempts[i].group # g
  /\ sessions' = Without(sessions, {s \in Sessions : sessions[s].group = g}, Unbound)
  /\ aliases' = Without(aliases, {p \in Responses : aliases[p].group = g}, NoAlias)
  /\ erased' = erased \cup {g}
  /\ UNCHANGED <<revision, lastPrune, attempts, saved, now>>

(* protectedGroupIds and stats prune unconditionally.                       *)
PruneNow ==
  /\ \E kept \in Prune(sessions, aliases, now) :
       sessions' = kept[1] /\ aliases' = kept[2]
  /\ lastPrune' = now
  /\ UNCHANGED <<revision, attempts, saved, erased, now>>

-----------------------------------------------------------------------------
(* onChange schedules a debounced write of both records; a restart reads    *)
(* the last one and starts counting revisions from zero.                    *)
Save ==
  /\ saved' = <<sessions, aliases>>
  /\ UNCHANGED <<sessions, aliases, revision, lastPrune, attempts, erased, now>>

Restart ==
  /\ sessions' = saved[1] /\ aliases' = saved[2]
  /\ revision' = 0 /\ lastPrune' = 0
  /\ attempts' = [i \in Attempts |-> NoAttempt]
  /\ erased' = {}
  /\ UNCHANGED <<saved, now>>

Tick ==
  /\ now < MaxNow
  /\ now' = now + 1
  /\ UNCHANGED <<sessions, aliases, revision, lastPrune, attempts, saved, erased>>

Next ==
  \/ \E s \in Sessions, at \in CallTimes :
       \/ Resolve(s, at)
       \/ \E i \in Attempts, g \in Groups : BindForRoute(i, s, g, at)
  \/ \E i \in Attempts :
       \/ Rollback(i) \/ Commit(i) \/ Invalidate(i)
       \/ \E status \in Statuses \cup {"none"} : Complete(i, status)
       \/ \E p \in Responses : BindResponse(i, p)
  \/ \E p \in Responses : ResolveResponse(p)
  \/ \E g \in Groups : ForgetGroup(g)
  \/ PruneNow
  \/ Save
  \/ Restart
  \/ Tick

Spec == Init /\ [][Next]_vars

-----------------------------------------------------------------------------
(* Properties.                                                              *)

Holds(i) == attempts[i].phase # "none" /\ IsCurrent(i)

(* The versioned binding works as a lock without blocking: of all attempts  *)
(* of a session under way at most one owns its binding, and the binding it  *)
(* owns is the one it made.  Otherwise a failing old attempt could erase or *)
(* roll back the path of a newer one, and its late cache evidence would be  *)
(* booked on another group.  Revisions must not repeat although bindings    *)
(* are deleted, pruned, rolled back and reloaded.                           *)
OneOwner ==
  \A i \in Attempts : Holds(i) =>
    /\ sessions[attempts[i].session].group = attempts[i].group
    /\ \A j \in Attempts \ {i} :
         Holds(j) => attempts[j].session # attempts[i].session

(* The versioned binding is a lock that does not block: a session belongs   *)
(* to the attempt that declared its group last, and an attempt that failed  *)
(* or ended after losing it, to a later attempt, to pruning, to a reclaimed *)
(* key or to a restart, changes nothing.                                    *)
Bindings == INSTANCE AbstractBinding
  WITH group <- [s \in Sessions |-> sessions[s].group],
       owners <- [s \in Sessions |-> {i \in Attempts : Holds(i) /\ attempts[i].session = s}],
       before <- [i \in Attempts |-> attempts[i].previous.group],
       kept <- [s \in Sessions |-> saved[1][s].group]

RefinesAbstractBinding == Bindings!Spec

(* Cache evidence was measured on the group the session is bound to: it     *)
(* must not survive a migration, and a stale attempt must not record it.    *)
EvidenceMatchesGroup ==
  \A s \in Sessions :
    sessions[s].cache # NoEvidence => sessions[s].cache[2] = sessions[s].group

(* Neither record outgrows its limit, whichever method inserted last and    *)
(* whatever time its caller captured.                                       *)
CapacityBound ==
  /\ Cardinality(Present(sessions)) <= MaxEntries
  /\ Cardinality(Present(aliases)) <= 2 * MaxEntries

(* The revision of a binding never goes back while the process lives: an    *)
(* attempt that lost its binding can not own it again.                      *)
RevisionsGrow ==
  [][\/ Restart
     \/ \A s \in Sessions :
          sessions'[s].group # NoGroup /\ sessions[s].group # NoGroup
          => sessions'[s].revision >= sessions[s].revision]_vars

(* session.ts:361: when a key is reclaimed by force, the sessions and the   *)
(* Responses branches of its group are cleared with it, so until routing    *)
(* chooses the group again nothing refers to it.                            *)
ForgottenStaysForgotten ==
  /\ \A s \in Sessions : sessions[s].group \notin erased
  /\ \A p \in Responses : aliases[p].group \notin erased
=============================================================================
