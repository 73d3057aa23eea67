--------------------------- MODULE AbstractBinding ---------------------------
(***************************************************************************)
(* What the versioned bindings of sessions promise the attempts that use   *)
(* them, without revisions and without times: a session belongs to the     *)
(* attempt that declared its group last, until that attempt ends or the    *)
(* entry is dropped.  Only the owner gives the session back, to what it    *)
(* found or, once its response is under way, to nothing; an attempt that   *)
(* has lost its session changes nothing by ending.  Entries may be dropped *)
(* at any time, for a record is a cache.  SessionAffinity is shown to      *)
(* implement it.                                                           *)
(***************************************************************************)
CONSTANTS Sessions, Groups, NoGroup, Attempts

VARIABLES
  group,   \* the group each session is bound to, or NoGroup
  owners,  \* the attempts that own each session, one at most
  before,  \* the group each attempt would give its session back to
  kept     \* the groups a restart loads

vars == <<group, owners, before, kept>>

Init ==
  /\ group = [s \in Sessions |-> NoGroup]
  /\ owners = [s \in Sessions |-> {}]
  /\ before = [i \in Attempts |-> NoGroup]
  /\ kept = group

Dropped(values, gone, none) ==
  [s \in Sessions |-> IF s \in gone THEN none ELSE values[s]]

Drop(gone) ==
  /\ UNCHANGED <<before, kept>>
  /\ group' = Dropped(group, gone, NoGroup)
  /\ owners' = Dropped(owners, gone, {})

(* A new attempt takes the session from whoever had it; entries, even the   *)
(* new one, may be dropped to keep the limit.                               *)
Take(i, s, g) ==
  /\ before' = [before EXCEPT ![i] = group[s]]
  /\ UNCHANGED kept
  /\ \A t \in Sessions : i \notin owners[t]
  /\ \E gone \in SUBSET Sessions :
       /\ group' = Dropped([group EXCEPT ![s] = g], gone, NoGroup)
       /\ owners' = Dropped([owners EXCEPT ![s] = {i}], gone, {})

(* The owner failed.                                                        *)
GiveBack(i, s) ==
  /\ i \in owners[s]
  /\ group' = [group EXCEPT ![s] = before[i]]
  /\ owners' = [owners EXCEPT ![s] = {}]
  /\ before' = [before EXCEPT ![i] = NoGroup]
  /\ UNCHANGED kept

(* The owner is done, and the session stays where it is.                    *)
Leave(i, s) ==
  /\ i \in owners[s]
  /\ owners' = [owners EXCEPT ![s] = {}]
  /\ before' = [before EXCEPT ![i] = NoGroup]
  /\ UNCHANGED <<group, kept>>

(* The response of i is under way, or i ends without owning a session.      *)
Commit(i) ==
  /\ before' = [before EXCEPT ![i] = NoGroup]
  /\ UNCHANGED <<group, owners, kept>>

Save ==
  /\ kept' = group
  /\ UNCHANGED <<group, owners, before>>

Restart ==
  /\ group' = kept
  /\ owners' = [s \in Sessions |-> {}]
  /\ before' = [i \in Attempts |-> NoGroup]
  /\ UNCHANGED kept

Next ==
  \/ \E i \in Attempts : Commit(i)
  \/ \E gone \in SUBSET Sessions : Drop(gone)
  \/ \E i \in Attempts, s \in Sessions :
       GiveBack(i, s) \/ Leave(i, s) \/ \E g \in Groups : Take(i, s, g)
  \/ Save
  \/ Restart

Spec == Init /\ [][Next]_vars
=============================================================================
