---------------------------- MODULE KeyPoolProofs ----------------------------
(***************************************************************************)
(* Theorems about KeyPool, for any groups, any number of requests, any     *)
(* room in the pool and any number of keys.                                *)
(*                                                                         *)
(* What the invariant adds to the properties: keys never serve two groups  *)
(* (KeysOk), the chain holds no more than its callers wait for (QueueOk),  *)
(* while keys are evicted only requests can get on, and only beside a      *)
(* trim, so that nobody comes to the group whose key is being deleted      *)
(* (JobOk), and a listing passes no key of the pool over unless one of the *)
(* pages it has read lost a key (ListOk).  Each action keeps the parts it  *)
(* can disturb: CallerKeeps for the steps of callers, JobGoesOn and        *)
(* JobEnds for those of the running operation.                             *)
(***************************************************************************)
EXTENDS KeyPool, TLAPS, FiniteSetTheorems

(* A request has a group as long as it has a phase; only the control plane  *)
(* saves and trims, and it never holds a key.                               *)
CallOk(c, call) ==
  /\ call.phase = "none" => call.group = NoGroup
  /\ call.phase \notin {"none", "trimming"} => call.group \in Groups
  /\ call.phase \in {"saving", "trimming"} => c = Daemon
  /\ call.phase \in {"holding", "using", "dropping"} => c \in Clients

CallsOk == \A c \in Callers : CallOk(c, calls[c])

(* Two groups never share a key, and every key was made.                    *)
Distinct(p) ==
  \A g, h \in Groups : p[g] <= made /\ (p[g] = p[h] /\ p[g] # NoKey => g = h)

(* A key that a request holds is, if anyone's, its own group's.             *)
Holds(call, p, m) ==
  call.phase \in {"holding", "using", "dropping"} =>
    /\ call.key \in 1 .. m
    /\ \A g \in Groups : p[g] = call.key => g = call.group

KeysOk ==
  /\ Distinct(pool) /\ Distinct(disk.pool)
  /\ \A c \in Callers : Holds(calls[c], pool, made)

(* The operations of the chain: creations of the groups being created, one  *)
(* of each; invalidations, one of a request that waits for it and has the   *)
(* refused key in hand; and one trim, while the control plane trims.        *)
OpOk(op) ==
  /\ op.kind = "create" => op.group \in creating
  /\ op.kind = "invalidate" =>
       /\ op.group \in Groups /\ op.by \in Clients
       /\ calls[op.by].phase = "dropping" /\ calls[op.by].key = op.key
  /\ op.kind = "trim" => calls[Daemon].phase = "trimming"

Same(op, op2) ==
  /\ op.kind = op2.kind
  /\ op.kind \in {"create", "invalidate", "trim"}
  /\ op.kind = "create" => op.group = op2.group
  /\ op.kind = "invalidate" => op.by = op2.by

QueueOk ==
  /\ \A i \in DOMAIN queue : OpOk(queue[i])
  /\ \A i, j \in DOMAIN queue : Same(queue[i], queue[j]) => i = j
  /\ \A g \in creating :
       \E i \in DOMAIN queue : queue[i].kind = "create" /\ queue[i].group = g

(* While a key is being deleted, its group is nobody's but of requests that *)
(* wait behind the operation; while keys are evicted, a caller can get on   *)
(* only beside a trim, and then it is not the control plane.                *)
Spared(g) ==
  /\ g \in Groups /\ g # current /\ g \notin creating
  /\ \A c \in Clients :
       calls[c].group = g => calls[c].phase = "waiting" /\ calls[c].behind > 0

JobOk ==
  /\ job.stage # "none" => queue # <<>>
  /\ job.stage = "creating" =>
       Head(queue).kind = "create" /\ pool[Head(queue).group] = NoKey
  /\ job.stage \in {"evicting", "deleting"} /\ (\E c \in Callers : Ready(c)) =>
       Head(queue).kind = "trim"
  /\ job.stage = "deleting" => Spared(job.victim)

(* The keys of the pool on the pages that have come have been seen: a page   *)
(* further down shifts to the front only when one of those loses a key.     *)
Passed(k) == Cardinality(Newer(k)) < job.page * PageSize

ListOk ==
  job.stage = "listing" /\ ~job.torn =>
    \A g \in Groups : pool[g] \in remote /\ Passed(pool[g]) => pool[g] \in job.listed

Inv == TypeOK /\ CallsOk /\ KeysOk /\ QueueOk /\ JobOk /\ ListOk

-----------------------------------------------------------------------------
(* Sequences of operations.                                                 *)

LEMMA Appended ==
  ASSUME NEW q \in Seq(Operation), NEW op \in Operation, NEW r, r = Append(q, op)
  PROVE  /\ r \in Seq(Operation) /\ r # <<>>
         /\ DOMAIN r = (DOMAIN q) \cup {Len(q) + 1}
         /\ Len(q) + 1 \notin DOMAIN q
         /\ \A i \in DOMAIN q : r[i] = q[i]
         /\ r[Len(q) + 1] = op
         /\ q # <<>> => Head(r) = Head(q)
  OBVIOUS

LEMMA HeadTail ==
  ASSUME NEW q \in Seq(Operation), q # <<>>
  PROVE  /\ Head(q) \in Operation /\ Tail(q) \in Seq(Operation)
         /\ 1 \in DOMAIN q /\ q[1] = Head(q)
         /\ Len(q) \in Nat \ {0}
         /\ \A i \in DOMAIN Tail(q) : i + 1 \in DOMAIN q /\ i + 1 # 1 /\ Tail(q)[i] = q[i + 1]
         /\ \A i \in DOMAIN q : i # 1 => i - 1 \in DOMAIN Tail(q) /\ Tail(q)[i - 1] = q[i]
  OBVIOUS

LEMMA OpMade ==
  ASSUME NEW kind \in {"create", "invalidate", "trim", "reconcile", "cleanup"},
         NEW g \in Groups \cup {NoGroup}, NEW k \in 0 .. MaxKeys,
         NEW forced \in SUBSET Groups, NEW c \in Callers
  PROVE  \E op \in Operation :
           /\ op = Op(kind, g, k, forced, c)
           /\ op.kind = kind /\ op.group = g /\ op.key = k /\ op.by = c
<1>. DEFINE o == [kind |-> kind, group |-> g, key |-> k, forced |-> forced, by |-> c]
<1>1. o \in Operation /\ o.kind = kind /\ o.group = g /\ o.key = k /\ o.by = c
  BY DEF Operation
<1>2. Op(kind, g, k, forced, c) = o
  BY DEF Op
<1>. HIDE DEF o
<1>. QED BY <1>1, <1>2

-----------------------------------------------------------------------------
(* The order of use.                                                        *)

LEMMA TouchedOrder ==
  ASSUME NEW p, NEW q, NEW o, NEW g \in Groups, OrderOf(p, o),
         PooledIn(q) = PooledIn(p) \cup {g}
  PROVE  LET rest == PooledIn(p) \ {g}
         IN  OrderOf(q, Among(rest, o) \cup (rest \X {g}))
<1>. DEFINE P == PooledIn(p)
            Q == PooledIn(q)
            rest == P \ {g}
            n == Among(rest, o) \cup (rest \X {g})
            O(a, b) == <<a, b>> \in o
            N(a, b) == <<a, b>> \in n
<1>1. n \subseteq Q \X Q
  BY DEF Among
<1>2. \A a, b \in Q :
        N(a, b) <=> \/ a # g /\ b # g /\ O(a, b)
                    \/ a # g /\ b = g
  <2>. TAKE a, b \in Q
  <2>1. <<a, b>> \in Among(rest, o) <=> a \in rest /\ b \in rest /\ O(a, b)
    BY DEF Among
  <2>2. <<a, b>> \in rest \X {g} <=> a \in rest /\ b = g
    OBVIOUS
  <2>3. \A x \in Q : x \in rest <=> x # g
    OBVIOUS
  <2>. QED BY <2>1, <2>2, <2>3
<1>3. /\ Q = P \cup {g}
      /\ \A a, b \in P :
           /\ O(a, b) => ~O(b, a)
           /\ a # b => O(a, b) \/ O(b, a)
           /\ \A c \in P : O(a, b) /\ O(b, c) => O(a, c)
  BY DEF OrderOf
<1>. HIDE DEF P, Q, O, N
<1>4. \A a, b \in Q :
        /\ N(a, b) => ~N(b, a)
        /\ a # b => N(a, b) \/ N(b, a)
        /\ \A c \in Q : N(a, b) /\ N(b, c) => N(a, c)
  BY <1>2, <1>3
<1>. HIDE DEF n
<1>5. OrderOf(q, n)
  BY <1>1, <1>4 DEF OrderOf, N, Q
<1>. QED BY <1>5 DEF n, P

LEMMA DroppedOrder ==
  ASSUME NEW p, NEW q, NEW o, NEW G, OrderOf(p, o),
         PooledIn(q) = PooledIn(p) \ G
  PROVE  OrderOf(q, Among(PooledIn(p) \ G, o))
<1>. DEFINE P == PooledIn(p)
            Q == PooledIn(q)
            n == Among(P \ G, o)
<1>1. n \subseteq Q \X Q
  BY DEF Among
<1>2. \A a, b \in Q : <<a, b>> \in n <=> <<a, b>> \in o
  BY DEF Among
<1>3. Q \subseteq P
  OBVIOUS
<1>. QED BY <1>1, <1>2, <1>3 DEF OrderOf

-----------------------------------------------------------------------------
(* The end of an operation.                                                 *)

(* The operation that ends leaves the chain with the callers it concerns:   *)
(* everything but the pool record, the file and the order of use is as it   *)
(* should be, whatever became of the account meanwhile.                     *)
AccountMoves ==
  /\ made' \in made .. MaxKeys
  /\ remote' \subseteq Keys

LEMMA EndOpKeeps ==
  ASSUME Inv, queue # <<>>, AccountMoves, NEW key \in 0 .. MaxKeys, EndOp(key),
         pool' = pool,
         Head(queue).kind = "create" /\ key # NoKey => pool[Head(queue).group] = key
  PROVE  /\ queue' \in Seq(Operation) /\ job' = NoJob /\ creating' \subseteq Groups
         /\ calls' \in [Callers -> Call] /\ current' \in Groups \cup {NoGroup}
         /\ CallsOk' /\ \A c \in Callers : Holds(calls'[c], pool', made')
         /\ QueueOk' /\ JobOk' /\ ListOk'
<1>. DEFINE op == Head(queue)
<1>1. /\ op \in Operation
      /\ \A c \in Callers : calls[c] \in Call /\ CallOk(c, calls[c]) /\ Holds(calls[c], pool, made)
      /\ made \in Nat /\ made' \in Nat /\ MaxKeys \in Nat
      /\ queue \in Seq(Operation) /\ creating \subseteq Groups
      /\ current \in Groups \cup {NoGroup} /\ pool \in [Groups -> 0 .. MaxKeys]
  BY HeadTail, PoolAssumption DEF Inv, TypeOK, CallsOk, KeysOk, AccountMoves
<1>2. /\ queue' = Tail(queue) /\ job' = NoJob
      /\ creating' = IF op.kind = "create" THEN creating \ {op.group} ELSE creating
      /\ calls' = AfterOp(op, key) /\ Adopt(op, key)
  BY DEF EndOp
<1>3. queue' \in Seq(Operation) /\ creating' \subseteq Groups
  BY <1>1, <1>2, HeadTail
<1>4. \A c \in Callers :
        /\ calls'[c] \in Call /\ CallOk(c, calls'[c])
        /\ Holds(calls'[c], pool', made')
        /\ calls[c].phase = "trimming" /\ op.kind # "trim" => calls'[c].phase = "trimming"
        /\ calls[c].phase = "dropping" /\ ~(op.kind = "invalidate" /\ c = op.by) =>
             calls'[c] = calls[c]
  <2>. TAKE c \in Callers
  <2>. DEFINE call == calls[c]
              r == calls'[c]
  <2>0. SUFFICES /\ r \in Call /\ CallOk(c, r) /\ Holds(r, pool, made')
                 /\ call.phase = "trimming" /\ op.kind # "trim" => r.phase = "trimming"
                 /\ call.phase = "dropping" /\ ~(op.kind = "invalidate" /\ c = op.by) =>
                      r = call
    OBVIOUS
  <2>1. r = AfterOp(op, key)[c] /\ call = calls[c]
    BY <1>2
  <2>2. op \in Operation /\ call \in Call /\ CallOk(c, call) /\ Holds(call, pool, made)
    BY <1>1
  <2>. HIDE DEF call, r, op
  <2>3. \/ r = call
        \/ /\ r = NoCall /\ (call.phase = "trimming" => op.kind = "trim")
           /\ call.phase = "dropping" => op.kind = "invalidate" /\ c = op.by
        \/ call.phase = "waiting" /\ \E n \in Nat : r = [call EXCEPT !.behind = n]
        \/ /\ call.phase = "joining" /\ c = Daemon
           /\ r = [call EXCEPT !.phase = "saving"]
        \/ /\ call.phase = "joining" /\ c # Daemon
           /\ op.kind = "create" /\ call.group = op.group /\ key # NoKey
           /\ r = [call EXCEPT !.phase = "holding", !.key = key]
    <3>1. CASE call.phase = "waiting"
      <4>. DEFINE n == IF call.behind > 0 THEN call.behind - 1 ELSE 0
      <4>1. n \in Nat
        BY <2>2 DEF Call
      <4>2. r = [call EXCEPT !.behind = n]
        BY <2>1, <3>1 DEF AfterOp
      <4>. QED BY <3>1, <4>1, <4>2
    <3>2. CASE call.phase = "joining" /\ op.kind = "create" /\ call.group = op.group
      BY <2>1, <3>2 DEF AfterOp
    <3>3. CASE /\ c = op.by
               /\ \/ call.phase = "dropping" /\ op.kind = "invalidate"
                  \/ call.phase = "trimming" /\ op.kind = "trim"
      BY <2>1, <3>3 DEF AfterOp
    <3>4. CASE ~ (\/ call.phase = "waiting"
                  \/ call.phase = "joining" /\ op.kind = "create" /\ call.group = op.group
                  \/ /\ c = op.by
                     /\ \/ call.phase = "dropping" /\ op.kind = "invalidate"
                        \/ call.phase = "trimming" /\ op.kind = "trim")
      BY <2>1, <3>4 DEF AfterOp
    <3>. QED BY <3>1, <3>2, <3>3, <3>4
  <2>5. CASE r = call
    BY <1>1, <2>2, <2>5 DEF Holds, AccountMoves
  <2>6. CASE /\ r = NoCall /\ (call.phase = "trimming" => op.kind = "trim")
             /\ call.phase = "dropping" => op.kind = "invalidate" /\ c = op.by
    BY <1>1, <2>2, <2>6 DEF NoCall, CallOk, Call, NoKey, Holds
  <2>7. CASE call.phase = "waiting" /\ \E n \in Nat : r = [call EXCEPT !.behind = n]
    BY <1>1, <2>2, <2>7 DEF CallOk, Call, Holds
  <2>8. CASE /\ call.phase = "joining" /\ c = Daemon
             /\ r = [call EXCEPT !.phase = "saving"]
    BY <1>1, <2>2, <2>8 DEF CallOk, Call, Holds
  <2>9. CASE /\ call.phase = "joining" /\ c # Daemon
             /\ op.kind = "create" /\ call.group = op.group /\ key # NoKey
             /\ r = [call EXCEPT !.phase = "holding", !.key = key]
    <3>1. call.group \in Groups /\ pool[call.group] = key
      BY <2>2, <2>9 DEF CallOk, op
    <3>2. key \in 1 .. made /\ \A g \in Groups : pool[g] = key => g = call.group
      BY <1>1, <2>9, <3>1 DEF Inv, KeysOk, Distinct, NoKey
    <3>3. c \in Clients
      BY <2>9 DEF Callers
    <3>4. /\ r \in Call /\ r.phase = "holding"
          /\ r.group = call.group /\ r.key = key
      BY <2>2, <2>9 DEF Call
    <3>5. key \in 1 .. made'
      BY <1>1, <3>2 DEF AccountMoves
    <3>. QED BY <2>9, <3>1, <3>2, <3>3, <3>4, <3>5 DEF CallOk, Holds
  <2>. QED BY <2>3, <2>5, <2>6, <2>7, <2>8, <2>9
<1>5. calls' \in [Callers -> Call]
  BY <1>2, <1>4 DEF AfterOp
<1>6. current' \in Groups \cup {NoGroup}
  <2>1. Daemon \in Callers
    BY DEF Callers
  <2>. QED BY <1>1, <1>2, <2>1 DEF Adopt, CallOk
<1>7. QueueOk'
  <2>1. /\ \A i \in DOMAIN queue : queue[i] \in Operation /\ OpOk(queue[i])
        /\ \A i, j \in DOMAIN queue : Same(queue[i], queue[j]) => i = j
        /\ \A g \in creating :
             \E i \in DOMAIN queue : queue[i].kind = "create" /\ queue[i].group = g
    BY <1>1 DEF Inv, QueueOk
  <2>2. /\ 1 \in DOMAIN queue /\ queue[1] = op
        /\ \A i \in DOMAIN queue' : i + 1 \in DOMAIN queue /\ i + 1 # 1 /\ queue'[i] = queue[i + 1]
        /\ \A i \in DOMAIN queue : i # 1 => i - 1 \in DOMAIN queue' /\ queue'[i - 1] = queue[i]
        /\ DOMAIN queue' \subseteq Int
    BY <1>1, <1>2, HeadTail
  <2>3. \A i \in DOMAIN queue : i # 1 => ~Same(queue[i], op)
    BY <2>1, <2>2
  <2>4. ASSUME NEW i \in DOMAIN queue'
        PROVE  OpOk(queue[i])'
    <3>. DEFINE o == queue[i + 1]
    <3>1. OpOk(o) /\ ~Same(o, op) /\ queue'[i] = o
      BY <2>1, <2>2, <2>3
    <3>2. o.kind = "trim" => calls'[Daemon].phase = "trimming"
      BY <1>4, <3>1 DEF OpOk, Same, Callers
    <3>3. o.kind = "create" => o.group \in creating'
      BY <1>2, <3>1 DEF OpOk, Same
    <3>4. o.kind = "invalidate" =>
            /\ o.group \in Groups /\ o.by \in Clients
            /\ calls'[o.by].phase = "dropping" /\ calls'[o.by].key = o.key
      BY <1>4, <3>1 DEF OpOk, Same, Callers
    <3>. HIDE DEF o
    <3>. QED BY <3>1, <3>2, <3>3, <3>4 DEF OpOk
  <2>5. ASSUME NEW i \in DOMAIN queue', NEW j \in DOMAIN queue', Same(queue'[i], queue'[j])
        PROVE  i = j
    BY <2>1, <2>2, <2>5
  <2>6. ASSUME NEW g \in creating'
        PROVE  \E i \in DOMAIN queue' : queue'[i].kind = "create" /\ queue'[i].group = g
    <3>1. PICK i \in DOMAIN queue : queue[i].kind = "create" /\ queue[i].group = g
      BY <1>2, <2>1, <2>6
    <3>2. i # 1
      BY <1>2, <2>2, <2>6, <3>1
    <3>. QED BY <2>2, <3>1, <3>2
  <2>. QED BY <2>4, <2>5, <2>6 DEF QueueOk
<1>8. JobOk' /\ ListOk'
  BY <1>2 DEF JobOk, ListOk, NoJob
<1>. QED BY <1>2, <1>3, <1>4, <1>5, <1>6, <1>7, <1>8 DEF CallsOk

-----------------------------------------------------------------------------
(* What the parts of the invariant need of a step.                          *)

(* The pool record and the file lose keys or stay, and the file may be      *)
(* written.                                                                 *)
LEMMA KeysStay ==
  ASSUME Inv, AccountMoves, pool' \in [Groups -> 0 .. MaxKeys],
         \A g \in Groups : pool'[g] \in {pool[g], NoKey},
         disk'.pool \in {disk.pool, pool},
         \A c \in Callers : Holds(calls'[c], pool, made)
  PROVE  KeysOk'
<1>1. /\ made \in Nat /\ made' \in Nat /\ made <= made'
      /\ pool \in [Groups -> 0 .. MaxKeys] /\ disk.pool \in [Groups -> 0 .. MaxKeys]
  BY PoolAssumption DEF Inv, TypeOK, AccountMoves
<1>2. Distinct(pool)'
  BY <1>1 DEF Inv, KeysOk, Distinct, NoKey
<1>3. Distinct(disk.pool)'
  BY <1>1 DEF Inv, KeysOk, Distinct
<1>4. ASSUME NEW c \in Callers PROVE Holds(calls'[c], pool', made')
  BY <1>1 DEF Holds, NoKey
<1>. QED BY <1>2, <1>3, <1>4 DEF KeysOk

(* Whoever waits for an operation of the chain goes on waiting.             *)
Awaits ==
  /\ calls[Daemon].phase = "trimming" => calls'[Daemon].phase = "trimming"
  /\ \A c \in Clients : calls[c].phase = "dropping" => calls'[c] = calls[c]

LEMMA QueueStays ==
  ASSUME Inv, queue' = queue, creating' = creating, Awaits
  PROVE  QueueOk'
<1>1. ASSUME NEW i \in DOMAIN queue' PROVE OpOk(queue[i])'
  BY DEF Inv, QueueOk, OpOk, Awaits
<1>. QED BY <1>1 DEF Inv, QueueOk

LEMMA QueueGrows ==
  ASSUME Inv, NEW op \in Operation, queue' = Append(queue, op), OpOk(op)', Awaits,
         creating' = creating \cup (IF op.kind = "create" THEN {op.group} ELSE {}),
         op.kind = "create" => op.group \notin creating,
         op.kind = "trim" => calls[Daemon].phase # "trimming",
         op.kind = "invalidate" => calls[op.by].phase # "dropping"
  PROVE  QueueOk' /\ queue' \in Seq(Operation)
<1>. DEFINE n == Len(queue) + 1
<1>1. /\ queue' \in Seq(Operation)
      /\ DOMAIN queue' = (DOMAIN queue) \cup {n} /\ n \notin DOMAIN queue
      /\ \A i \in DOMAIN queue : queue'[i] = queue[i]
      /\ queue'[n] = op
  BY Appended DEF Inv, TypeOK
<1>. HIDE DEF n
<1>2. /\ \A i \in DOMAIN queue : OpOk(queue[i])
      /\ \A i, j \in DOMAIN queue : Same(queue[i], queue[j]) => i = j
      /\ \A g \in creating :
           \E i \in DOMAIN queue : queue[i].kind = "create" /\ queue[i].group = g
  BY DEF Inv, QueueOk
<1>3. ASSUME NEW i \in DOMAIN queue' PROVE OpOk(queue[i])'
  <2>1. CASE i = n
    BY <1>1, <2>1
  <2>2. CASE i \in DOMAIN queue
    BY <1>1, <1>2, <2>2 DEF OpOk, Awaits
  <2>. QED BY <1>1, <2>1, <2>2
<1>4. ASSUME NEW i \in DOMAIN queue', NEW j \in DOMAIN queue', Same(queue'[i], queue'[j])
      PROVE  i = j
  <2>1. ASSUME NEW k \in DOMAIN queue PROVE ~Same(queue[k], op) /\ ~Same(op, queue[k])
    BY <1>2 DEF Same, OpOk
  <2>. QED BY <1>1, <1>2, <1>4, <2>1
<1>5. ASSUME NEW g \in creating'
      PROVE  \E i \in DOMAIN queue' : queue'[i].kind = "create" /\ queue'[i].group = g
  <2>1. CASE g \in creating
    BY <1>1, <1>2, <2>1
  <2>2. CASE op.kind = "create" /\ g = op.group
    BY <1>1, <2>2
  <2>. QED BY <2>1, <2>2
<1>. QED BY <1>1, <1>3, <1>4, <1>5 DEF QueueOk

(* A caller gets on, beside the operation that runs.                        *)
LEMMA CallerKeeps ==
  ASSUME Inv, NEW c \in Callers, NEW call \in Call,
         calls' = [calls EXCEPT ![c] = call], CallOk(c, call), Holds(call, pool, made),
         UNCHANGED <<pool, remote, made, job>>, OrderOf(pool, older'),
         disk' \in {disk, State}, stopping' \in BOOLEAN,
         QueueOk', queue' \in Seq(Operation), creating' \subseteq Groups,
         current' \in Groups \cup {NoGroup},
         queue # <<>> => queue' # <<>> /\ Head(queue') = Head(queue),
         job.stage \in {"evicting", "deleting"} /\ call.phase = "waiting" =>
           call.behind # 0,
         job.stage = "deleting" =>
           /\ job.victim # current' /\ job.victim \notin creating'
           /\ c \in Clients /\ call.group = job.victim =>
                call.phase = "waiting" /\ call.behind > 0
  PROVE  Inv'
<1>1. \A d \in Callers : calls'[d] = IF d = c THEN call ELSE calls[d]
  BY DEF Inv, TypeOK
<1>2. TypeOK'
  <2>1. calls' \in [Callers -> Call]
    BY DEF Inv, TypeOK
  <2>2. /\ disk.pool' \in [Groups -> 0 .. MaxKeys] /\ OrderOf(disk.pool', disk.older')
        /\ disk.current' \in Groups \cup {NoGroup}
    BY DEF Inv, TypeOK, State
  <2>. QED BY <2>1, <2>2 DEF Inv, TypeOK
<1>3. CallsOk'
  BY <1>1 DEF Inv, CallsOk
<1>4. KeysOk'
  <2>1. \A d \in Callers : Holds(calls'[d], pool, made)
    BY <1>1 DEF Inv, KeysOk
  <2>2. AccountMoves
    BY DEF Inv, TypeOK, AccountMoves
  <2>3. disk'.pool \in {disk.pool, pool}
    BY DEF State
  <2>. QED BY <2>1, <2>2, <2>3, KeysStay DEF Inv, TypeOK
<1>5. JobOk'
  <2>1. (\E d \in Callers : Ready(d)') /\ job.stage \in {"evicting", "deleting"} =>
          \E d \in Callers : Ready(d)
    BY <1>1 DEF Ready
  <2>2. job.stage = "deleting" => Spared(job.victim)'
    BY <1>1 DEF Inv, JobOk, Spared, Callers
  <2>. QED BY <2>1, <2>2 DEF Inv, JobOk
<1>6. ListOk'
  BY DEF Inv, ListOk, Passed, Newer
<1>. QED BY <1>2, <1>3, <1>4, <1>5, <1>6 DEF Inv

(* The running operation goes on.                                           *)
LEMMA JobGoesOn ==
  ASSUME Inv, AccountMoves, UNCHANGED <<creating, queue, calls, current, disk, stopping>>,
         pool' \in [Groups -> 0 .. MaxKeys], OrderOf(pool', older'),
         KeysOk', job' \in Job, JobOk', ListOk'
  PROVE  Inv'
<1>1. QueueOk'
  BY QueueStays DEF Awaits
<1>2. TypeOK'
  BY PoolAssumption DEF Inv, TypeOK, AccountMoves
<1>3. CallsOk'
  BY DEF Inv, CallsOk
<1>. QED BY <1>1, <1>2, <1>3 DEF Inv

(* The running operation ends.                                              *)
LEMMA JobEnds ==
  ASSUME Inv, queue # <<>>, AccountMoves, NEW key \in 0 .. MaxKeys, EndOp(key),
         pool' = pool, OrderOf(pool, older'), disk' \in {disk, State}, stopping' = stopping,
         Head(queue).kind = "create" /\ key # NoKey => pool[Head(queue).group] = key
  PROVE  Inv'
<1>1. /\ queue' \in Seq(Operation) /\ job' = NoJob /\ creating' \subseteq Groups
      /\ calls' \in [Callers -> Call] /\ current' \in Groups \cup {NoGroup}
      /\ CallsOk' /\ \A c \in Callers : Holds(calls'[c], pool', made')
      /\ QueueOk' /\ JobOk' /\ ListOk'
  BY EndOpKeeps
<1>2. TypeOK'
  <2>1. NoJob \in Job
    BY DEF NoJob, Job
  <2>2. /\ disk.pool' \in [Groups -> 0 .. MaxKeys] /\ OrderOf(disk.pool', disk.older')
        /\ disk.current' \in Groups \cup {NoGroup}
    BY DEF Inv, TypeOK, State
  <2>3. /\ pool' \in [Groups -> 0 .. MaxKeys] /\ OrderOf(pool', older')
        /\ stopping' \in BOOLEAN
    BY DEF Inv, TypeOK
  <2>4. made' \in 0 .. MaxKeys /\ remote' \subseteq Keys
    BY PoolAssumption DEF Inv, TypeOK, AccountMoves
  <2>. QED BY <1>1, <2>1, <2>2, <2>3, <2>4 DEF TypeOK
<1>3. KeysOk'
  <2>1. made \in Nat /\ made' \in Nat /\ made <= made'
    BY PoolAssumption DEF Inv, TypeOK, AccountMoves
  <2>2. /\ pool \in [Groups -> 0 .. MaxKeys] /\ disk.pool \in [Groups -> 0 .. MaxKeys]
        /\ Distinct(pool) /\ Distinct(disk.pool)
    BY DEF Inv, TypeOK, KeysOk
  <2>3. ASSUME NEW p \in [Groups -> 0 .. MaxKeys], Distinct(p),
               NEW g \in Groups, NEW h \in Groups
        PROVE  p[g] <= made' /\ (p[g] = p[h] /\ p[g] # NoKey => g = h)
    <3>1. p[g] \in Nat /\ p[g] <= made /\ (p[g] = p[h] /\ p[g] # NoKey => g = h)
      BY <2>3, PoolAssumption DEF Distinct
    <3>. QED BY <2>1, <3>1
  <2>4. Distinct(pool)'
    BY <2>2, <2>3 DEF Distinct
  <2>5. disk'.pool \in {disk.pool, pool}
    BY DEF State
  <2>6. Distinct(disk.pool)'
    BY <2>2, <2>3, <2>5 DEF Distinct
  <2>. QED BY <1>1, <2>4, <2>6 DEF KeysOk
<1>. QED BY <1>1, <1>2, <1>3 DEF Inv

-----------------------------------------------------------------------------
(* The callers.                                                             *)

LEMMA NothingMoves ==
  ASSUME Inv, UNCHANGED <<remote, made>>
  PROVE  AccountMoves
  BY DEF Inv, TypeOK, AccountMoves

LEMMA OthersAwait ==
  ASSUME Inv, NEW c \in Callers, NEW call, calls' = [calls EXCEPT ![c] = call],
         calls[c].phase \notin {"trimming", "dropping"}
  PROVE  Awaits
  BY DEF Inv, TypeOK, Awaits, Callers

LEMMA EnsureKeyKeeps ==
  ASSUME Inv, NEW c \in Callers, NEW g \in Groups, EnsureKey(c, g)
  PROVE  Inv'
<1>. DEFINE call == IF g \in creating THEN [NoCall EXCEPT !.phase = "joining", !.group = g]
                    ELSE [NoCall EXCEPT !.phase = "waiting", !.group = g,
                                        !.behind = Len(queue)]
<1>1. /\ calls[c].phase = "none" /\ calls' = [calls EXCEPT ![c] = call]
      /\ UNCHANGED <<pool, older, remote, made, creating, queue, job, current, disk,
                     stopping>>
  BY DEF EnsureKey, poolVars, opVars
<1>2. /\ Len(queue) \in Nat /\ (queue # <<>> => Len(queue) # 0)
      /\ (job.stage # "none" => queue # <<>>)
  BY DEF Inv, TypeOK, JobOk
<1>3. /\ call \in Call /\ call.group = g
      /\ call.phase = (IF g \in creating THEN "joining" ELSE "waiting")
      /\ call.phase = "waiting" => call.behind = Len(queue)
  <2>1. /\ NoCall \in Call /\ NoCall.behind \in Nat
    BY PoolAssumption DEF NoCall, Call, NoKey
  <2>2. CASE g \in creating
    BY <2>1, <2>2 DEF Call
  <2>3. CASE g \notin creating
    BY <1>2, <2>1, <2>3 DEF Call
  <2>. QED BY <2>2, <2>3
<1>. HIDE DEF call
<1>4. CallOk(c, call) /\ Holds(call, pool, made)
  BY <1>3 DEF CallOk, Holds
<1>5. QueueOk'
  BY <1>1, OthersAwait, QueueStays
<1>6. job.stage = "deleting" =>
        /\ job.victim # current' /\ job.victim \notin creating'
        /\ c \in Clients /\ call.group = job.victim =>
             call.phase = "waiting" /\ call.behind > 0
  BY <1>1, <1>2, <1>3 DEF Inv, JobOk, Spared
<1>7. job.stage \in {"evicting", "deleting"} /\ call.phase = "waiting" => call.behind # 0
  BY <1>2, <1>3
<1>. QED
  BY <1>1, <1>3, <1>4, <1>5, <1>6, <1>7, CallerKeeps DEF Inv, TypeOK

(* Beside an eviction only a request gets on, and not to the victim.        *)
LEMMA ResumesBeside ==
  ASSUME Inv, NEW c \in Callers, Ready(c), job.stage \in {"evicting", "deleting"}
  PROVE  /\ c \in Clients
         /\ job.stage = "deleting" =>
              /\ calls[c].group # job.victim
              /\ job.victim # current /\ job.victim \notin creating
<1>1. queue # <<>> /\ Head(queue).kind = "trim"
  BY DEF Inv, JobOk
<1>2. OpOk(Head(queue))
  BY <1>1, HeadTail DEF Inv, TypeOK, QueueOk
<1>3. c \in Clients
  BY <1>1, <1>2 DEF OpOk, Ready, Callers
<1>. QED BY <1>3 DEF Inv, JobOk, Spared, Ready

LEMMA ResumeKeeps ==
  ASSUME Inv, NEW c \in Callers, Resume(c)
  PROVE  Inv'
<1>. DEFINE g == calls[c].group
<1>1. /\ Ready(c) /\ calls[c] \in Call /\ CallOk(c, calls[c]) /\ g \in Groups
      /\ UNCHANGED <<remote, made, disk, stopping>>
  BY DEF Resume, Ready, Inv, TypeOK, CallsOk, CallOk
<1>2. calls[c].phase = "waiting"
  BY <1>1 DEF Ready
<1>3. ASSUME NEW call, calls' = [calls EXCEPT ![c] = call]
      PROVE  Awaits
  BY <1>2, <1>3, OthersAwait
<1>4. job.stage \in {"evicting", "deleting"} =>
        /\ c \in Clients /\ c # Daemon
        /\ job.stage = "deleting" =>
             g # job.victim /\ job.victim # current /\ job.victim \notin creating
  BY <1>1, ResumesBeside, PoolAssumption
<1>5. OrderOf(pool, older)
  BY DEF Inv, TypeOK
<1>6. CASE pool[g] # NoKey /\ Touch(g)
           /\ calls' = [calls EXCEPT
                ![c] = IF c = Daemon THEN [@ EXCEPT !.phase = "saving"]
                       ELSE [@ EXCEPT !.phase = "holding", !.key = pool[g]]]
           /\ current' = (IF c = Daemon THEN g ELSE current)
           /\ UNCHANGED <<pool, opVars>>
  <2>. DEFINE call == IF c = Daemon THEN [calls[c] EXCEPT !.phase = "saving"]
                      ELSE [calls[c] EXCEPT !.phase = "holding", !.key = pool[g]]
  <2>1. calls' = [calls EXCEPT ![c] = call]
    BY <1>6
  <2>2. /\ pool[g] \in 0 .. MaxKeys /\ pool[g] \in 1 .. made
        /\ \A h \in Groups : pool[h] = pool[g] => h = g
    BY <1>1, <1>6, PoolAssumption DEF Inv, TypeOK, KeysOk, Distinct, NoKey
  <2>3. /\ call \in Call /\ call.group = g
        /\ call.phase = (IF c = Daemon THEN "saving" ELSE "holding")
        /\ c # Daemon => call.key = pool[g]
    BY <1>1, <2>2 DEF Call
  <2>. HIDE DEF call
  <2>4. CallOk(c, call) /\ Holds(call, pool, made)
    BY <1>1, <2>2, <2>3 DEF CallOk, Holds, Callers
  <2>5. OrderOf(pool, older')
    <3>1. PooledIn(pool) = PooledIn(pool) \cup {g}
      BY <1>1, <1>6 DEF PooledIn
    <3>. QED BY <1>1, <1>5, <1>6, <3>1, TouchedOrder DEF Touch, Pooled
  <2>6. QueueOk'
    BY <1>1, <1>3, <1>6, <2>1, QueueStays DEF opVars
  <2>7. UNCHANGED <<pool, creating, queue, job>> /\ current' \in {current, g}
        /\ (c # Daemon => current' = current)
    BY <1>6 DEF opVars
  <2>. QED
    BY <1>1, <1>4, <2>1, <2>3, <2>4, <2>5, <2>6, <2>7, CallerKeeps DEF Inv, TypeOK
<1>7. CASE /\ pool[g] = NoKey /\ calls' = [calls EXCEPT ![c].phase = "joining"]
           /\ UNCHANGED <<pool, older, job, current>>
           /\ \/ g \in creating /\ UNCHANGED <<creating, queue>>
              \/ /\ g \notin creating
                 /\ Enqueue(Op("create", g, NoKey, {}, c))
                 /\ creating' = creating \cup {g}
  <2>. DEFINE call == [calls[c] EXCEPT !.phase = "joining"]
  <2>1. calls' = [calls EXCEPT ![c] = call]
    BY <1>7
  <2>2. call \in Call /\ call.group = g /\ call.phase = "joining"
    BY <1>1 DEF Call
  <2>. HIDE DEF call
  <2>3. CallOk(c, call) /\ Holds(call, pool, made)
    BY <1>1, <2>2 DEF CallOk, Holds
  <2>4. PICK op \in Operation :
          op = Op("create", g, NoKey, {}, c) /\ op.kind = "create" /\ op.group = g
    <3>1. NoKey \in 0 .. MaxKeys
      BY PoolAssumption DEF NoKey
    <3>. QED BY <1>1, <3>1, OpMade
  <2>5. /\ QueueOk' /\ queue' \in Seq(Operation) /\ creating' \subseteq Groups
        /\ queue # <<>> => queue' # <<>> /\ Head(queue') = Head(queue)
    <3>1. CASE UNCHANGED <<creating, queue>>
      BY <1>1, <1>3, <2>1, <3>1, QueueStays DEF Inv, TypeOK
    <3>2. CASE /\ g \notin creating /\ queue' = Append(queue, op)
               /\ creating' = creating \cup {g}
      <4>1. OpOk(op)'
        BY <2>4, <3>2 DEF OpOk
      <4>2. QueueOk' /\ queue' \in Seq(Operation)
        BY <1>1, <1>3, <2>1, <2>4, <3>2, <4>1, QueueGrows
      <4>3. queue # <<>> => queue' # <<>> /\ Head(queue') = Head(queue)
        BY <2>4, <3>2, Appended DEF Inv, TypeOK
      <4>. QED BY <1>1, <3>2, <4>2, <4>3 DEF Inv, TypeOK
    <3>. QED BY <1>7, <2>4, <3>1, <3>2 DEF Enqueue
  <2>6. job.stage = "deleting" => job.victim \notin creating'
    BY <1>4, <1>7
  <2>. QED
    BY <1>1, <1>4, <1>5, <1>7, <2>1, <2>2, <2>3, <2>5, <2>6, CallerKeeps DEF Inv, TypeOK
<1>. QED BY <1>6, <1>7 DEF Resume, poolVars, opVars

(* Steps of one caller that concern neither the chain nor the pool.         *)
LEMMA UseDoneSavedKeep ==
  ASSUME Inv, (\E c \in Clients : Use(c) \/ Done(c)) \/ SwitchSaved
  PROVE  Inv'
<1>1. PICK c \in Callers :
        /\ \/ /\ calls[c].phase = "holding"
              /\ calls' = [calls EXCEPT ![c] = [calls[c] EXCEPT !.phase = "using"]]
           \/ calls[c].phase \in {"using", "saving"} /\ calls' = [calls EXCEPT ![c] = NoCall]
        /\ UNCHANGED <<pool, older, remote, made, creating, queue, job, current, stopping>>
        /\ disk' \in {disk, State}
  BY DEF Use, Done, SwitchSaved, Callers, poolVars, opVars
<1>2. PICK call \in Call :
        /\ calls' = [calls EXCEPT ![c] = call]
        /\ CallOk(c, call) /\ Holds(call, pool, made)
        /\ call.phase # "waiting" /\ call.group \in {calls[c].group, NoGroup}
  <2>1. calls[c] \in Call /\ CallOk(c, calls[c]) /\ Holds(calls[c], pool, made)
    BY DEF Inv, TypeOK, CallsOk, KeysOk
  <2>2. CASE /\ calls[c].phase = "holding"
             /\ calls' = [calls EXCEPT ![c] = [calls[c] EXCEPT !.phase = "using"]]
    <3>. DEFINE call == [calls[c] EXCEPT !.phase = "using"]
    <3>1. /\ call \in Call /\ call.phase = "using"
          /\ call.group = calls[c].group /\ call.key = calls[c].key
      BY <2>1 DEF Call
    <3>2. calls' = [calls EXCEPT ![c] = call]
      BY <2>2
    <3>. HIDE DEF call
    <3>3. CallOk(c, call) /\ Holds(call, pool, made)
      BY <2>1, <2>2, <3>1 DEF CallOk, Holds
    <3>. QED BY <3>1, <3>2, <3>3
  <2>3. CASE calls' = [calls EXCEPT ![c] = NoCall]
    <3>1. /\ NoCall \in Call /\ NoCall.phase = "none" /\ NoCall.group = NoGroup
      BY PoolAssumption DEF NoCall, Call, NoKey
    <3>2. CallOk(c, NoCall) /\ Holds(NoCall, pool, made)
      BY <3>1 DEF CallOk, Holds
    <3>. QED BY <2>3, <3>1, <3>2
  <2>. QED BY <1>1, <2>2, <2>3
<1>3. QueueOk'
  BY <1>1, OthersAwait, QueueStays
<1>4. job.stage = "deleting" =>
        /\ job.victim # current' /\ job.victim \notin creating'
        /\ c \in Clients /\ call.group = job.victim =>
             call.phase = "waiting" /\ call.behind > 0
  BY <1>1, <1>2, PoolAssumption DEF Inv, JobOk, Spared
<1>. QED BY <1>1, <1>2, <1>3, <1>4, CallerKeeps DEF Inv, TypeOK

(* A caller queues an operation that takes no key of its own.               *)
LEMMA InvalidateKeeps ==
  ASSUME Inv, NEW c \in Clients, InvalidatePoolKey(c)
  PROVE  Inv'
<1>1. /\ calls[c].phase = "using"
      /\ calls' = [calls EXCEPT ![c].phase = "dropping"]
      /\ queue' = Append(queue, Op("invalidate", calls[c].group, calls[c].key, {}, c))
      /\ UNCHANGED <<pool, older, remote, made, creating, job, current, disk, stopping>>
  BY DEF InvalidatePoolKey, poolVars, Enqueue
<1>2. /\ c \in Callers /\ c # Daemon /\ calls[c] \in Call
      /\ CallOk(c, calls[c]) /\ Holds(calls[c], pool, made)
  BY PoolAssumption DEF Inv, TypeOK, CallsOk, KeysOk, Callers
<1>3. calls[c].group \in Groups /\ calls[c].key \in 1 .. made /\ calls[c].key \in 0 .. MaxKeys
  BY <1>1, <1>2 DEF CallOk, Holds, Call
<1>4. PICK op \in Operation :
        /\ op = Op("invalidate", calls[c].group, calls[c].key, {}, c)
        /\ op.kind = "invalidate" /\ op.group = calls[c].group /\ op.key = calls[c].key
        /\ op.by = c
  BY <1>2, <1>3, OpMade
<1>6. PICK call \in Call :
        /\ calls' = [calls EXCEPT ![c] = call] /\ call.phase = "dropping"
        /\ call.group = calls[c].group /\ call.key = calls[c].key
  <2>1. [calls[c] EXCEPT !.phase = "dropping"] \in Call
    BY <1>2 DEF Call
  <2>. QED BY <1>1, <1>2, <2>1 DEF Call
<1>7. CallOk(c, call) /\ Holds(call, pool, made)
  BY <1>1, <1>2, <1>6 DEF CallOk, Holds
<1>5. OpOk(op)'
  BY <1>2, <1>3, <1>4, <1>6 DEF OpOk, Inv, TypeOK
<1>8. QueueOk' /\ queue' \in Seq(Operation)
  <2>1. Awaits
    BY <1>1, <1>2, <1>6, OthersAwait
  <2>. QED BY <1>1, <1>4, <1>5, <2>1, QueueGrows
<1>9. queue # <<>> => queue' # <<>> /\ Head(queue') = Head(queue)
  BY <1>1, <1>4, Appended DEF Inv, TypeOK
<1>10. job.stage = "deleting" =>
         /\ job.victim # current' /\ job.victim \notin creating'
         /\ c \in Clients /\ call.group = job.victim =>
              call.phase = "waiting" /\ call.behind > 0
  BY <1>1, <1>6 DEF Inv, JobOk, Spared
<1>. QED
  BY <1>1, <1>2, <1>6, <1>7, <1>8, <1>9, <1>10, CallerKeeps DEF Inv, TypeOK

(* The control plane queues a trim; main queues the cleanup.                *)
LEMMA TrimOrShutdownKeeps ==
  ASSUME Inv, (\E forced \in SUBSET Groups : TrimPool(forced)) \/ Shutdown
  PROVE  Inv'
<1>1. PICK kind \in {"trim", "cleanup"}, forced \in SUBSET Groups :
        /\ queue' = Append(queue, Op(kind, NoGroup, NoKey, forced, Daemon))
        /\ kind = "trim" => /\ calls[Daemon].phase = "none"
                           /\ calls' = [calls EXCEPT ![Daemon].phase = "trimming"]
        /\ kind = "cleanup" => calls' = calls
        /\ Settled /\ stopping' \in {stopping, TRUE}
        /\ UNCHANGED <<pool, older, remote, made, creating, job, current, disk>>
  <2>1. CASE \E forced \in SUBSET Groups : TrimPool(forced)
    <3>1. PICK forced \in SUBSET Groups : TrimPool(forced)
      BY <2>1
    <3>2. /\ queue' = Append(queue, Op("trim", NoGroup, NoKey, forced, Daemon))
          /\ calls[Daemon].phase = "none"
          /\ calls' = [calls EXCEPT ![Daemon].phase = "trimming"]
          /\ Settled /\ stopping' \in {stopping, TRUE}
          /\ UNCHANGED <<pool, older, remote, made, creating, job, current, disk>>
      BY <3>1 DEF TrimPool, poolVars, Enqueue
    <3>. QED BY <3>2
  <2>2. CASE Shutdown
    <3>1. /\ queue' = Append(queue, Op("cleanup", NoGroup, NoKey, {}, Daemon))
          /\ calls' = calls /\ Settled /\ stopping' \in {stopping, TRUE}
          /\ UNCHANGED <<pool, older, remote, made, creating, job, current, disk>>
      BY <2>2 DEF Shutdown, poolVars, Enqueue
    <3>. WITNESS "cleanup" \in {"trim", "cleanup"}, {} \in SUBSET Groups
    <3>. QED BY <3>1
  <2>. QED BY <2>1, <2>2
<1>2. /\ Daemon \in Callers /\ calls[Daemon] \in Call /\ calls \in [Callers -> Call]
      /\ CallOk(Daemon, calls[Daemon]) /\ Holds(calls[Daemon], pool, made)
      /\ ~Ready(Daemon) /\ Daemon \notin Clients
  BY <1>1, PoolAssumption DEF Inv, TypeOK, CallsOk, KeysOk, Callers, Settled
<1>3. PICK op \in Operation :
        op = Op(kind, NoGroup, NoKey, forced, Daemon) /\ op.kind = kind
  <2>1. NoKey \in 0 .. MaxKeys
    BY PoolAssumption DEF NoKey
  <2>2. kind \in {"create", "invalidate", "trim", "reconcile", "cleanup"}
    BY <1>1
  <2>3. PICK op \in Operation :
          /\ op = Op(kind, NoGroup, NoKey, forced, Daemon)
          /\ op.kind = kind /\ op.group = NoGroup /\ op.key = NoKey /\ op.by = Daemon
    BY <1>2, <2>1, <2>2, OpMade
  <2>. QED BY <2>3
<1>4. PICK call \in Call :
        /\ calls' = [calls EXCEPT ![Daemon] = call]
        /\ call.group = calls[Daemon].group /\ call.key = calls[Daemon].key
        /\ call.behind = calls[Daemon].behind
        /\ call.phase = IF kind = "trim" THEN "trimming" ELSE calls[Daemon].phase
  <2>1. CASE kind = "trim"
    <3>1. [calls[Daemon] EXCEPT !.phase = "trimming"] \in Call
      BY <1>2 DEF Call
    <3>. QED BY <1>1, <1>2, <2>1, <3>1 DEF Call
  <2>2. CASE kind = "cleanup"
    BY <1>1, <1>2, <2>2
  <2>. QED BY <2>1, <2>2
<1>5. CallOk(Daemon, call) /\ Holds(call, pool, made)
  BY <1>1, <1>2, <1>4 DEF CallOk, Holds
<1>6. OpOk(op)'
  BY <1>2, <1>3, <1>4 DEF OpOk
<1>7. QueueOk' /\ queue' \in Seq(Operation)
  <2>1. Awaits
    BY <1>2, <1>4 DEF Awaits
  <2>. QED BY <1>1, <1>3, <1>6, <2>1, QueueGrows
<1>8. queue # <<>> => queue' # <<>> /\ Head(queue') = Head(queue)
  BY <1>1, <1>3, Appended DEF Inv, TypeOK
<1>9. job.stage = "deleting" => job.victim # current' /\ job.victim \notin creating'
  BY <1>1 DEF Inv, JobOk, Spared
<1>10. call.phase = "waiting" => call.behind # 0
  BY <1>2, <1>4 DEF Ready
<1>. QED
  BY <1>1, <1>2, <1>4, <1>5, <1>7, <1>8, <1>9, <1>10, CallerKeeps DEF Inv, TypeOK

-----------------------------------------------------------------------------
(* The surroundings.                                                        *)

(* The keys newer than a key are finitely many, and more when there are     *)
(* more keys; a key that goes makes one fewer before those older than it.   *)
LEMMA NewerFacts ==
  ASSUME Inv, NEW k
  PROVE  IsFiniteSet(Newer(k)) /\ Cardinality(Newer(k)) \in Nat
<1>1. Newer(k) \subseteq 1 .. MaxKeys
  BY DEF Newer, Inv, TypeOK, Keys
<1>2. IsFiniteSet(1 .. MaxKeys)
  BY FS_Interval, PoolAssumption
<1>3. IsFiniteSet(Newer(k))
  BY <1>1, <1>2, FS_Subset
<1>. QED BY <1>3, FS_CardinalityType

LEMMA NothingPassesAtFirst ==
  ASSUME Inv, job'.stage = "listing" => job'.page = 0, UNCHANGED remote
  PROVE  ListOk'
<1>1. ASSUME NEW k, job'.page = 0 PROVE ~Passed(k)'
  <2>1. Cardinality(Newer(k)) \in Nat
    BY NewerFacts
  <2>2. Cardinality(Newer(k))' = Cardinality(Newer(k))
    BY DEF Newer
  <2>. QED BY <1>1, <2>1, <2>2, PoolAssumption DEF Passed
<1>. QED BY <1>1 DEF ListOk

LEMMA RevokeKeeps ==
  ASSUME Inv, NEW k \in Keys, Revoke(k)
  PROVE  Inv'
<1>1. /\ UNCHANGED <<pool, older, made, creating, queue, calls, current, disk, stopping>>
      /\ k \in remote /\ remote' = remote \ {k}
      /\ job' = IF job.stage = "listing" /\ Passed(k) THEN [job EXCEPT !.torn = TRUE]
                 ELSE job
  BY DEF Revoke, poolVars, Passed
<1>2. AccountMoves
  BY <1>1 DEF Inv, TypeOK, AccountMoves
<1>3. /\ job' \in Job
      /\ job'.stage = job.stage /\ job'.victim = job.victim
      /\ job'.page = job.page /\ job'.listed = job.listed
      /\ job.stage = "listing" => job'.torn = (job.torn \/ Passed(k))
  BY <1>1 DEF Inv, TypeOK, Job
<1>4. KeysOk' /\ JobOk'
  BY <1>1, <1>3 DEF Inv, KeysOk, JobOk, Distinct, Spared, Ready
<1>5. ListOk'
  <2>. SUFFICES ASSUME job.stage = "listing", ~job.torn, ~Passed(k),
                       NEW g \in Groups, pool[g] \in remote, pool[g] # k, Passed(pool[g])'
                PROVE  pool[g] \in job.listed
    BY <1>1, <1>3 DEF ListOk
  <2>. DEFINE m == pool[g]
              before == Newer(m)
              bound == job.page * PageSize
  <2>1. /\ m \in Int /\ k \in Int /\ m # k /\ bound \in Nat
        /\ IsFiniteSet(before) /\ Cardinality(before) \in Nat
        /\ IsFiniteSet(Newer(k)) /\ Cardinality(Newer(k)) \in Nat
        /\ Cardinality(Newer(k)) >= bound
    <3>1. m \in Int /\ k \in Int /\ m # k
      BY DEF Inv, TypeOK, Keys
    <3>2. bound \in Nat
      BY PoolAssumption DEF Inv, TypeOK, Job
    <3>3. /\ IsFiniteSet(before) /\ Cardinality(before) \in Nat
          /\ IsFiniteSet(Newer(k)) /\ Cardinality(Newer(k)) \in Nat
      BY NewerFacts
    <3>4. ~(Cardinality(Newer(k)) < bound)
      BY DEF Passed
    <3>. HIDE DEF bound, before, m
    <3>. QED BY <3>1, <3>2, <3>3, <3>4
  <2>2. Newer(m)' = before \ {k}
    BY <1>1 DEF Newer
  <2>3. Cardinality(before \ {k}) < bound
    BY <1>1, <1>3, <2>2 DEF Passed
  <2>4. CASE m > k
    <3>1. before \ {k} = before
      BY <2>1, <2>4 DEF Newer
    <3>. QED BY <2>3, <3>1 DEF Passed, Inv, ListOk
  <2>5. CASE m < k
    <3>1. Newer(k) \subseteq before \ {k}
      BY <1>1, <2>1, <2>5 DEF Newer, Inv, TypeOK, Keys
    <3>2. IsFiniteSet(before \ {k})
      BY <2>1, FS_Subset
    <3>3. Cardinality(Newer(k)) <= Cardinality(before \ {k})
      BY <3>1, <3>2, FS_Subset
    <3>4. Cardinality(before \ {k}) \in Nat
      BY <3>2, FS_CardinalityType
    <3>. HIDE DEF before, bound
    <3>. QED BY <2>1, <2>3, <3>3, <3>4
  <2>. HIDE DEF before, bound
  <2>. QED BY <2>1, <2>4, <2>5
<1>. QED BY <1>1, <1>2, <1>3, <1>4, <1>5, JobGoesOn DEF Inv, TypeOK

LEMMA CreatedElsewhereKeeps ==
  ASSUME Inv, CreatedElsewhere
  PROVE  Inv'
<1>1. /\ UNCHANGED <<pool, older, creating, queue, job, calls, current, disk, stopping>>
      /\ made < MaxKeys /\ made' = made + 1 /\ remote' = remote \cup {made'}
  BY DEF CreatedElsewhere, poolVars, opVars
<1>2. made \in Nat /\ MaxKeys \in Nat /\ AccountMoves
  BY <1>1, PoolAssumption DEF Inv, TypeOK, AccountMoves, Keys
<1>3. KeysOk'
  BY <1>1, <1>2, KeysStay DEF Inv, TypeOK, KeysOk
<1>4. JobOk'
  BY <1>1 DEF Inv, JobOk, Spared, Ready
<1>5. ListOk'
  <2>. SUFFICES ASSUME job.stage = "listing", ~job.torn, NEW g \in Groups,
                       pool[g] \in remote', Passed(pool[g])'
                PROVE  pool[g] \in job.listed
    BY <1>1 DEF ListOk
  <2>. DEFINE m == pool[g]
  <2>1. m \in remote /\ m <= made
    BY <1>1, <1>2 DEF Inv, TypeOK, KeysOk, Distinct
  <2>2. /\ IsFiniteSet(Newer(m)) /\ Cardinality(Newer(m)) \in Nat
        /\ job.page * PageSize \in Nat
    BY NewerFacts, PoolAssumption DEF Inv, TypeOK, Job
  <2>3. Newer(m)' = Newer(m) \cup {made'}
    BY <1>1, <1>2, <2>1 DEF Newer, Inv, TypeOK, KeysOk
  <2>4. IsFiniteSet(Newer(m) \cup {made'})
    BY <2>2, FS_AddElement
  <2>5. Cardinality(Newer(m)) <= Cardinality(Newer(m) \cup {made'})
    BY <2>4, FS_Subset
  <2>6. Cardinality(Newer(m) \cup {made'}) \in Nat
    BY <2>4, FS_CardinalityType
  <2>7. Cardinality(Newer(m) \cup {made'}) < job.page * PageSize
    BY <1>1, <2>3 DEF Passed
  <2>8. Passed(m)
    BY <2>2, <2>5, <2>6, <2>7 DEF Passed
  <2>. QED BY <2>1, <2>8 DEF Inv, ListOk
<1>. QED BY <1>1, <1>2, <1>3, <1>4, <1>5, JobGoesOn DEF Inv, TypeOK

LEMMA StartKeeps ==
  ASSUME Inv, NEW file \in {disk, State}, StartFrom(file)
  PROVE  Inv'
<1>1. /\ pool' = file.pool /\ older' = file.older /\ current' = file.current
      /\ disk' = file /\ creating' = {} /\ job' = NoJob
      /\ queue' = <<Op("reconcile", NoGroup, NoKey, {}, Daemon)>>
      /\ calls' = [c \in Callers |-> NoCall] /\ stopping' = FALSE
      /\ UNCHANGED <<remote, made>>
  BY DEF StartFrom
<1>2. /\ file.pool \in [Groups -> 0 .. MaxKeys] /\ OrderOf(file.pool, file.older)
      /\ file.current \in Groups \cup {NoGroup} /\ Distinct(file.pool)
  BY DEF Inv, TypeOK, KeysOk, State
<1>3. PICK op \in Operation :
        op = Op("reconcile", NoGroup, NoKey, {}, Daemon) /\ op.kind = "reconcile"
  <2>1. NoKey \in 0 .. MaxKeys /\ Daemon \in Callers
    BY PoolAssumption DEF NoKey, Callers
  <2>. QED BY <2>1, OpMade
<1>4. NoCall \in Call /\ NoCall.phase = "none" /\ NoCall.group = NoGroup
  BY PoolAssumption DEF NoCall, Call, NoKey
<1>5. TypeOK'
  <2>1. NoJob \in Job
    BY DEF NoJob, Job
  <2>2. queue' \in Seq(Operation) /\ calls' \in [Callers -> Call]
    BY <1>1, <1>3, <1>4
  <2>. QED BY <1>1, <1>2, <2>1, <2>2 DEF Inv, TypeOK
<1>6. CallsOk'
  BY <1>1, <1>4 DEF CallsOk, CallOk
<1>7. KeysOk'
  BY <1>1, <1>2, <1>4 DEF KeysOk, Distinct, Holds
<1>8. QueueOk'
  <2>1. DOMAIN queue' = {1} /\ queue'[1] = op
    BY <1>1, <1>3
  <2>2. OpOk(op)'
    BY <1>3 DEF OpOk
  <2>. QED BY <1>1, <2>1, <2>2 DEF QueueOk
<1>9. JobOk' /\ ListOk'
  BY <1>1 DEF JobOk, ListOk, NoJob
<1>. QED BY <1>5, <1>6, <1>7, <1>8, <1>9 DEF Inv

-----------------------------------------------------------------------------
(* The running operation.                                                   *)

LEMMA JobFacts ==
  ASSUME Inv, queue # <<>>
  PROVE  /\ Head(queue) \in Operation /\ OpOk(Head(queue))
         /\ Head(queue).kind \in {"create", "invalidate", "trim", "reconcile", "cleanup"}
         /\ Head(queue).kind = "create" => Head(queue).group \in Groups
         /\ Head(queue).kind = "invalidate" =>
              /\ Head(queue).group \in Groups
              /\ \E c \in Clients :
                   calls[c].phase = "dropping" /\ calls[c].key = Head(queue).key
<1>1. Head(queue) \in Operation /\ 1 \in DOMAIN queue /\ Head(queue) = queue[1]
  BY HeadTail DEF Inv, TypeOK
<1>2. OpOk(Head(queue)) /\ creating \subseteq Groups
  BY <1>1 DEF Inv, TypeOK, QueueOk
<1>. QED BY <1>1, <1>2 DEF OpOk, Operation

(* Records that are dropped leave an ordered pool without new keys.         *)
LEMMA DropKeeps ==
  ASSUME Inv, NEW G, Drop(G)
  PROVE  /\ pool' \in [Groups -> 0 .. MaxKeys] /\ OrderOf(pool', older')
         /\ \A g \in Groups : pool'[g] = IF g \in G THEN NoKey ELSE pool[g]
<1>1. /\ pool' = [g \in Groups |-> IF g \in G THEN NoKey ELSE pool[g]]
      /\ older' = Among(PooledIn(pool) \ G, older)
  BY DEF Drop, Pooled
<1>2. pool \in [Groups -> 0 .. MaxKeys] /\ OrderOf(pool, older)
  BY DEF Inv, TypeOK
<1>3. PooledIn(pool') = PooledIn(pool) \ G
  BY <1>1 DEF PooledIn
<1>4. OrderOf(pool', older')
  BY <1>1, <1>2, <1>3, DroppedOrder
<1>. QED BY <1>1, <1>2, <1>4, PoolAssumption DEF NoKey

LEMMA NewJobs ==
  /\ NoJob \in Job /\ NoJob.stage = "none"
  /\ \A stage \in {"creating", "listing", "writing"} :
       /\ [NoJob EXCEPT !.stage = stage] \in Job
       /\ [NoJob EXCEPT !.stage = stage].stage = stage
       /\ [NoJob EXCEPT !.stage = stage].page = 0
  BY DEF NoJob, Job

LEMMA EvictingJob ==
  ASSUME NEW victims \in SUBSET Groups, NEW order, NEW dirty \in BOOLEAN
  PROVE  /\ Evicting(victims, order, dirty) \in Job
         /\ Evicting(victims, order, dirty).stage = "evicting"
<1>1. Among(victims, order) \in SUBSET (Groups \X Groups)
  BY DEF Among
<1>. HIDE DEF Among
<1>. QED BY <1>1 DEF Evicting, NoJob, Job

LEMMA StartedEviction ==
  ASSUME NEW p, NEW order, NEW forced, NEW dirty \in BOOLEAN,
         \E idle, soft \in SUBSET Groups :
           job' = Evicting(Victims(p, forced, idle, soft), order, dirty)
  PROVE  job' \in Job /\ job'.stage = "evicting"
<1>1. \A idle, soft \in SUBSET Groups : Victims(p, forced, idle, soft) \in SUBSET Groups
  BY DEF Victims, PooledIn
<1>. QED BY <1>1, EvictingJob

LEMMA CleaningJob ==
  ASSUME NEW rest \in SUBSET Groups, CleanOn(rest)
  PROVE  job' \in Job /\ job'.stage \in {"writing", "cleaning"}
<1>1. NoJob \in Job
  BY NewJobs
<1>2. CASE job' = [NoJob EXCEPT !.stage = "writing"]
  BY <1>2, NewJobs
<1>3. ASSUME NEW g \in rest, NEW others, others = rest \ {g},
             job' = [NoJob EXCEPT !.stage = "cleaning", !.victim = g, !.victims = others]
      PROVE  job' \in Job /\ job'.stage = "cleaning"
  <2>1. g \in Groups /\ others \in SUBSET Groups
    BY <1>3
  <2>. QED BY <1>1, <1>3, <2>1 DEF Job
<1>. QED BY <1>2, <1>3 DEF CleanOn

(* evictLru is through: the operation writes the state, or ends.            *)
LEMMA WriteOrEndKeeps ==
  ASSUME Inv, queue # <<>>, AccountMoves, NEW dirty, WriteOrEnd(NoKey, dirty),
         UNCHANGED <<pool, older, disk, stopping>>
  PROVE  Inv'
<1>1. NoKey \in 0 .. MaxKeys
  BY PoolAssumption DEF NoKey
<1>2. CASE EndOp(NoKey)
  BY <1>1, <1>2, JobEnds DEF Inv, TypeOK
<1>3. CASE /\ job' = [NoJob EXCEPT !.stage = "writing"]
           /\ UNCHANGED <<creating, queue, calls, current>>
  <2>1. job' \in Job /\ job'.stage = "writing"
    BY <1>3, NewJobs
  <2>2. JobOk' /\ ListOk'
    BY <1>3, <2>1 DEF JobOk, ListOk
  <2>3. KeysOk'
    BY <1>3, KeysStay DEF Inv, TypeOK, KeysOk
  <2>. QED BY <1>3, <2>1, <2>2, <2>3, JobGoesOn DEF Inv, TypeOK
<1>. QED BY <1>2, <1>3 DEF WriteOrEnd

LEMMA StartOpKeeps ==
  ASSUME Inv, StartOp
  PROVE  Inv'
<1>. DEFINE op == Head(queue)
<1>1. /\ queue # <<>> /\ job.stage = "none"
      /\ UNCHANGED <<remote, made, disk, stopping>> /\ AccountMoves
  BY NothingMoves DEF StartOp
<1>2. /\ op.kind = "create" => op.group \in Groups
      /\ op.kind = "invalidate" => op.group \in Groups
      /\ op.kind \in {"create", "invalidate", "trim", "reconcile", "cleanup"}
      /\ NoKey \in 0 .. MaxKeys /\ pool \in [Groups -> 0 .. MaxKeys]
      /\ OrderOf(pool, older)
  BY <1>1, JobFacts, PoolAssumption DEF NoKey, Inv, TypeOK
<1>3. ASSUME UNCHANGED <<pool, older, creating, queue, calls, current>>, job' \in Job,
             job'.stage # "deleting",
             job'.stage = "creating" => op.kind = "create" /\ pool[op.group] = NoKey,
             job'.stage = "evicting" => op.kind = "trim",
             job'.stage = "listing" => job'.page = 0
      PROVE  Inv'
  <2>1. JobOk' /\ ListOk'
    BY <1>1, <1>3, NothingPassesAtFirst DEF JobOk
  <2>2. KeysOk'
    BY <1>1, <1>3, KeysStay DEF Inv, TypeOK, KeysOk
  <2>. QED BY <1>1, <1>3, <2>1, <2>2, JobGoesOn DEF Inv, TypeOK
<1>4. CASE op.kind = "create" /\ pool[op.group] # NoKey
  <2>1. Touch(op.group) /\ EndOp(pool[op.group]) /\ pool' = pool
    BY <1>4 DEF StartOp
  <2>2. PooledIn(pool) = PooledIn(pool) \cup {op.group}
    BY <1>2, <1>4 DEF PooledIn
  <2>3. OrderOf(pool, older')
    BY <1>2, <1>4, <2>1, <2>2, TouchedOrder DEF Touch, Pooled
  <2>4. pool[op.group] \in 0 .. MaxKeys
    BY <1>2, <1>4
  <2>. QED BY <1>1, <2>1, <2>3, <2>4, JobEnds
<1>5. CASE op.kind = "create" /\ pool[op.group] = NoKey
  <2>1. /\ job' = [NoJob EXCEPT !.stage = "creating"]
        /\ UNCHANGED <<pool, older, creating, queue, calls, current>>
    BY <1>5 DEF StartOp, poolVars
  <2>. QED BY <1>3, <1>5, <2>1, NewJobs
<1>6. CASE op.kind = "invalidate" /\ Invalidates(op)
  <2>1. /\ Drop({op.group}) /\ job' = [NoJob EXCEPT !.stage = "writing"]
        /\ UNCHANGED <<creating, queue, calls, current>>
    BY <1>6 DEF StartOp
  <2>2. /\ pool' \in [Groups -> 0 .. MaxKeys] /\ OrderOf(pool', older')
        /\ \A g \in Groups : pool'[g] \in {pool[g], NoKey}
    BY <2>1, DropKeeps
  <2>3. job' \in Job /\ job'.stage = "writing"
    BY <2>1, NewJobs
  <2>4. JobOk' /\ ListOk'
    BY <1>1, <2>1, <2>3 DEF JobOk, ListOk
  <2>5. KeysOk'
    BY <1>1, <2>1, <2>2, KeysStay DEF Inv, KeysOk
  <2>. QED BY <1>1, <2>1, <2>2, <2>3, <2>4, <2>5, JobGoesOn
<1>7. CASE op.kind = "invalidate" /\ ~Invalidates(op)
  <2>1. EndOp(NoKey) /\ pool' = pool /\ older' = older
    BY <1>7 DEF StartOp, poolVars
  <2>. QED BY <1>1, <1>2, <2>1, JobEnds
<1>8. CASE op.kind = "trim"
  <2>1. /\ StartEviction(pool, older, op.forced, FALSE)
        /\ UNCHANGED <<pool, older, creating, queue, calls, current>>
    BY <1>8 DEF StartOp, poolVars
  <2>2. job' \in Job /\ job'.stage = "evicting"
    BY <2>1, StartedEviction DEF StartEviction
  <2>. QED BY <1>3, <1>8, <2>1, <2>2
<1>9. CASE op.kind = "reconcile"
  <2>1. /\ job' = [NoJob EXCEPT !.stage = "listing"]
        /\ UNCHANGED <<pool, older, creating, queue, calls, current>>
    BY <1>9 DEF StartOp, poolVars
  <2>. QED BY <1>3, <2>1, NewJobs
<1>10. CASE op.kind = "cleanup"
  <2>1. /\ CleanOn(Pooled)
        /\ UNCHANGED <<pool, older, creating, queue, calls, current>>
    BY <1>10 DEF StartOp, poolVars
  <2>2. Pooled \in SUBSET Groups
    BY DEF Pooled, PooledIn
  <2>3. job' \in Job /\ job'.stage \in {"writing", "cleaning"}
    BY <2>1, <2>2, CleaningJob
  <2>. QED BY <1>3, <2>1, <2>3
<1>. QED
  BY <1>2, <1>4, <1>5, <1>6, <1>7, <1>8, <1>9, <1>10

(* The check made again before a delete covers every call of a request.     *)
LEMMA UnprotectedUnwanted ==
  ASSUME Inv, NEW g \in Groups, ~HardProtected(g), NEW c \in Clients
  PROVE  calls[c].group # g
<1>1. g \notin Reserved /\ g \notin Active
  BY DEF HardProtected
<1>2. c # Daemon /\ calls[c] \in Call /\ CallOk(c, calls[c])
  BY PoolAssumption DEF Inv, TypeOK, CallsOk, Callers
<1>3. calls[c].group = g =>
        calls[c].phase \notin {"waiting", "joining", "holding", "using", "dropping"}
  BY <1>1 DEF Reserved, Active
<1>. QED BY <1>2, <1>3, PoolAssumption DEF CallOk, Call

LEMMA EvictNextKeeps ==
  ASSUME Inv, EvictNext
  PROVE  Inv'
<1>. DEFINE forced == Head(queue).forced
<1>1. /\ job.stage = "evicting" /\ queue # <<>> /\ job \in Job
      /\ UNCHANGED <<pool, older, remote, made, disk, stopping>> /\ AccountMoves
  BY NothingMoves DEF EvictNext, poolVars, Inv, TypeOK, JobOk
<1>2. CASE WriteOrEnd(NoKey, job.dirty)
  BY <1>1, <1>2, WriteOrEndKeeps
<1>3. CASE \E soft \in SUBSET Groups, g \in job.victims :
             /\ Deletable(g, forced, soft)
             /\ job' = [Evicting({h \in job.victims : <<g, h>> \in job.order},
                                  job.order, job.dirty)
                          EXCEPT !.stage = "deleting", !.victim = g]
             /\ UNCHANGED <<creating, queue, calls, current>>
  <2>1. PICK soft \in SUBSET Groups, g \in job.victims :
             /\ Deletable(g, forced, soft)
             /\ job' = [Evicting({h \in job.victims : <<g, h>> \in job.order},
                                  job.order, job.dirty)
                          EXCEPT !.stage = "deleting", !.victim = g]
             /\ UNCHANGED <<creating, queue, calls, current>>
    BY <1>3
  <2>2. g \in Groups /\ job.dirty \in BOOLEAN
        /\ {h \in job.victims : <<g, h>> \in job.order} \in SUBSET Groups
    BY <1>1 DEF Job
  <2>3. Evicting({h \in job.victims : <<g, h>> \in job.order}, job.order, job.dirty) \in Job
    BY <2>2, EvictingJob
  <2>4. job' \in Job /\ job'.stage = "deleting" /\ job'.victim = g
    BY <2>1, <2>2, <2>3 DEF Job
  <2>5. Spared(g)
    <3>1. ~HardProtected(g)
      BY <2>1 DEF Deletable
    <3>2. \A c \in Clients : calls[c].group # g
      BY <2>2, <3>1, UnprotectedUnwanted
    <3>3. g # current /\ g \notin creating
      BY <3>1 DEF HardProtected
    <3>. QED BY <2>2, <3>2, <3>3 DEF Spared
  <2>6. JobOk' /\ ListOk'
    BY <1>1, <2>1, <2>4, <2>5 DEF Inv, JobOk, ListOk, Spared, Ready
  <2>7. KeysOk'
    BY <1>1, <2>1, KeysStay DEF Inv, TypeOK, KeysOk
  <2>. QED BY <1>1, <2>1, <2>4, <2>6, <2>7, JobGoesOn DEF Inv, TypeOK
<1>4. WriteOrEnd(NoKey, job.dirty) \/
        \E soft \in SUBSET Groups, g \in job.victims :
             /\ Deletable(g, forced, soft)
             /\ job' = [Evicting({h \in job.victims : <<g, h>> \in job.order},
                                  job.order, job.dirty)
                          EXCEPT !.stage = "deleting", !.victim = g]
             /\ UNCHANGED <<creating, queue, calls, current>>
  BY DEF EvictNext
<1>. QED BY <1>2, <1>3, <1>4

LEMMA DeleteKeeps ==
  ASSUME Inv, DeleteReturns \/ DeleteFails
  PROVE  Inv'
<1>1. /\ job.stage = "deleting" /\ queue # <<>> /\ job \in Job /\ job.victim \in Groups
      /\ UNCHANGED <<made, disk, stopping>> /\ remote' \subseteq remote
  BY DEF DeleteReturns, DeleteFails, Inv, TypeOK, JobOk, Spared
<1>2. AccountMoves
  BY <1>1 DEF Inv, TypeOK, AccountMoves
<1>3. CASE DeleteReturns
  <2>1. /\ Drop({job.victim}) /\ UNCHANGED <<creating, queue, calls, current>>
        /\ job' = [job EXCEPT !.stage = "evicting", !.victim = NoGroup, !.dirty = TRUE]
    BY <1>3 DEF DeleteReturns
  <2>2. /\ pool' \in [Groups -> 0 .. MaxKeys] /\ OrderOf(pool', older')
        /\ \A g \in Groups : pool'[g] \in {pool[g], NoKey}
    BY <2>1, DropKeeps
  <2>3. job' \in Job /\ job'.stage = "evicting"
    BY <1>1, <2>1 DEF Job
  <2>4. JobOk' /\ ListOk'
    BY <1>1, <2>1, <2>3 DEF Inv, JobOk, ListOk, Ready
  <2>5. KeysOk'
    BY <1>1, <1>2, <2>1, <2>2, KeysStay DEF Inv, KeysOk
  <2>. QED BY <1>1, <1>2, <2>1, <2>2, <2>3, <2>4, <2>5, JobGoesOn
<1>4. CASE DeleteFails
  <2>1. WriteOrEnd(NoKey, job.dirty) /\ UNCHANGED <<pool, older>>
    BY <1>4 DEF DeleteFails, poolVars
  <2>. QED BY <1>1, <1>2, <2>1, WriteOrEndKeeps
<1>. QED BY <1>3, <1>4

LEMMA CreateReturnsKeeps ==
  ASSUME Inv, CreateReturns
  PROVE  Inv'
<1>. DEFINE g == Head(queue).group
<1>1. /\ job.stage = "creating" /\ Settled /\ made < MaxKeys /\ made' = made + 1
      /\ remote' = remote \cup {made'} /\ Record(g, made')
      /\ StartEviction(pool', older', {}, TRUE)
      /\ UNCHANGED <<creating, queue, calls, current, disk, stopping>>
  BY DEF CreateReturns
<1>2. /\ queue # <<>> /\ g \in Groups /\ made \in Nat /\ MaxKeys \in Nat
      /\ pool \in [Groups -> 0 .. MaxKeys] /\ disk.pool \in [Groups -> 0 .. MaxKeys]
      /\ OrderOf(pool, older) /\ remote \subseteq Keys
  BY <1>1, JobFacts, PoolAssumption DEF Inv, TypeOK, JobOk
<1>3. AccountMoves
  BY <1>1, <1>2 DEF AccountMoves, Keys
<1>4. pool' = [pool EXCEPT ![g] = made'] /\ Touch(g)
  BY <1>1 DEF Record
<1>5. pool' \in [Groups -> 0 .. MaxKeys] /\ OrderOf(pool', older')
  <2>1. PooledIn(pool') = PooledIn(pool) \cup {g}
    BY <1>1, <1>2, <1>4 DEF PooledIn, NoKey
  <2>2. pool' \in [Groups -> 0 .. MaxKeys]
    BY <1>1, <1>2, <1>4
  <2>3. OrderOf(pool', older')
    BY <1>2, <1>4, <2>1, TouchedOrder DEF Touch, Pooled
  <2>. QED BY <2>2, <2>3
<1>6. KeysOk'
  <2>1. \A h \in Groups : pool'[h] = IF h = g THEN made + 1 ELSE pool[h]
    BY <1>1, <1>2, <1>4
  <2>2. Distinct(pool)'
    BY <1>1, <1>2, <2>1 DEF Inv, KeysOk, Distinct
  <2>3. Distinct(disk.pool)'
    BY <1>1, <1>2 DEF Inv, KeysOk, Distinct
  <2>4. ASSUME NEW c \in Callers PROVE Holds(calls'[c], pool', made')
    BY <1>1, <1>2, <2>1 DEF Inv, KeysOk, Holds
  <2>. QED BY <2>2, <2>3, <2>4 DEF KeysOk
<1>7. job' \in Job /\ job'.stage = "evicting"
  BY <1>1, StartedEviction DEF StartEviction
<1>8. JobOk' /\ ListOk'
  BY <1>1, <1>2, <1>7 DEF JobOk, ListOk, Settled, Ready
<1>. QED BY <1>1, <1>3, <1>5, <1>6, <1>7, <1>8, JobGoesOn

(* The next page takes in the keys it passes.                               *)
LEMMA ListPageKeeps ==
  ASSUME Inv, ListPage
  PROVE  Inv'
<1>1. /\ job.stage = "listing" /\ job \in Job
      /\ job' = [job EXCEPT !.page = job.page + 1,
                           !.listed = job.listed \cup PageOf(job.page)]
      /\ UNCHANGED <<pool, older, remote, made, creating, queue, calls, current, disk,
                     stopping>>
  BY DEF ListPage, poolVars, Inv, TypeOK
<1>2. PICK page \in Nat, listed \in SUBSET Keys :
        /\ page = job.page + 1 /\ listed = job.listed \cup PageOf(job.page)
        /\ job' = [job EXCEPT !.page = page, !.listed = listed]
  <2>. DEFINE page == job.page + 1
              listed == job.listed \cup PageOf(job.page)
  <2>1. PageOf(job.page) \in SUBSET Keys
    BY DEF PageOf, Inv, TypeOK
  <2>2. page \in Nat /\ listed \in SUBSET Keys
    BY <1>1, <2>1 DEF Job
  <2>3. job' = [job EXCEPT !.page = page, !.listed = listed]
    BY <1>1
  <2>4. page = job.page + 1 /\ listed = job.listed \cup PageOf(job.page)
    OBVIOUS
  <2>. HIDE DEF page, listed
  <2>. QED BY <2>2, <2>3, <2>4
<1>3. /\ job' \in Job /\ job'.stage = job.stage /\ job'.torn = job.torn
      /\ job'.page = job.page + 1 /\ job'.listed = job.listed \cup PageOf(job.page)
  <2>1. /\ job' \in Job /\ job'.stage = job.stage /\ job'.torn = job.torn
        /\ job'.page = page /\ job'.listed = listed
    BY <1>1, <1>2 DEF Job
  <2>. QED BY <1>2, <2>1
<1>4. AccountMoves /\ KeysOk' /\ JobOk'
  BY <1>1, <1>3, NothingMoves DEF Inv, KeysOk, JobOk, Distinct
<1>5. ListOk'
  <2>. SUFFICES ASSUME ~job.torn, NEW g \in Groups, pool[g] \in remote, Passed(pool[g])'
                PROVE  pool[g] \in job.listed \cup PageOf(job.page)
    BY <1>1, <1>3 DEF ListOk
  <2>1. Cardinality(Newer(pool[g])) < (job.page + 1) * PageSize
    BY <1>1, <1>3 DEF Passed, Newer
  <2>2. CASE Passed(pool[g])
    BY <1>1, <2>2 DEF Inv, ListOk
  <2>3. CASE ~Passed(pool[g])
    <3>1. job.page * PageSize <= Cardinality(Newer(pool[g]))
      BY <1>1, <2>3, NewerFacts, PoolAssumption DEF Passed, Job
    <3>. QED BY <2>1, <3>1 DEF PageOf
  <2>. QED BY <2>2, <2>3
<1>. QED BY <1>1, <1>3, <1>4, <1>5, JobGoesOn DEF Inv, TypeOK

LEMMA ReconcileKeeps ==
  ASSUME Inv, job.stage = "listing", Settled, NEW keys, Reconcile(keys)
  PROVE  Inv'
<1>. DEFINE gone == {g \in Pooled : pool[g] \notin keys}
<1>1. /\ Drop(gone) /\ StartEviction(pool', older', {}, TRUE)
      /\ UNCHANGED <<remote, made, creating, queue, calls, current, disk, stopping>>
  BY DEF Reconcile
<1>2. AccountMoves /\ queue # <<>>
  BY <1>1, NothingMoves DEF Inv, JobOk
<1>3. /\ pool' \in [Groups -> 0 .. MaxKeys] /\ OrderOf(pool', older')
      /\ \A g \in Groups : pool'[g] \in {pool[g], NoKey}
  BY <1>1, DropKeeps
<1>4. job' \in Job /\ job'.stage = "evicting"
  BY <1>1, StartedEviction DEF StartEviction
<1>5. JobOk' /\ ListOk'
  BY <1>1, <1>2, <1>4 DEF JobOk, ListOk, Settled, Ready
<1>6. KeysOk'
  BY <1>1, <1>2, <1>3, KeysStay DEF Inv, KeysOk
<1>. QED BY <1>1, <1>2, <1>3, <1>4, <1>5, <1>6, JobGoesOn

(* A listing whose pages lost no key ends with every key of the pool that   *)
(* the account has.                                                         *)
LEMMA ListingIsComplete ==
  ASSUME Inv, job.stage = "listing", ~job.torn, LastPage(job.page),
         NEW g \in Groups, pool[g] \in remote
  PROVE  pool[g] \in job.listed \cup PageOf(job.page)
<1>. DEFINE m == pool[g]
<1>1. /\ Cardinality(Newer(m)) \in Nat /\ PageSize \in Nat /\ job.page \in Nat
      /\ IsFiniteSet(Newer(m))
  BY NewerFacts, PoolAssumption DEF Inv, TypeOK, Job
<1>2. Cardinality(Newer(m)) < (job.page + 1) * PageSize
  <2>1. remote \subseteq 1 .. MaxKeys /\ IsFiniteSet(1 .. MaxKeys)
    BY FS_Interval, PoolAssumption DEF Inv, TypeOK, Keys
  <2>2. IsFiniteSet(remote) /\ Cardinality(remote) \in Nat
    BY <2>1, FS_Subset, FS_CardinalityType
  <2>3. m \notin Newer(m) /\ Newer(m) \cup {m} \subseteq remote
    <3>1. m \in Int
      BY PoolAssumption DEF Inv, TypeOK, Keys
    <3>2. ~(m > m)
      BY <3>1
    <3>. QED BY <3>2 DEF Newer
  <2>4. Cardinality(Newer(m) \cup {m}) = Cardinality(Newer(m)) + 1
    BY <1>1, <2>3, FS_AddElement
  <2>5. Cardinality(Newer(m) \cup {m}) <= Cardinality(remote)
    BY <2>2, <2>3, FS_Subset
  <2>6. Cardinality(remote) <= (job.page + 1) * PageSize
    BY DEF LastPage
  <2>. QED BY <1>1, <2>2, <2>4, <2>5, <2>6
<1>3. CASE Passed(m)
  BY <1>3 DEF Inv, ListOk
<1>4. CASE ~Passed(m)
  <2>1. job.page * PageSize <= Cardinality(Newer(m))
    BY <1>1, <1>4 DEF Passed
  <2>. QED BY <1>2, <2>1 DEF PageOf
<1>. QED BY <1>3, <1>4

LEMMA CleanKeeps ==
  ASSUME Inv, CleanReturns \/ CleanFails
  PROVE  Inv'
<1>1. /\ job.stage = "cleaning" /\ queue # <<>> /\ CleanOn(job.victims)
      /\ job.victims \in SUBSET Groups /\ remote' \subseteq remote
      /\ UNCHANGED <<made, creating, queue, calls, current, disk, stopping>>
  BY DEF CleanReturns, CleanFails, Inv, TypeOK, JobOk, Job
<1>2. AccountMoves
  BY <1>1 DEF Inv, TypeOK, AccountMoves
<1>3. /\ pool' \in [Groups -> 0 .. MaxKeys] /\ OrderOf(pool', older')
      /\ \A g \in Groups : pool'[g] \in {pool[g], NoKey}
  <2>1. CASE Drop({job.victim})
    BY <2>1, DropKeeps
  <2>2. CASE UNCHANGED <<pool, older>>
    BY <2>2 DEF Inv, TypeOK
  <2>. QED BY <2>1, <2>2 DEF CleanReturns, CleanFails, poolVars
<1>4. job' \in Job /\ job'.stage \in {"writing", "cleaning"}
  BY <1>1, CleaningJob
<1>5. JobOk' /\ ListOk'
  BY <1>1, <1>4 DEF JobOk, ListOk
<1>6. KeysOk'
  BY <1>1, <1>2, <1>3, KeysStay DEF Inv, KeysOk
<1>. QED BY <1>1, <1>2, <1>3, <1>4, <1>5, <1>6, JobGoesOn

(* The answers that end the operation.                                      *)
LEMMA EndingsKeep ==
  ASSUME Inv, CreateFails \/ ListFails \/ Written \/ WriteFails
  PROVE  Inv'
<1>1. /\ queue # <<>> /\ UNCHANGED <<pool, older, stopping>> /\ NoKey \in 0 .. MaxKeys
      /\ OrderOf(pool, older) /\ disk' \in {disk, State}
  BY PoolAssumption
  DEF CreateFails, ListFails, Written, WriteFails, poolVars, Inv, TypeOK, JobOk, NoKey
<1>2. AccountMoves
  <2>1. CASE UNCHANGED <<remote, made>>
    BY <2>1, NothingMoves
  <2>2. CASE made < MaxKeys /\ made' = made + 1 /\ remote' = remote \cup {made'}
    BY <2>2, PoolAssumption DEF Inv, TypeOK, AccountMoves, Keys
  <2>. QED BY <2>1, <2>2 DEF CreateFails, ListFails, Written, WriteFails
<1>3. CASE EndOp(NoKey)
  BY <1>1, <1>2, <1>3, JobEnds
<1>4. CASE /\ Head(queue).kind = "create" /\ EndOp(pool[Head(queue).group])
  <2>1. pool[Head(queue).group] \in 0 .. MaxKeys
    BY <1>1, <1>4, JobFacts DEF Inv, TypeOK
  <2>. QED BY <1>1, <1>2, <1>4, <2>1, JobEnds
<1>5. \/ EndOp(NoKey)
      \/ Head(queue).kind = "create" /\ EndOp(pool[Head(queue).group])
  <2>1. CASE Written
    <3>1. CASE Head(queue).kind = "create"
      BY <2>1, <3>1 DEF Written
    <3>2. CASE Head(queue).kind # "create"
      BY <2>1, <3>2 DEF Written
    <3>. QED BY <3>1, <3>2
  <2>2. CASE CreateFails \/ ListFails \/ WriteFails
    BY <2>2 DEF CreateFails, ListFails, WriteFails
  <2>. QED BY <2>1, <2>2
<1>. QED BY <1>3, <1>4, <1>5

-----------------------------------------------------------------------------
(* The theorems.                                                            *)

LEMMA InitInv == Init => Inv
<1>. SUFFICES ASSUME Init PROVE Inv
  OBVIOUS
<1>1. NoCall \in Call /\ NoCall.phase = "none" /\ NoCall.group = NoGroup
  BY PoolAssumption DEF NoCall, Call, NoKey
<1>2. TypeOK
  <2>1. pool \in [Groups -> 0 .. MaxKeys] /\ OrderOf(pool, older)
    BY PoolAssumption DEF Init, OrderOf, PooledIn, NoKey
  <2>2. calls \in [Callers -> Call] /\ queue \in Seq(Operation) /\ job \in Job
    BY <1>1, NewJobs DEF Init
  <2>3. /\ disk.pool \in [Groups -> 0 .. MaxKeys] /\ OrderOf(disk.pool, disk.older)
        /\ disk.current \in Groups \cup {NoGroup}
    BY <2>1 DEF Init, State
  <2>4. remote \subseteq Keys /\ made \in 0 .. MaxKeys
    BY PoolAssumption DEF Init
  <2>. QED BY <2>1, <2>2, <2>3, <2>4 DEF Init, TypeOK
<1>3. CallsOk
  BY <1>1 DEF Init, CallsOk, CallOk
<1>4. KeysOk
  BY <1>1, PoolAssumption DEF Init, KeysOk, Distinct, Holds, State, NoKey
<1>5. QueueOk
  BY DEF Init, QueueOk
<1>6. JobOk
  BY DEF Init, JobOk, NoJob
<1>7. ListOk
  BY DEF Init, ListOk, NoJob
<1>. QED BY <1>2, <1>3, <1>4, <1>5, <1>6, <1>7 DEF Inv

LEMMA NextInv == Inv /\ [Next]_vars => Inv'
<1>. SUFFICES ASSUME Inv, [Next]_vars PROVE Inv'
  OBVIOUS
<1>1. CASE \E c \in Clients, g \in Groups : AcquireKey(c, g)
  BY <1>1, EnsureKeyKeeps DEF AcquireKey, Callers
<1>2. CASE \E g \in Groups : SwitchTo(g)
  BY <1>2, EnsureKeyKeeps DEF SwitchTo, Callers
<1>3. CASE (\E c \in Clients : Use(c) \/ Done(c)) \/ SwitchSaved
  BY <1>3, UseDoneSavedKeep
<1>4. CASE \E c \in Clients : InvalidatePoolKey(c)
  BY <1>4, InvalidateKeeps
<1>5. CASE (\E forced \in SUBSET Groups : TrimPool(forced)) \/ Shutdown
  BY <1>5, TrimOrShutdownKeeps
<1>6. CASE \E c \in Callers : Resume(c)
  BY <1>6, ResumeKeeps
<1>7. CASE StartOp
  BY <1>7, StartOpKeeps
<1>8. CASE EvictNext
  BY <1>8, EvictNextKeeps
<1>9. CASE DeleteReturns \/ DeleteFails
  BY <1>9, DeleteKeeps
<1>10. CASE CreateReturns
  BY <1>10, CreateReturnsKeeps
<1>11. CASE ListPage \/ ListReturns \/ ListCutShort
  BY <1>11, ListPageKeeps, ReconcileKeeps DEF ListReturns, ListCutShort
<1>12. CASE CleanReturns \/ CleanFails
  BY <1>12, CleanKeeps
<1>13. CASE CreateFails \/ ListFails \/ Written \/ WriteFails
  BY <1>13, EndingsKeep
<1>14. CASE (\E k \in Keys : Revoke(k)) \/ CreatedElsewhere
  BY <1>14, RevokeKeeps, CreatedElsewhereKeeps
<1>15. CASE Restart \/ Exit
  BY <1>15, StartKeeps DEF Restart, Exit
<1>16. CASE UNCHANGED vars
  <2>1. /\ UNCHANGED <<pool, older, remote, made, creating, queue, job, calls, current,
                       disk, stopping>>
        /\ AccountMoves
    BY <1>16, NothingMoves DEF vars
  <2>2. KeysOk' /\ JobOk' /\ ListOk'
    BY <2>1 DEF Inv, KeysOk, JobOk, ListOk, Passed, Newer, Distinct, Spared, Ready
  <2>. QED BY <2>1, <2>2, JobGoesOn DEF Inv, TypeOK
<1>. QED
  BY <1>1, <1>2, <1>3, <1>4, <1>5, <1>6, <1>7, <1>8, <1>9, <1>10, <1>11, <1>12, <1>13,
     <1>14, <1>15, <1>16
  DEF Next, Internal, JobAnswer, Surroundings

(* The inductive invariant: whatever requests, rounds, failures, lost       *)
(* answers, revoked keys and restarts do, the chain, its callers, the keys  *)
(* and the running operation fit together.                                  *)
THEOREM Invariant == Spec => []Inv
  BY InitInv, NextInv, PTL DEF Spec

(* Every variable of the pool keeps its type, and the order of use remains  *)
(* a strict order of the groups that have a key, live and in the file.      *)
THEOREM TypesHold == Spec => []TypeOK
<1>1. Inv => TypeOK
  BY DEF Inv
<1>. QED BY <1>1, Invariant, PTL

(* While a key is being deleted to make room, no request holds or uses it,  *)
(* and it is not the key of the current group: for any number of requests   *)
(* and groups, whatever arrives during the delete.                          *)
THEOREM KeysInUseStay == Spec => []DeletesNoKeyInUse
<1>1. Inv => DeletesNoKeyInUse
  <2>. SUFFICES ASSUME Inv, job.stage = "deleting"
                PROVE  /\ job.victim # current
                       /\ \A c \in Clients :
                            calls[c].phase \in {"holding", "using", "dropping"}
                            => calls[c].key # pool[job.victim]
    BY DEF DeletesNoKeyInUse
  <2>1. Spared(job.victim)
    BY DEF Inv, JobOk
  <2>2. ASSUME NEW c \in Clients, calls[c].phase \in {"holding", "using", "dropping"}
        PROVE  calls[c].key # pool[job.victim]
    <3>1. Holds(calls[c], pool, made)
      BY DEF Inv, KeysOk, Callers
    <3>. QED BY <2>1, <2>2, <3>1 DEF Holds, Spared
  <2>. QED BY <2>1, <2>2 DEF Spared
<1>. QED BY <1>1, Invariant, PTL

(* The creating map is exactly the creations queued or running, and no      *)
(* group ever has two of them.                                              *)
THEOREM CreationsAreSingle == Spec => []SingleFlight
<1>1. Inv => SingleFlight
  <2>. SUFFICES ASSUME Inv, NEW g \in Groups
                PROVE  LET creations == {i \in DOMAIN queue :
                                           queue[i].kind = "create" /\ queue[i].group = g}
                       IN  Cardinality(creations) = IF g \in creating THEN 1 ELSE 0
    BY DEF SingleFlight
  <2>. DEFINE creations == {i \in DOMAIN queue :
                              queue[i].kind = "create" /\ queue[i].group = g}
  <2>1. CASE g \in creating
    <3>1. PICK i \in DOMAIN queue : queue[i].kind = "create" /\ queue[i].group = g
      BY <2>1 DEF Inv, QueueOk
    <3>2. creations = {i}
      BY <3>1 DEF Inv, QueueOk, Same
    <3>. QED BY <2>1, <3>2, FS_Singleton
  <2>2. CASE g \notin creating
    <3>1. creations = {}
      BY <2>2 DEF Inv, QueueOk, OpOk
    <3>. QED BY <2>2, <3>1, FS_EmptySet
  <2>. QED BY <2>1, <2>2
<1>. QED BY <1>1, Invariant, PTL

(* Only the eviction loop begins to delete, and then for a group that no    *)
(* request has to do with.                                                  *)
LEMMA DeletesBegin ==
  ASSUME Inv, [Next]_vars, job.stage # "deleting", job'.stage = "deleting"
  PROVE  \A c \in Clients : calls[c].group # job'.victim
<1>1. NoJob.stage = "none" /\ [NoJob EXCEPT !.stage = "writing"].stage = "writing"
  BY NewJobs
<1>2. CASE EvictNext
  <2>1. /\ job \in Job /\ job.stage = "evicting"
    BY <1>2 DEF EvictNext, Inv, TypeOK
  <2>2. ~WriteOrEnd(NoKey, job.dirty)
    BY <1>1 DEF WriteOrEnd, EndOp
  <2>3. PICK soft \in SUBSET Groups, g \in job.victims :
          /\ Deletable(g, Head(queue).forced, soft)
          /\ job' = [Evicting({h \in job.victims : <<g, h>> \in job.order},
                               job.order, job.dirty)
                       EXCEPT !.stage = "deleting", !.victim = g]
    BY <1>2, <2>2 DEF EvictNext
  <2>4. g \in Groups /\ ~HardProtected(g)
    BY <2>1, <2>3 DEF Job, Deletable
  <2>5. job'.victim = g
    <3>1. Evicting({h \in job.victims : <<g, h>> \in job.order}, job.order, job.dirty) \in Job
      BY <2>1, EvictingJob DEF Job
    <3>. QED BY <2>3, <3>1 DEF Job
  <2>. QED BY <2>4, <2>5, UnprotectedUnwanted
<1>3. ASSUME UNCHANGED job PROVE FALSE
  BY <1>3
<1>4. ASSUME job'.stage \in {"none", "creating", "listing", "evicting", "cleaning", "writing"}
      PROVE  FALSE
  BY <1>4
<1>5. ASSUME NEW key, EndOp(key) PROVE FALSE
  BY <1>1, <1>5 DEF EndOp
<1>6. ASSUME NEW G \in SUBSET Groups, CleanOn(G) PROVE FALSE
  BY <1>4, <1>6, CleaningJob
<1>7. ASSUME NEW p, NEW order, NEW forced, NEW dirty \in BOOLEAN,
             \E idle, soft \in SUBSET Groups :
               job' = Evicting(Victims(p, forced, idle, soft), order, dirty)
      PROVE  FALSE
  BY <1>4, <1>7, StartedEviction
<1>8. CASE \/ \E c \in Clients :
                \/ \E g \in Groups : AcquireKey(c, g)
                \/ Use(c) \/ Done(c) \/ InvalidatePoolKey(c)
           \/ \E g \in Groups : SwitchTo(g)
           \/ \E forced \in SUBSET Groups : TrimPool(forced)
           \/ \E c \in Callers : Resume(c)
           \/ SwitchSaved \/ Shutdown \/ CreatedElsewhere
           \/ UNCHANGED vars
  BY <1>3, <1>8
  DEF AcquireKey, SwitchTo, EnsureKey, Use, Done, InvalidatePoolKey, TrimPool, Resume,
      SwitchSaved, Shutdown, CreatedElsewhere, opVars, vars
<1>9. CASE StartOp
  <2>1. Head(queue).kind \in {"create", "invalidate", "trim", "reconcile", "cleanup"}
    BY <1>9, JobFacts DEF StartOp
  <2>2. CASE Head(queue).kind \in {"create", "invalidate", "reconcile"}
    BY <1>1, <1>4, <1>5, <1>9, <2>2, NewJobs DEF StartOp
  <2>3. CASE Head(queue).kind = "trim"
    BY <1>7, <1>9, <2>3 DEF StartOp, StartEviction
  <2>4. CASE Head(queue).kind = "cleanup"
    <3>1. Pooled \in SUBSET Groups
      BY DEF Pooled, PooledIn
    <3>. QED BY <1>6, <1>9, <2>4, <3>1 DEF StartOp
  <2>. QED BY <2>1, <2>2, <2>3, <2>4
<1>10. CASE CreateReturns \/ ListReturns \/ ListCutShort
  BY <1>7, <1>10 DEF CreateReturns, ListReturns, ListCutShort, Reconcile, StartEviction
<1>15. CASE (\E k \in Keys : Revoke(k)) \/ ListPage
  <2>1. job'.stage = job.stage
    <3>1. CASE \E k \in Keys : Revoke(k)
      <4>1. [job EXCEPT !.torn = TRUE].stage = job.stage
        BY DEF Inv, TypeOK, Job
      <4>. QED BY <3>1, <4>1 DEF Revoke
    <3>2. CASE ListPage
      <4>. DEFINE listed == job.listed \cup PageOf(job.page)
      <4>1. job' = [job EXCEPT !.page = job.page + 1, !.listed = listed]
        BY <3>2 DEF ListPage
      <4>. HIDE DEF listed
      <4>. QED BY <4>1 DEF Inv, TypeOK, Job
    <3>. QED BY <1>15, <3>1, <3>2
  <2>. QED BY <2>1
<1>11. CASE DeleteReturns \/ DeleteFails
  BY <1>11 DEF DeleteReturns, DeleteFails
<1>12. CASE CleanReturns \/ CleanFails
  BY <1>6, <1>12 DEF CleanReturns, CleanFails, Inv, TypeOK, Job
<1>13. CASE CreateFails \/ ListFails \/ Written \/ WriteFails
  BY <1>5, <1>13 DEF CreateFails, ListFails, Written, WriteFails
<1>14. CASE Restart \/ Exit
  BY <1>1, <1>4, <1>14 DEF Restart, Exit, StartFrom
<1>. QED
  BY <1>2, <1>8, <1>9, <1>10, <1>11, <1>12, <1>13, <1>14, <1>15
  DEF Next, Internal, JobAnswer, Surroundings

(* No delete starts for a group that a request waits for, or holds or uses  *)
(* a key of: the check made again after the snapshot of the victims is      *)
(* enough.                                                                  *)
THEOREM WantedKeysStay == Spec => DeletesNoKeyWanted
<1>1. Inv /\ [Next]_vars =>
        [job.stage # "deleting" /\ job'.stage = "deleting" =>
           \A c \in Clients : calls[c].phase # "none" => calls[c].group # job'.victim]_vars
  BY DeletesBegin
<1>. QED
  BY <1>1, Invariant, PTL DEF Spec, DeletesNoKeyWanted

(* A record goes with a key that was refused to the request that has it, or *)
(* that was deleted, or that a complete listing does not have.              *)
Cause(g) ==
  \/ pool[g] \notin remote'
  \/ \E c \in Clients : calls[c].phase = "dropping" /\ calls[c].key = pool[g]
  \/ job.torn \/ ListCutShort
  \/ Restart

LEMMA RecordsGo ==
  ASSUME Inv, [Next]_vars, NEW g \in Groups, pool[g] # NoKey, pool'[g] # pool[g]
  PROVE  Cause(g)
<1>1. pool' # pool
  OBVIOUS
<1>2. CASE StartOp
  <2>1. /\ Head(queue).kind = "invalidate" /\ Invalidates(Head(queue))
        /\ Drop({Head(queue).group}) /\ queue # <<>> /\ remote' = remote
    <3>1. /\ Head(queue).kind \in {"create", "invalidate", "trim", "reconcile", "cleanup"}
          /\ queue # <<>>
      BY <1>2, JobFacts DEF StartOp
    <3>. QED BY <1>1, <1>2, <3>1 DEF StartOp, poolVars
  <2>2. g = Head(queue).group
    BY <2>1, DropKeeps
  <2>. QED BY <2>1, <2>2, JobFacts DEF Invalidates, Cause
<1>3. CASE DeleteReturns \/ CleanReturns
  <2>1. Drop({job.victim}) /\ remote' = remote \ {pool[job.victim]}
    BY <1>3 DEF DeleteReturns, CleanReturns
  <2>2. g = job.victim
    BY <2>1, DropKeeps
  <2>. QED BY <2>1, <2>2 DEF Cause
<1>4. CASE CreateReturns
  <2>1. /\ queue # <<>> /\ pool[Head(queue).group] = NoKey
        /\ pool' = [pool EXCEPT ![Head(queue).group] = made']
    BY <1>4 DEF CreateReturns, Record, Inv, JobOk
  <2>. QED BY <2>1 DEF Inv, TypeOK
<1>5. CASE ListReturns
  <2>1. /\ Drop({h \in Pooled : pool[h] \notin job.listed \cup PageOf(job.page)})
        /\ job.stage = "listing" /\ LastPage(job.page) /\ remote' = remote
    BY <1>5 DEF ListReturns, Reconcile
  <2>2. pool[g] \notin job.listed \cup PageOf(job.page)
    BY <2>1, DropKeeps
  <2>. QED BY <2>1, <2>2, ListingIsComplete DEF Cause
<1>6. CASE Exit
  BY <1>1, <1>6 DEF Exit, StartFrom, State
<1>7. CASE \/ \E c \in Callers : Resume(c)
           \/ SwitchSaved \/ Shutdown \/ EvictNext
           \/ DeleteFails \/ CleanFails \/ ListPage
           \/ CreateFails \/ ListFails \/ Written \/ WriteFails
           \/ UNCHANGED vars
  BY <1>1, <1>7
  DEF Resume, SwitchSaved, Shutdown, EvictNext, DeleteFails, CleanFails, ListPage,
      CreateFails, ListFails, Written, WriteFails, poolVars, vars
<1>8. CASE \/ \E c \in Clients :
                \/ \E h \in Groups : AcquireKey(c, h)
                \/ Use(c) \/ Done(c) \/ InvalidatePoolKey(c)
           \/ \E h \in Groups : SwitchTo(h)
           \/ \E forced \in SUBSET Groups : TrimPool(forced)
           \/ (\E k \in Keys : Revoke(k)) \/ CreatedElsewhere
  BY <1>1, <1>8
  DEF AcquireKey, SwitchTo, EnsureKey, Use, Done, InvalidatePoolKey, TrimPool, Revoke,
      CreatedElsewhere, poolVars
<1>9. CASE Restart \/ ListCutShort
  BY <1>9 DEF Cause
<1>. QED
  BY <1>2, <1>3, <1>4, <1>5, <1>6, <1>7, <1>8, <1>9
  DEF Next, Internal, JobAnswer, Surroundings

(* Whatever requests, rounds, failures and changes of the account do, a     *)
(* record leaves the pool only when its key is gone, was refused to a       *)
(* request that uses this key, escaped a listing from whose pages a key was *)
(* deleted meanwhile or which was cut short, or is not in the file that a   *)
(* new process starts from.                                                 *)
THEOREM RecordsGoForCause == Spec => RecordsLeaveForCause
<1>1. Inv /\ [Next]_vars =>
        [\A g \in Groups : pool[g] # NoKey /\ pool'[g] # pool[g] => Cause(g)]_vars
  BY RecordsGo
<1>. QED
  BY <1>1, Invariant, PTL DEF Spec, RecordsLeaveForCause, Cause
=============================================================================
