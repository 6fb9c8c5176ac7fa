------------------------ MODULE TableOfContent_proofs ------------------------
(***************************************************************************)
(* Proofs about TableOfContent, for any names, callers and calls.          *)
(***************************************************************************)
EXTENDS TableOfContent, TLAPS

-----------------------------------------------------------------------------
(* The invariants                                                          *)

Labels == {"idle", "get_alias", "get_exists", "using", "create_check", "create_alias",
           "from_alias", "from_exists", "from_using", "create_new", "create_insert", "delete",
           "delete_aliases", "aliases", "alias_action", "snapshot", "snapshot_delete"}

\* Where a caller that asked for the lock is, and where one is that writes.
ReadLabels == {"get_alias", "get_exists", "create_check", "from_alias", "from_exists"}
WriteLabels == {"create_insert", "delete", "aliases", "snapshot"}
WriterLabels == {"delete_aliases", "alias_action", "snapshot_delete"}

\* Where a name has been resolved, where the collection to take the data from is looked
\* up, and where the name of a new collection has been found to be no alias.
Resolved == {"get_exists", "using", "from_exists", "from_using"}
FromLabels == {"from_alias", "from_exists", "from_using"}
FreeLabels == FromLabels \cup {"create_new", "create_insert"}

Entry == [who : Callers, mode : {"read", "write"}]
LockType == [readers : [Callers -> Nat], writer : Callers \cup {None}, queue : Seq(Entry)]

KindAt(label) ==
    CASE label \in {"get_alias", "get_exists", "using"} -> "get"
      [] label \in {"create_check", "create_alias", "from_alias", "from_exists", "from_using", "create_new",
                    "create_insert"} -> "create"
      [] label \in {"delete", "delete_aliases"} -> "delete"
      [] label \in {"aliases", "alias_action"} -> "aliases"
      [] label \in {"snapshot", "snapshot_delete"} -> "snapshot"

\* A caller with this label makes call k, which scenario s lets it make; of a
\* change of aliases some actions may be done already.
Makes(s, c, label, k) ==
    /\ k \in Calls
    /\ k.kind = KindAt(label)
    /\ \E m \in s.may[c] :
          /\ m.kind = k.kind
          /\ m.kind = "snapshot" => m = k
          /\ m.kind = "aliases" =>
                \A i \in 1..Len(k.actions) : \E j \in 1..Len(m.actions) : k.actions[i] = m.actions[j]

\* A caller is at a step of the call it makes.
CallInv ==
    /\ scenario \in Scenarios
    /\ pc \in [Callers -> Labels]
    /\ call \in [Callers -> Calls \cup {None}]
    /\ \A c \in Callers : pc[c] # "idle" => Makes(scenario, c, pc[c], call[c])

InQueue(q, c) == \E i \in 1..Len(q) : q[i].who = c
Unique(q) == \A i, j \in 1..Len(q) : q[i].who = q[j].who => i = j

\* The read guards that caller c holds.
Guards(c) ==
    IF pc[c] \in {"using", "from_using"} THEN 1
    ELSE IF pc[c] \in {"get_exists", "from_exists"} THEN IF InQueue(lock.queue, c) THEN 1 ELSE 2
    ELSE IF pc[c] \in {"get_alias", "create_check", "from_alias"} THEN IF InQueue(lock.queue, c) THEN 0 ELSE 1
    ELSE 0

Writes(c) == pc[c] \in WriterLabels \/ (pc[c] \in WriteLabels /\ ~ InQueue(lock.queue, c))

\* A caller holds the guards that its place in the code says, it asks for one at
\* a time, and a writer is alone.
LockInv ==
    /\ lock \in LockType
    /\ Unique(lock.queue)
    /\ \A i \in 1..Len(lock.queue) :
          pc[lock.queue[i].who] \in (IF lock.queue[i].mode = "read" THEN ReadLabels
                                     ELSE WriteLabels \cup {"snapshot_delete"})
    /\ \A c \in Callers : lock.readers[c] = Guards(c)
    /\ \A c \in Callers : lock.writer = c <=> Writes(c)
    /\ lock.writer # None => \A c \in Callers : lock.readers[c] = 0

\* The name that a caller with this label has looked up
LookedUp(label, k) == IF label \in FromLabels THEN k.from ELSE k.name

\* Aliases lead to collections, but for those of a collection that is being
\* deleted; what a caller has resolved stays as long as it holds a guard.
DataInv ==
    /\ colls \subseteq Names
    /\ aliases \in Aliasing
    /\ real \in [Callers -> Names \cup {None}]
    /\ \A n \in Names : aliases[n] # None =>
          \/ aliases[n] \in colls
          \/ \E c \in Callers : pc[c] = "delete_aliases" /\ call[c].name = aliases[n]
    /\ \A c \in Callers :
          /\ pc[c] \in Resolved => real[c] = Resolve(aliases, LookedUp(pc[c], call[c]))
          /\ pc[c] \in {"using", "from_using"} => real[c] \in colls
          /\ pc[c] \in FromLabels => call[c].from \in Names
          /\ pc[c] = "snapshot_delete" => call[c].collections \subseteq colls

\* One caller makes all the changes, none of them a rename, and the snapshots
\* it applies give no name to a collection and to an alias.
OneChanges == (\A c, d \in Changing : c = d) /\ ~ Renaming /\ ~ Shadowing

\* Then the name it is about to create a collection with stays free, and only
\* between the collections and the aliases of a snapshot a name may be both.
ShadowInv ==
    OneChanges =>
        /\ \A c \in Callers : pc[c] \in FreeLabels => aliases[call[c].name] = None
        /\ (\A c \in Callers : pc[c] # "snapshot_delete") => \A n \in colls : aliases[n] = None

MadeInv == made \in [Callers -> 0..scenario.calls]

TocInv == CallInv /\ LockInv /\ DataInv /\ ShadowInv /\ MadeInv

-----------------------------------------------------------------------------
(* The queue of the lock                                                   *)

\* Whoever asks is the last of those who wait.
LEMMA QueueAppend ==
    ASSUME NEW q \in Seq(Entry), NEW e \in Entry
    PROVE  /\ Append(q, e) \in Seq(Entry)
           /\ \A d : InQueue(Append(q, e), d) <=> InQueue(q, d) \/ d = e.who
           /\ Unique(q) /\ ~ InQueue(q, e.who) => Unique(Append(q, e))
<1> DEFINE r == Append(q, e)
<1>1. r \in Seq(Entry) /\ Len(r) = Len(q) + 1 /\ Len(q) \in Nat /\ r[Len(q) + 1] = e
      /\ \A i \in 1..Len(q) : r[i] = q[i]
  OBVIOUS
<1> HIDE DEF r
<1>2. \A d : InQueue(r, d) <=> InQueue(q, d) \/ d = e.who
  <2> SUFFICES ASSUME NEW d PROVE InQueue(r, d) <=> InQueue(q, d) \/ d = e.who
    OBVIOUS
  <2>1. ASSUME InQueue(q, d) PROVE InQueue(r, d)
    <3>1. PICK i \in 1..Len(q) : q[i].who = d
      BY <2>1 DEF InQueue
    <3>2. i \in 1..Len(r) /\ r[i].who = d
      BY <1>1, <3>1
    <3> QED BY <3>2 DEF InQueue
  <2>2. ASSUME d = e.who PROVE InQueue(r, d)
    <3>1. Len(q) + 1 \in 1..Len(r) /\ r[Len(q) + 1].who = d
      BY <1>1, <2>2
    <3> QED BY <3>1 DEF InQueue
  <2>3. ASSUME InQueue(r, d), d # e.who PROVE InQueue(q, d)
    <3>1. PICK i \in 1..Len(r) : r[i].who = d
      BY <2>3 DEF InQueue
    <3>2. i \in 1..Len(q) /\ q[i].who = d
      BY <1>1, <2>3, <3>1
    <3> QED BY <3>2 DEF InQueue
  <2> QED BY <2>1, <2>2, <2>3
<1>3. ASSUME Unique(q), ~ InQueue(q, e.who) PROVE Unique(r)
  <2> SUFFICES ASSUME NEW i \in 1..Len(r), NEW j \in 1..Len(r), r[i].who = r[j].who PROVE i = j
    BY DEF Unique
  <2>1. CASE i = Len(q) + 1 \/ j = Len(q) + 1
    <3>1. \A m \in 1..Len(q) : q[m].who # e.who
      BY <1>3 DEF InQueue
    <3> QED BY <1>1, <2>1, <3>1
  <2>2. CASE i # Len(q) + 1 /\ j # Len(q) + 1
    <3>1. i \in 1..Len(q) /\ j \in 1..Len(q) /\ q[i].who = q[j].who
      BY <1>1, <2>2
    <3> QED BY <1>3, <3>1 DEF Unique
  <2> QED BY <2>1, <2>2
<1> QED BY <1>1, <1>2, <1>3 DEF r

\* The first of those who wait leaves the queue.
LEMMA QueueTail ==
    ASSUME NEW q \in Seq(Entry), q # <<>>, Unique(q)
    PROVE  /\ Tail(q) \in Seq(Entry) /\ Head(q) \in Entry
           /\ 1 \in 1..Len(q) /\ Head(q) = q[1]
           /\ \A i \in 1..Len(Tail(q)) : i + 1 \in 1..Len(q) /\ Tail(q)[i] = q[i + 1]
           /\ \A d : InQueue(Tail(q), d) <=> InQueue(q, d) /\ d # Head(q).who
           /\ Unique(Tail(q))
<1> DEFINE t == Tail(q)
           h == Head(q)
<1>1. /\ t \in Seq(Entry) /\ h \in Entry /\ Len(q) \in Nat /\ Len(q) >= 1
      /\ Len(t) = Len(q) - 1 /\ h = q[1]
      /\ \A i \in 1..Len(t) : i + 1 \in 1..Len(q) /\ t[i] = q[i + 1]
  OBVIOUS
<1> HIDE DEF t, h
<1>2. ASSUME NEW d PROVE InQueue(t, d) <=> InQueue(q, d) /\ d # h.who
  <2>1. ASSUME InQueue(t, d) PROVE InQueue(q, d) /\ d # h.who
    <3>1. PICK i \in 1..Len(t) : t[i].who = d
      BY <2>1 DEF InQueue
    <3>2. i + 1 \in 1..Len(q) /\ q[i + 1].who = d /\ i + 1 # 1 /\ 1 \in 1..Len(q)
      BY <1>1, <3>1
    <3> QED BY <1>1, <3>2 DEF InQueue, Unique
  <2>2. ASSUME InQueue(q, d), d # h.who PROVE InQueue(t, d)
    <3>1. PICK i \in 1..Len(q) : q[i].who = d
      BY <2>2 DEF InQueue
    <3>2. i # 1 /\ i - 1 \in 1..Len(t) /\ i = (i - 1) + 1
      BY <1>1, <2>2, <3>1
    <3>3. t[i - 1].who = d
      BY <1>1, <3>1, <3>2
    <3> QED BY <3>2, <3>3 DEF InQueue
  <2> QED BY <2>1, <2>2
<1>3. Unique(t)
  <2> SUFFICES ASSUME NEW i \in 1..Len(t), NEW j \in 1..Len(t), t[i].who = t[j].who PROVE i = j
    BY DEF Unique
  <2>1. i + 1 \in 1..Len(q) /\ j + 1 \in 1..Len(q) /\ q[i + 1].who = q[j + 1].who
    BY <1>1
  <2>2. i + 1 = j + 1
    BY <2>1 DEF Unique
  <2> QED BY <1>1, <2>2
<1>4. 1 \in 1..Len(q)
  BY <1>1
<1> QED BY <1>1, <1>2, <1>3, <1>4 DEF t, h

-----------------------------------------------------------------------------
(* Calls                                                                   *)

\* The calls that the steps belong to.
LEMMA Kinds ==
    /\ KindAt("get_alias") = "get" /\ KindAt("get_exists") = "get" /\ KindAt("using") = "get"
    /\ KindAt("create_check") = "create" /\ KindAt("create_alias") = "create"
    /\ KindAt("from_alias") = "create" /\ KindAt("from_exists") = "create"
    /\ KindAt("from_using") = "create" /\ KindAt("create_new") = "create"
    /\ KindAt("create_insert") = "create"
    /\ KindAt("delete") = "delete" /\ KindAt("delete_aliases") = "delete"
    /\ KindAt("aliases") = "aliases" /\ KindAt("alias_action") = "aliases"
    /\ KindAt("snapshot") = "snapshot" /\ KindAt("snapshot_delete") = "snapshot"
BY SMTT(30) DEF KindAt

\* At the beginning nobody makes a call.
LEMMA CallInit == Init => CallInv
BY DEF Init, CallInv, Labels

\* A caller goes on with its call, or ends it.
LEMMA CallGoesOn ==
    ASSUME CallInv, NEW c \in Callers, NEW label \in Labels, pc' = [pc EXCEPT ![c] = label],
           call' = call, scenario' = scenario,
           label = "idle" \/ (pc[c] # "idle" /\ KindAt(label) = KindAt(pc[c]))
    PROVE  CallInv'
<1>1. pc'[c] = label /\ \A d \in Callers : d # c => pc'[d] = pc[d]
  BY DEF CallInv
<1>2. pc' \in [Callers -> Labels]
  BY DEF CallInv
<1>3. ASSUME NEW d \in Callers, pc'[d] # "idle" PROVE pc[d] # "idle" /\ KindAt(pc'[d]) = KindAt(pc[d])
  BY <1>1, <1>3
<1>4. ASSUME NEW d \in Callers, pc'[d] # "idle" PROVE Makes(scenario', d, pc'[d], call'[d])
  BY <1>3, <1>4 DEF CallInv, Makes
<1> QED BY <1>2, <1>4 DEF CallInv

\* An action of update_aliases that is done is no longer part of the call.
LEMMA OneActionLess ==
    ASSUME NEW s, NEW c, NEW k, Makes(s, c, "alias_action", k), k.actions # <<>>
    PROVE  Makes(s, c, "alias_action", [k EXCEPT !.actions = Tail(@)])
<1>1. k.kind = "aliases"
  BY DEF Makes, KindAt
<1>2. k \in [kind : {"aliases"}, actions : Seq(AliasActions)]
  BY <1>1 DEF Makes, Calls
<1> DEFINE a == k.actions
           new == [k EXCEPT !.actions = Tail(@)]
<1>3. a \in Seq(AliasActions) /\ a # <<>> /\ Tail(a) \in Seq(AliasActions)
  BY <1>2
<1>4. new = [kind |-> "aliases", actions |-> Tail(a)]
  BY <1>2, SMTT(30)
<1>5. \A i \in 1..Len(Tail(a)) : i + 1 \in 1..Len(a) /\ Tail(a)[i] = a[i + 1]
  BY <1>3
<1> HIDE DEF new
<1>6. new \in Calls
  BY <1>3, <1>4 DEF Calls
<1>7. PICK m \in s.may[c] :
          /\ m.kind = k.kind
          /\ m.kind = "aliases" => \A i \in 1..Len(a) : \E j \in 1..Len(m.actions) : a[i] = m.actions[j]
  BY DEF Makes
<1>8. m.kind = "aliases" /\ new.kind = "aliases" /\ new.actions = Tail(a)
  BY <1>1, <1>4, <1>7
<1> HIDE DEF a
<1>9. \A i \in 1..Len(new.actions) : \E j \in 1..Len(m.actions) : new.actions[i] = m.actions[j]
  BY <1>5, <1>7, <1>8
<1>10. KindAt("alias_action") = "aliases"
  BY DEF KindAt
<1>11. Makes(s, c, "alias_action", new)
  BY <1>6, <1>8, <1>9, <1>10 DEF Makes
<1> QED BY <1>11 DEF new

\* Every step keeps the callers at calls that they may make.
LEMMA CallStep == CallInv /\ [Next]_vars => CallInv'
<1> SUFFICES ASSUME CallInv, [Next]_vars PROVE CallInv'
  OBVIOUS
<1>1. ASSUME NEW c \in Callers, NEW k \in scenario.may[c], Begin(c, k) PROVE CallInv'
  <2>1. k \in Calls
    BY CallsAssumption DEF CallInv
  <2>2. /\ k.kind \in {"get", "create", "delete", "aliases", "snapshot"}
        /\ k.kind = "aliases" => k.actions \in Seq(AliasActions)
    BY <2>1 DEF Calls
  <2>3. FirstStep[k.kind] \in Labels /\ FirstStep[k.kind] # "idle" /\ KindAt(FirstStep[k.kind]) = k.kind
    BY <2>2, Kinds DEF FirstStep, Labels
  <2>4. /\ pc' = [pc EXCEPT ![c] = FirstStep[k.kind]]
        /\ call' = [call EXCEPT ![c] = k] /\ scenario' = scenario
    BY <1>1 DEF Begin, Goes
  <2>5. /\ pc'[c] = FirstStep[k.kind] /\ call'[c] = k
        /\ \A d \in Callers : d # c => pc'[d] = pc[d] /\ call'[d] = call[d]
        /\ pc' \in [Callers -> Labels] /\ call' \in [Callers -> Calls \cup {None}]
    BY <2>1, <2>3, <2>4 DEF CallInv
  <2>6. Makes(scenario, c, FirstStep[k.kind], k)
    BY <2>1, <2>3 DEF Makes
  <2> QED BY <2>4, <2>5, <2>6 DEF CallInv
<1>2. ASSUME NEW c \in Callers, ChangeAliases(c), Change(c).ok PROVE CallInv'
  <2>1. /\ pc[c] = "alias_action" /\ call[c].actions # <<>>
        /\ call' = [call EXCEPT ![c].actions = Tail(@)] /\ scenario' = scenario /\ pc' = pc
    BY <1>2 DEF ChangeAliases, At
  <2>2. Makes(scenario, c, "alias_action", call[c])
    BY <2>1 DEF CallInv
  <2> DEFINE new == [call[c] EXCEPT !.actions = Tail(@)]
  <2>3. Makes(scenario, c, "alias_action", new)
    BY <2>1, <2>2, OneActionLess
  <2>4. new \in Calls
    BY <2>3 DEF Makes
  <2>5. call' = [call EXCEPT ![c] = new]
    BY <2>1
  <2> HIDE DEF new
  <2>6. call'[c] = new /\ call' \in [Callers -> Calls \cup {None}]
        /\ \A d \in Callers : d # c => call'[d] = call[d]
    BY <2>4, <2>5 DEF CallInv
  <2> QED BY <2>1, <2>3, <2>6, Zenon DEF CallInv
<1>3. ASSUME pc' = pc, call' = call, scenario' = scenario PROVE CallInv'
  BY <1>3 DEF CallInv
<1>4. ASSUME NEW c \in Callers, ChangeAliases(c), ~ Change(c).ok PROVE CallInv'
  BY <1>4, CallGoesOn DEF ChangeAliases, Goes, Labels
<1>5. ASSUME NEW c \in Callers, Step(c), ~ ChangeAliases(c) PROVE CallInv'
  <2>1. CASE GetAlias(c)
    BY <2>1, CallGoesOn, Kinds, Zenon DEF GetAlias, ResolveName, At, Goes, Labels
  <2>2. CASE GetExists(c)
    BY <2>2, CallGoesOn, Kinds, Zenon DEF GetExists, Exists, At, Goes, Labels
  <2>3. CASE Use(c)
    BY <2>3, CallGoesOn, Kinds, Zenon DEF Use, At, Goes, Labels
  <2>4. CASE CreateCheck(c)
    BY <2>4, CallGoesOn, Kinds, Zenon DEF CreateCheck, At, Goes, Labels
  <2>5. CASE CreateAliasCheck(c)
    BY <2>5, CallGoesOn, Kinds, Zenon DEF CreateAliasCheck, At, Goes, Labels
  <2>6. CASE CreateInsert(c)
    BY <2>6, CallGoesOn, Kinds, Zenon DEF CreateInsert, At, Goes, Labels
  <2>14. CASE FromAlias(c)
    BY <2>14, CallGoesOn, Kinds, Zenon DEF FromAlias, ResolveName, At, Goes, Labels
  <2>15. CASE FromExists(c)
    BY <2>15, CallGoesOn, Kinds, Zenon DEF FromExists, Exists, At, Goes, Labels
  <2>16. CASE FromCompare(c)
    BY <2>16, CallGoesOn, Kinds, Zenon DEF FromCompare, At, Goes, Labels
  <2>17. CASE CreateNew(c)
    BY <2>17, CallGoesOn, Kinds, Zenon DEF CreateNew, At, Goes, Labels
  <2>7. CASE DeleteRemove(c)
    BY <2>7, CallGoesOn, Kinds, Zenon DEF DeleteRemove, At, Goes, Labels
  <2>8. CASE DeleteAliases(c)
    BY <2>8, CallGoesOn, Kinds, Zenon DEF DeleteAliases, At, Goes, Labels
  <2>9. CASE BeginAliases(c)
    BY <2>9, CallGoesOn, Kinds, Zenon DEF BeginAliases, At, Goes, Labels
  <2>10. CASE EndAliases(c)
    BY <2>10, CallGoesOn, Kinds, Zenon DEF EndAliases, At, Goes, Labels
  <2>11. CASE SnapshotCollections(c)
    BY <2>11, CallGoesOn, Kinds, Zenon DEF SnapshotCollections, At, Goes, Labels
  <2>12. CASE SnapshotDelete(c)
    BY <1>3, <2>12 DEF SnapshotDelete
  <2>13. CASE SnapshotAliases(c)
    BY <2>13, CallGoesOn, Kinds, Zenon DEF SnapshotAliases, At, Goes, Labels
  <2> QED
    BY <1>5, <2>1, <2>2, <2>3, <2>4, <2>5, <2>6, <2>7, <2>8, <2>9, <2>10, <2>11, <2>12, <2>13, <2>14,
       <2>15, <2>16, <2>17, Zenon DEF Step
<1> QED BY <1>1, <1>2, <1>3, <1>4, <1>5 DEF Next, Grant, vars

-----------------------------------------------------------------------------
(* The lock                                                                *)

\* At the beginning the lock is free.
LEMMA LockInit == Init => LockInv
<1> SUFFICES ASSUME Init PROVE LockInv
  OBVIOUS
<1>1. /\ lock = [readers |-> [c \in Callers |-> 0], writer |-> None, queue |-> <<>>]
      /\ \A c \in Callers : pc[c] = "idle"
  BY DEF Init
<1>2. lock \in LockType /\ Len(lock.queue) = 0 /\ lock.writer = None /\ \A c \in Callers : lock.readers[c] = 0
  BY <1>1 DEF LockType
<1>3. \A c \in Callers : Guards(c) = 0 /\ ~ Writes(c)
  BY <1>1 DEF Guards, Writes, WriteLabels, WriterLabels
<1> QED BY <1>2, <1>3, TocAssumption DEF LockInv, Unique

\* The read guards of a caller with this label that does not wait.
GuardsAt(label) ==
    IF label \in {"get_exists", "from_exists"} THEN 2
    ELSE IF label \in {"using", "from_using", "get_alias", "create_check", "from_alias"} THEN 1 ELSE 0

\* A caller that does not wait goes on, holding r read guards, and then does not
\* wait either.
LEMMA LockFree ==
    ASSUME CallInv, LockInv, NEW c \in Callers, ~ InQueue(lock.queue, c),
           NEW label \in Labels, pc' = [pc EXCEPT ![c] = label],
           lock' \in LockType, lock'.queue = lock.queue,
           \A d \in Callers : lock'.readers[d] = (IF d = c THEN GuardsAt(label) ELSE lock.readers[d]),
           lock'.writer = c <=> label \in WriterLabels \cup WriteLabels,
           \A d \in Callers : d # c => (lock'.writer = d <=> lock.writer = d),
           lock'.writer # None => \A d \in Callers : lock'.readers[d] = 0
    PROVE  LockInv'
<1>1. pc'[c] = label /\ \A d \in Callers : d # c => pc'[d] = pc[d]
  BY DEF CallInv
<1>2. \A d \in Callers : InQueue(lock'.queue, d) <=> InQueue(lock.queue, d)
  OBVIOUS
<1>3. ASSUME NEW d \in Callers PROVE lock'.readers[d] = Guards(d)'
  <2>1. CASE d = c
    BY <1>1, <1>2, <2>1 DEF Guards, GuardsAt
  <2>2. CASE d # c
    BY <1>1, <1>2, <2>2 DEF Guards, LockInv
  <2> QED BY <2>1, <2>2
<1>4. ASSUME NEW d \in Callers PROVE lock'.writer = d <=> Writes(d)'
  <2>1. CASE d = c
    BY <1>1, <1>2, <2>1 DEF Writes
  <2>2. CASE d # c
    BY <1>1, <1>2, <2>2 DEF Writes, LockInv
  <2> QED BY <2>1, <2>2
<1>5. ASSUME NEW i \in 1..Len(lock'.queue)
      PROVE  pc'[lock'.queue[i].who] \in (IF lock'.queue[i].mode = "read" THEN ReadLabels
                                          ELSE WriteLabels \cup {"snapshot_delete"})
  <2>3. lock.queue[i] \in Entry
    BY DEF LockInv, LockType
  <2>1. lock.queue[i].who \in Callers /\ lock.queue[i].who # c
    BY <2>3 DEF InQueue, Entry
  <2> QED BY <1>1, <2>1 DEF LockInv
<1>6. Unique(lock'.queue)
  BY DEF LockInv
<1> QED BY <1>3, <1>4, <1>5, <1>6 DEF LockInv

\* A caller that does not wait goes on, and asks for a guard.
LEMMA LockAsk ==
    ASSUME CallInv, LockInv, NEW c \in Callers, ~ InQueue(lock.queue, c),
           NEW label \in Labels, pc' = [pc EXCEPT ![c] = label],
           NEW mode \in {"read", "write"}, lock' = Asking(lock, c, mode),
           label \in (IF mode = "read" THEN ReadLabels ELSE WriteLabels \cup {"snapshot_delete"}),
           lock.readers[c] = (IF label \in {"get_exists", "from_exists"} THEN 1 ELSE 0),
           lock.writer = c <=> label = "snapshot_delete"
    PROVE  LockInv'
<1> DEFINE e == [who |-> c, mode |-> mode]
<1>1. lock \in LockType /\ lock.queue \in Seq(Entry) /\ e \in Entry /\ e.who = c /\ e.mode = mode
  BY DEF LockInv, LockType, Entry
<1>2. /\ lock'.queue = Append(lock.queue, e) /\ lock'.readers = lock.readers
      /\ lock'.writer = lock.writer
      /\ lock' = [readers |-> lock.readers, writer |-> lock.writer, queue |-> Append(lock.queue, e)]
  BY <1>1, Zenon DEF Asking, LockType
<1> HIDE DEF e
<1>3. /\ Append(lock.queue, e) \in Seq(Entry)
      /\ \A d : InQueue(Append(lock.queue, e), d) <=> InQueue(lock.queue, d) \/ d = c
      /\ Unique(Append(lock.queue, e))
  BY <1>1, QueueAppend DEF LockInv
<1>4. pc'[c] = label /\ \A d \in Callers : d # c => pc'[d] = pc[d]
  BY DEF CallInv
<1>5. lock' \in LockType
  BY <1>1, <1>2, <1>3 DEF LockType
<1>6. InQueue(lock'.queue, c)
      /\ \A d \in Callers : d # c => (InQueue(lock'.queue, d) <=> InQueue(lock.queue, d))
  BY <1>2, <1>3
<1>7. ASSUME NEW d \in Callers PROVE lock'.readers[d] = Guards(d)'
  <2>1. CASE d = c
    BY <1>2, <1>4, <1>6, <2>1 DEF Guards, ReadLabels, WriteLabels
  <2>2. CASE d # c
    BY <1>2, <1>4, <1>6, <2>2 DEF Guards, LockInv
  <2> QED BY <2>1, <2>2
<1>8. ASSUME NEW d \in Callers PROVE lock'.writer = d <=> Writes(d)'
  <2>1. CASE d = c
    BY <1>2, <1>4, <1>6, <2>1 DEF Writes, ReadLabels, WriteLabels, WriterLabels
  <2>2. CASE d # c
    BY <1>2, <1>4, <1>6, <2>2 DEF Writes, LockInv
  <2> QED BY <2>1, <2>2
<1>9. ASSUME NEW i \in 1..Len(lock'.queue)
      PROVE  pc'[lock'.queue[i].who] \in (IF lock'.queue[i].mode = "read" THEN ReadLabels
                                          ELSE WriteLabels \cup {"snapshot_delete"})
  <2>1. CASE i \in 1..Len(lock.queue)
    <3>1. lock'.queue[i] = lock.queue[i]
      BY <1>1, <1>2, <2>1
    <3>3. lock.queue[i] \in Entry
      BY <1>1, <2>1
    <3>2. lock.queue[i].who \in Callers /\ lock.queue[i].who # c
      BY <2>1, <3>3 DEF InQueue, Entry
    <3> QED BY <1>4, <2>1, <3>1, <3>2 DEF LockInv
  <2>2. CASE i \notin 1..Len(lock.queue)
    <3>1. lock'.queue[i] = e
      BY <1>1, <1>2, <2>2
    <3> QED BY <1>1, <1>4, <3>1
  <2> QED BY <2>1, <2>2
<1>10. lock'.writer # None => \A d \in Callers : lock'.readers[d] = 0
  BY <1>2 DEF LockInv
<1> QED BY <1>2, <1>3, <1>5, <1>7, <1>8, <1>9, <1>10 DEF LockInv

\* The first of those who wait gets the lock.
LEMMA LockGrant ==
    ASSUME CallInv, LockInv, Grant
    PROVE  LockInv'
<1> DEFINE q == lock.queue
           first == Head(q)
           c == first.who
<1>1. /\ q # <<>> /\ lock.writer = None /\ pc' = pc
      /\ \/ /\ first.mode = "read"
            /\ lock' = [lock EXCEPT !.readers[c] = @ + 1, !.queue = Tail(@)]
         \/ /\ first.mode = "write" /\ \A d \in Callers : lock.readers[d] = 0
            /\ lock' = [lock EXCEPT !.writer = c, !.queue = Tail(@)]
  BY DEF Grant
<1>2. lock \in LockType /\ q \in Seq(Entry) /\ Unique(q)
  BY DEF LockInv, LockType
<1>3. /\ Tail(q) \in Seq(Entry) /\ first \in Entry /\ 1 \in 1..Len(q) /\ first = q[1]
      /\ \A i \in 1..Len(Tail(q)) : i + 1 \in 1..Len(q) /\ Tail(q)[i] = q[i + 1]
      /\ \A d : InQueue(Tail(q), d) <=> InQueue(q, d) /\ d # c
      /\ Unique(Tail(q))
  BY <1>1, <1>2, QueueTail
<1>4. c \in Callers /\ InQueue(q, c)
  BY <1>3 DEF Entry, InQueue
<1>5. pc[c] \in (IF first.mode = "read" THEN ReadLabels ELSE WriteLabels \cup {"snapshot_delete"})
  BY <1>3 DEF LockInv
<1>6. pc[c] # "snapshot_delete"
  BY <1>1, <1>4, TocAssumption DEF LockInv, Writes, WriterLabels
<1>7. /\ lock'.queue = Tail(q)
      /\ lock'.writer = IF first.mode = "read" THEN None ELSE c
      /\ \A d \in Callers :
            lock'.readers[d] = IF first.mode = "read" /\ d = c THEN lock.readers[d] + 1 ELSE lock.readers[d]
  BY <1>1, <1>2, <1>4, ZenonT(30) DEF LockType
<1>8. lock' \in LockType
  <2>1. lock.readers \in [Callers -> Nat] /\ lock.writer \in Callers \cup {None}
    BY <1>2 DEF LockType
  <2>2. CASE lock' = [lock EXCEPT !.readers[c] = @ + 1, !.queue = Tail(@)]
    <3>1. lock' = [readers |-> [lock.readers EXCEPT ![c] = @ + 1], writer |-> lock.writer, queue |-> Tail(q)]
      BY <1>2, <2>2, Zenon DEF LockType
    <3>2. [lock.readers EXCEPT ![c] = @ + 1] \in [Callers -> Nat]
      BY <1>4, <2>1
    <3> QED BY <1>3, <2>1, <3>1, <3>2 DEF LockType
  <2>3. CASE lock' = [lock EXCEPT !.writer = c, !.queue = Tail(@)]
    <3>1. lock' = [readers |-> lock.readers, writer |-> c, queue |-> Tail(q)]
      BY <1>2, <2>3, Zenon DEF LockType
    <3> QED BY <1>3, <1>4, <2>1, <3>1 DEF LockType
  <2> QED BY <1>1, <2>2, <2>3
<1>9. ~ InQueue(lock'.queue, c)
      /\ \A d \in Callers : d # c => (InQueue(lock'.queue, d) <=> InQueue(lock.queue, d))
  BY <1>3, <1>7
<1>10. \A d \in Callers : lock.readers[d] = Guards(d) /\ ~ Writes(d)
  BY <1>1, TocAssumption DEF LockInv
<1>11. first.mode \in {"read", "write"}
  BY <1>3 DEF Entry
<1> HIDE DEF q, first, c
<1>12. ASSUME NEW d \in Callers PROVE lock'.readers[d] = Guards(d)'
  <2>1. CASE d # c
    BY <1>1, <1>7, <1>9, <1>10, <2>1 DEF Guards
  <2>2. CASE d = c /\ first.mode = "read"
    BY <1>1, <1>4, <1>5, <1>7, <1>9, <1>10, <2>2 DEF Guards, ReadLabels, q
  <2>3. CASE d = c /\ first.mode = "write"
    BY <1>1, <1>4, <1>5, <1>6, <1>7, <1>9, <1>10, <2>3 DEF Guards, WriteLabels, q
  <2> QED BY <1>11, <2>1, <2>2, <2>3
<1>13. ASSUME NEW d \in Callers PROVE lock'.writer = d <=> Writes(d)'
  <2>1. CASE d # c
    BY <1>1, <1>7, <1>9, <1>10, <2>1, TocAssumption DEF Writes
  <2>2. CASE d = c /\ first.mode = "read"
    BY <1>1, <1>5, <1>7, <1>9, <2>2, TocAssumption DEF Writes, ReadLabels, WriteLabels, WriterLabels
  <2>3. CASE d = c /\ first.mode = "write"
    BY <1>1, <1>5, <1>6, <1>7, <1>9, <2>3 DEF Writes
  <2> QED BY <1>11, <2>1, <2>2, <2>3
<1>14. ASSUME NEW i \in 1..Len(lock'.queue)
       PROVE  pc'[lock'.queue[i].who] \in (IF lock'.queue[i].mode = "read" THEN ReadLabels
                                           ELSE WriteLabels \cup {"snapshot_delete"})
  <2>1. i + 1 \in 1..Len(lock.queue) /\ lock'.queue[i] = lock.queue[i + 1]
    BY <1>3, <1>7 DEF q
  <2> QED BY <1>1, <2>1 DEF LockInv
<1>15. lock'.writer # None => \A d \in Callers : lock'.readers[d] = 0
  BY <1>1, <1>7, <1>11
<1> QED BY <1>3, <1>7, <1>8, <1>12, <1>13, <1>14, <1>15 DEF LockInv

\* What a caller that does not wait holds.
LEMMA Held ==
    ASSUME CallInv, LockInv, NEW c \in Callers, NEW label, At(c, label)
    PROVE  /\ pc[c] = label /\ ~ InQueue(lock.queue, c) /\ lock \in LockType
           /\ lock.readers[c] = GuardsAt(label)
           /\ lock.writer = c <=> label \in WriterLabels \cup WriteLabels
           /\ lock.writer \in Callers \cup {None} /\ None \notin Callers
           /\ lock.writer # None => \A d \in Callers : lock.readers[d] = 0
<1>1. pc[c] = label /\ ~ InQueue(lock.queue, c)
  BY DEF At, Waiting, InQueue
<1>2. lock \in LockType /\ lock.readers[c] = Guards(c) /\ (lock.writer = c <=> Writes(c))
  BY DEF LockInv
<1>3. Guards(c) = GuardsAt(label)
  BY <1>1 DEF Guards, GuardsAt
<1>4. Writes(c) <=> label \in WriterLabels \cup WriteLabels
  BY <1>1 DEF Writes
<1>5. lock.writer \in Callers \cup {None}
  BY <1>2 DEF LockType
<1>6. lock.writer # None => \A d \in Callers : lock.readers[d] = 0
  BY DEF LockInv
<1> QED BY <1>1, <1>2, <1>3, <1>4, <1>5, <1>6, TocAssumption

\* A reader gives guards back.
LEMMA LessReadsLock ==
    ASSUME lock \in LockType, NEW c \in Callers, NEW n \in 0..lock.readers[c]
    PROVE  /\ LessReads(lock, c, n) \in LockType
           /\ LessReads(lock, c, n).queue = lock.queue
           /\ LessReads(lock, c, n).writer = lock.writer
           /\ \A d \in Callers :
                 LessReads(lock, c, n).readers[d] = IF d = c THEN lock.readers[d] - n ELSE lock.readers[d]
<1>1. lock.readers \in [Callers -> Nat] /\ lock.writer \in Callers \cup {None} /\ lock.queue \in Seq(Entry)
  BY DEF LockType
<1> DEFINE k == lock.readers[c] - n
<1>2. LessReads(lock, c, n)
        = [readers |-> [lock.readers EXCEPT ![c] = k], writer |-> lock.writer, queue |-> lock.queue]
  <2>1. LessReads(lock, c, n) = [lock EXCEPT !.readers = [lock.readers EXCEPT ![c] = k]]
    BY DEF LessReads
  <2> HIDE DEF k
  <2> QED BY <2>1, Zenon DEF LockType
<1>3. [lock.readers EXCEPT ![c] = k] \in [Callers -> Nat]
  BY <1>1
<1> QED BY <1>1, <1>2, <1>3 DEF LockType

\* The writer gives the lock back.
LEMMA NoWriterLock ==
    ASSUME lock \in LockType
    PROVE  /\ NoWriter(lock) \in LockType /\ NoWriter(lock).queue = lock.queue
           /\ NoWriter(lock).writer = None /\ NoWriter(lock).readers = lock.readers
<1>1. NoWriter(lock) = [readers |-> lock.readers, writer |-> None, queue |-> lock.queue]
  BY DEF NoWriter, LockType
<1>2. lock.readers \in [Callers -> Nat] /\ lock.queue \in Seq(Entry)
  BY DEF LockType
<1> QED BY <1>1, <1>2 DEF LockType

\* A caller ends its call and gives back what it holds.
LEMMA ReadEnds ==
    ASSUME CallInv, LockInv, NEW c \in Callers, NEW label, At(c, label),
           NEW next \in Labels, Goes(c, next),
           next \in {"idle", "using", "from_using", "create_alias", "create_new"},
           NEW n \in Nat, GuardsAt(label) = GuardsAt(next) + n,
           label \in {"get_exists", "from_exists", "using", "from_using", "create_check"},
           lock' = LessReads(lock, c, n)
    PROVE  LockInv'
<1>1. /\ pc[c] = label /\ ~ InQueue(lock.queue, c) /\ lock \in LockType
      /\ lock.readers[c] = GuardsAt(label)
      /\ lock.writer # c
      /\ lock.writer # None => \A d \in Callers : lock.readers[d] = 0
  BY Held DEF WriterLabels, WriteLabels
<1>2. GuardsAt(next) \in Nat /\ n \in 0..lock.readers[c] /\ GuardsAt(label) > 0
  BY <1>1 DEF GuardsAt
<1>3. /\ lock' \in LockType /\ lock'.queue = lock.queue /\ lock'.writer = lock.writer
      /\ \A d \in Callers : lock'.readers[d] = IF d = c THEN lock.readers[d] - n ELSE lock.readers[d]
  BY <1>1, <1>2, LessReadsLock
<1>4. \A d \in Callers : lock'.readers[d] = (IF d = c THEN GuardsAt(next) ELSE lock.readers[d])
  BY <1>1, <1>2, <1>3
<1>5. lock'.writer = None
  BY <1>1, <1>2, <1>3
<1>6. lock'.writer = c <=> next \in WriterLabels \cup WriteLabels
  BY <1>1, <1>3 DEF WriterLabels, WriteLabels
<1>7. pc' = [pc EXCEPT ![c] = next]
  BY DEF Goes
<1>8. \A d \in Callers : d # c => (lock'.writer = d <=> lock.writer = d)
  BY <1>3, Zenon
<1>9. lock'.writer # None => \A d \in Callers : lock'.readers[d] = 0
  BY <1>5, Zenon
<1> QED BY <1>1, <1>3, <1>4, <1>6, <1>7, <1>8, <1>9, LockFree, Zenon

\* The same of a writer.
LEMMA WriteEnds ==
    ASSUME CallInv, LockInv, NEW c \in Callers, NEW label, At(c, label),
           label \in WriterLabels \cup WriteLabels,
           Goes(c, "idle"), lock' = NoWriter(lock)
    PROVE  LockInv'
<1>1. /\ pc[c] = label /\ ~ InQueue(lock.queue, c) /\ lock \in LockType
      /\ lock.readers[c] = 0 /\ lock.writer = c /\ None # c
  BY Held DEF WriterLabels, WriteLabels, GuardsAt
<1>2. /\ lock' \in LockType /\ lock'.queue = lock.queue /\ lock'.writer = None
      /\ lock'.readers = lock.readers
  BY <1>1, NoWriterLock
<1>3. pc' = [pc EXCEPT ![c] = "idle"] /\ "idle" \in Labels /\ GuardsAt("idle") = 0
      /\ "idle" \notin WriterLabels \cup WriteLabels
  BY DEF Goes, Labels, GuardsAt, WriterLabels, WriteLabels
<1>4. \A d \in Callers : d # c => (lock'.writer = d <=> lock.writer = d)
  BY <1>1, <1>2, TocAssumption
<1> QED BY <1>1, <1>2, <1>3, <1>4, LockFree, Zenon

\* A caller goes on with what it holds.
LEMMA LockKept ==
    ASSUME CallInv, LockInv, NEW c \in Callers, NEW label, At(c, label),
           NEW next \in Labels, Goes(c, next), lock' = lock,
           GuardsAt(next) = GuardsAt(label),
           next \in WriterLabels \cup WriteLabels <=> label \in WriterLabels \cup WriteLabels
    PROVE  LockInv'
<1>1. /\ pc[c] = label /\ ~ InQueue(lock.queue, c) /\ lock \in LockType
      /\ lock.readers[c] = GuardsAt(label)
      /\ lock.writer = c <=> label \in WriterLabels \cup WriteLabels
      /\ lock.writer # None => \A d \in Callers : lock.readers[d] = 0
  BY Held
<1>2. pc' = [pc EXCEPT ![c] = next]
  BY DEF Goes
<1> QED BY <1>1, <1>2, LockFree, Zenon

\* Every step keeps the lock and the callers' places in the code in agreement.
LEMMA LockStep == CallInv /\ LockInv /\ [Next]_vars => LockInv'
<1> SUFFICES ASSUME CallInv, LockInv, [Next]_vars PROVE LockInv'
  OBVIOUS
<1> USE DEF Labels
<1>1. ASSUME NEW c \in Callers, NEW k \in scenario.may[c], Begin(c, k) PROVE LockInv'
  <2>1. k.kind \in {"get", "create", "delete", "aliases", "snapshot"}
    BY CallsAssumption DEF CallInv, Calls
  <2> DEFINE label == FirstStep[k.kind]
             mode == IF k.kind \in {"get", "create"} THEN "read" ELSE "write"
  <2>2. /\ label \in Labels /\ mode \in {"read", "write"}
        /\ label \in (IF mode = "read" THEN ReadLabels ELSE WriteLabels \cup {"snapshot_delete"})
        /\ label \notin {"get_exists", "from_exists"} /\ label # "snapshot_delete"
    BY <2>1 DEF FirstStep, ReadLabels, WriteLabels
  <2>3. pc[c] = "idle" /\ pc' = [pc EXCEPT ![c] = label] /\ lock' = Asking(lock, c, mode)
    BY <1>1 DEF Begin, Goes
  <2>4. ~ InQueue(lock.queue, c)
    BY <2>3 DEF InQueue, LockInv, ReadLabels, WriteLabels
  <2>5. lock.readers[c] = 0 /\ lock.writer # c
    BY <2>3 DEF LockInv, Guards, Writes, WriteLabels, WriterLabels
  <2> HIDE DEF label, mode
  <2> QED BY <2>2, <2>3, <2>4, <2>5, LockAsk, Zenon
<1>2. ASSUME NEW c \in Callers, Step(c) PROVE LockInv'
  <2>1. CASE GetAlias(c)
    <3>1. At(c, "get_alias") /\ pc' = [pc EXCEPT ![c] = "get_exists"] /\ lock' = Asking(lock, c, "read")
      BY <2>1 DEF GetAlias, ResolveName, Goes
    <3>2. ~ InQueue(lock.queue, c) /\ lock.readers[c] = 1 /\ lock.writer # c
      BY <3>1, Held DEF GuardsAt, WriterLabels, WriteLabels
    <3> QED BY <3>1, <3>2, LockAsk, Zenon DEF ReadLabels
  <2>2. CASE GetExists(c)
    <3>1. At(c, "get_exists")
      BY <2>2 DEF GetExists, Exists
    <3>2. lock.readers[c] = 2
      BY <3>1, Held DEF GuardsAt
    <3>3. CASE lock' = LessReads(lock, c, 1) /\ Goes(c, "using")
      BY <3>1, <3>3, ReadEnds DEF GuardsAt
    <3>4. CASE lock' = LessReads(lock, c, lock.readers[c]) /\ Goes(c, "idle")
      BY <3>1, <3>2, <3>4, ReadEnds DEF GuardsAt
    <3> QED BY <2>2, <3>3, <3>4 DEF GetExists, Exists
  <2>3. CASE Use(c)
    <3>1. At(c, "using") /\ lock' = LessReads(lock, c, lock.readers[c]) /\ Goes(c, "idle")
      BY <2>3 DEF Use
    <3>2. lock.readers[c] = 1
      BY <3>1, Held DEF GuardsAt
    <3> QED BY <3>1, <3>2, ReadEnds DEF GuardsAt
  <2>4. CASE CreateCheck(c)
    <3>1. At(c, "create_check") /\ lock' = LessReads(lock, c, 1)
      BY <2>4 DEF CreateCheck
    <3>2. CASE Goes(c, "idle")
      BY <3>1, <3>2, ReadEnds DEF GuardsAt
    <3>3. CASE Goes(c, "create_alias")
      BY <3>1, <3>3, ReadEnds DEF GuardsAt
    <3> QED BY <2>4, <3>2, <3>3 DEF CreateCheck
  <2>5. CASE CreateAliasCheck(c)
    <3>1. At(c, "create_alias")
      BY <2>5 DEF CreateAliasCheck
    <3>2. CASE Goes(c, "idle") /\ lock' = lock
      BY <3>1, <3>2, LockKept, SMTT(30) DEF GuardsAt, WriterLabels, WriteLabels
    <3>3. CASE Goes(c, "create_new") /\ lock' = lock
      BY <3>1, <3>3, LockKept, SMTT(30) DEF GuardsAt, WriterLabels, WriteLabels
    <3>4. CASE Goes(c, "from_alias") /\ lock' = Asking(lock, c, "read")
      <4>1. ~ InQueue(lock.queue, c) /\ lock.readers[c] = 0 /\ lock.writer # c
        BY <3>1, Held DEF GuardsAt, WriterLabels, WriteLabels
      <4> QED BY <3>4, <4>1, LockAsk, Zenon DEF ReadLabels, Goes
    <3> QED BY <2>5, <3>2, <3>3, <3>4, Zenon DEF CreateAliasCheck
  <2>15. CASE FromAlias(c)
    <3>1. At(c, "from_alias") /\ pc' = [pc EXCEPT ![c] = "from_exists"] /\ lock' = Asking(lock, c, "read")
      BY <2>15 DEF FromAlias, ResolveName, Goes
    <3>2. ~ InQueue(lock.queue, c) /\ lock.readers[c] = 1 /\ lock.writer # c
      BY <3>1, Held DEF GuardsAt, WriterLabels, WriteLabels
    <3> QED BY <3>1, <3>2, LockAsk, Zenon DEF ReadLabels
  <2>16. CASE FromExists(c)
    <3>1. At(c, "from_exists")
      BY <2>16 DEF FromExists, Exists
    <3>2. lock.readers[c] = 2
      BY <3>1, Held DEF GuardsAt
    <3>3. CASE lock' = LessReads(lock, c, 1) /\ Goes(c, "from_using")
      BY <3>1, <3>3, ReadEnds DEF GuardsAt
    <3>4. CASE lock' = LessReads(lock, c, lock.readers[c]) /\ Goes(c, "idle")
      BY <3>1, <3>2, <3>4, ReadEnds DEF GuardsAt
    <3> QED BY <2>16, <3>3, <3>4 DEF FromExists, Exists
  <2>17. CASE FromCompare(c)
    <3>1. At(c, "from_using") /\ lock' = LessReads(lock, c, lock.readers[c])
      BY <2>17 DEF FromCompare
    <3>2. lock.readers[c] = 1
      BY <3>1, Held DEF GuardsAt
    <3>3. CASE Goes(c, "idle")
      BY <3>1, <3>2, <3>3, ReadEnds DEF GuardsAt
    <3>4. CASE Goes(c, "create_new")
      BY <3>1, <3>2, <3>4, ReadEnds DEF GuardsAt
    <3> QED BY <2>17, <3>3, <3>4 DEF FromCompare
  <2>18. CASE CreateNew(c)
    <3>1. At(c, "create_new") /\ pc' = [pc EXCEPT ![c] = "create_insert"] /\ lock' = Asking(lock, c, "write")
      BY <2>18 DEF CreateNew, Goes
    <3>2. ~ InQueue(lock.queue, c) /\ lock.readers[c] = 0 /\ lock.writer # c
      BY <3>1, Held DEF GuardsAt, WriterLabels, WriteLabels
    <3> QED BY <3>1, <3>2, LockAsk, Zenon DEF WriteLabels
  <2>6. CASE CreateInsert(c)
    BY <2>6, WriteEnds DEF CreateInsert, WriteLabels
  <2>7. CASE DeleteRemove(c)
    <3>1. At(c, "delete")
      BY <2>7 DEF DeleteRemove
    <3>2. CASE Goes(c, "delete_aliases") /\ lock' = lock
      BY <3>1, <3>2, LockKept DEF GuardsAt, WriterLabels, WriteLabels
    <3>3. CASE Goes(c, "idle") /\ lock' = NoWriter(lock)
      BY <3>1, <3>3, WriteEnds DEF WriteLabels
    <3> QED BY <2>7, <3>2, <3>3 DEF DeleteRemove
  <2>8. CASE DeleteAliases(c)
    BY <2>8, WriteEnds DEF DeleteAliases, WriterLabels
  <2>9. CASE BeginAliases(c)
    BY <2>9, LockKept DEF BeginAliases, GuardsAt, WriterLabels, WriteLabels
  <2>10. CASE ChangeAliases(c)
    <3>1. At(c, "alias_action")
      BY <2>10 DEF ChangeAliases
    <3>2. CASE lock' = lock /\ pc' = pc
      <4>1. Goes(c, "alias_action")
        BY <3>1, <3>2 DEF Goes, At, CallInv
      <4> QED BY <3>1, <3>2, <4>1, LockKept
    <3>3. CASE Goes(c, "idle") /\ lock' = NoWriter(lock)
      BY <3>1, <3>3, WriteEnds DEF WriterLabels
    <3> QED BY <2>10, <3>2, <3>3 DEF ChangeAliases
  <2>11. CASE EndAliases(c)
    BY <2>11, WriteEnds DEF EndAliases, WriterLabels
  <2>12. CASE SnapshotCollections(c)
    BY <2>12, LockKept, SMTT(30) DEF SnapshotCollections, GuardsAt, WriterLabels, WriteLabels
  <2>13. CASE SnapshotDelete(c)
    <3>1. At(c, "snapshot_delete") /\ lock' = Asking(lock, c, "write") /\ pc' = pc
      BY <2>13 DEF SnapshotDelete
    <3>2. pc' = [pc EXCEPT ![c] = "snapshot_delete"]
      BY <3>1 DEF At, CallInv
    <3>3. ~ InQueue(lock.queue, c) /\ lock.readers[c] = 0 /\ lock.writer = c
      BY <3>1, Held DEF GuardsAt, WriterLabels, WriteLabels
    <3> QED BY <3>1, <3>2, <3>3, LockAsk, Zenon
  <2>14. CASE SnapshotAliases(c)
    BY <2>14, WriteEnds DEF SnapshotAliases, WriterLabels
  <2> QED
    BY <1>2, <2>1, <2>2, <2>3, <2>4, <2>5, <2>6, <2>7, <2>8, <2>9, <2>10, <2>11, <2>12, <2>13, <2>14,
       <2>15, <2>16, <2>17, <2>18, Zenon
    DEF Step
<1>3. CASE UNCHANGED vars
  BY <1>3 DEF vars, LockInv, Guards, Writes
<1> QED BY <1>1, <1>2, <1>3, LockGrant DEF Next

-----------------------------------------------------------------------------
(* Collections and aliases                                                 *)

\* While a caller writes, nobody has resolved a name, and nobody else is in the
\* middle of a change.
LEMMA WriterAlone ==
    ASSUME CallInv, LockInv, NEW c \in Callers, NEW label, At(c, label),
           label \in WriterLabels \cup WriteLabels
    PROVE  /\ pc[c] = label
           /\ \A d \in Callers : pc[d] \notin Resolved
           /\ \A d \in Callers : d # c => pc[d] \notin WriterLabels
<1>1. pc[c] = label /\ lock.writer = c /\ lock.writer # None
  BY Held
<1>2. ASSUME NEW d \in Callers, pc[d] \in Resolved PROVE FALSE
  <2>1. Guards(d) # 0
    BY <1>2 DEF Guards, Resolved
  <2> QED BY <1>1, <2>1 DEF LockInv
<1>3. ASSUME NEW d \in Callers, d # c, pc[d] \in WriterLabels PROVE FALSE
  <2>1. Writes(d)
    BY <1>3 DEF Writes
  <2> QED BY <1>1, <1>3, <2>1 DEF LockInv
<1> QED BY <1>1, <1>2, <1>3

\* At the beginning there is no alias.
LEMMA DataInit == Init => DataInv
<1> SUFFICES ASSUME Init PROVE DataInv
  OBVIOUS
<1>1. colls = Start /\ aliases = NoAliases /\ real = [c \in Callers |-> None]
      /\ \A c \in Callers : pc[c] = "idle"
  BY DEF Init
<1>2. aliases \in Aliasing /\ \A n \in Names : aliases[n] = None
  BY <1>1 DEF NoAliases, Aliasing
<1>3. colls \subseteq Names /\ real \in [Callers -> Names \cup {None}]
  BY <1>1, TocAssumption
<1> QED BY <1>1, <1>2, <1>3 DEF DataInv, Resolved, FromLabels

\* A caller goes on, and neither the collections nor the aliases change.
LEMMA DataSame ==
    ASSUME CallInv, DataInv, NEW c \in Callers, NEW label \in Labels,
           pc' = [pc EXCEPT ![c] = label], pc[c] # "delete_aliases",
           colls' = colls, aliases' = aliases, real' \in [Callers -> Names \cup {None}],
           \A d \in Callers : d # c => call'[d] = call[d] /\ real'[d] = real[d],
           label \in Resolved => real'[c] = Resolve(aliases, LookedUp(label, call'[c])),
           label \in {"using", "from_using"} => real'[c] \in colls,
           label \in FromLabels => call'[c].from \in Names,
           label = "snapshot_delete" => call'[c].collections \subseteq colls
    PROVE  DataInv'
<1>1. pc'[c] = label /\ \A d \in Callers : d # c => pc'[d] = pc[d]
  BY DEF CallInv
<1>2. ASSUME NEW n \in Names, aliases'[n] # None
      PROVE  \/ aliases'[n] \in colls'
             \/ \E d \in Callers : pc'[d] = "delete_aliases" /\ call'[d].name = aliases'[n]
  <2>1. CASE aliases[n] \in colls
    BY <2>1
  <2>2. CASE aliases[n] \notin colls
    <3>1. PICK d \in Callers : pc[d] = "delete_aliases" /\ call[d].name = aliases[n]
      BY <1>2, <2>2 DEF DataInv
    <3>2. pc'[d] = "delete_aliases" /\ call'[d].name = aliases'[n]
      BY <1>1, <3>1
    <3> QED BY <3>2
  <2> QED BY <2>1, <2>2
<1>3. ASSUME NEW d \in Callers
      PROVE  /\ pc'[d] \in Resolved => real'[d] = Resolve(aliases', LookedUp(pc'[d], call'[d]))
             /\ pc'[d] \in {"using", "from_using"} => real'[d] \in colls'
             /\ pc'[d] \in FromLabels => call'[d].from \in Names
             /\ pc'[d] = "snapshot_delete" => call'[d].collections \subseteq colls'
  <2>1. CASE d = c
    BY <1>1, <2>1
  <2>2. CASE d # c
    BY <1>1, <2>2 DEF DataInv
  <2> QED BY <2>1, <2>2
<1>4. colls' \subseteq Names /\ aliases' \in Aliasing
  BY DEF DataInv
<1> QED BY <1>2, <1>3, <1>4 DEF DataInv

\* A writer changes collections or aliases.
LEMMA DataWrite ==
    ASSUME CallInv, LockInv, DataInv, NEW c \in Callers, NEW label, At(c, label),
           label \in WriterLabels \cup WriteLabels,
           NEW next \in Labels \ (Resolved \cup {"from_alias"}), pc' = [pc EXCEPT ![c] = next],
           colls' \subseteq Names, aliases' \in Aliasing, real' = real,
           \A d \in Callers : d # c => call'[d] = call[d],
           \A n \in Names : aliases'[n] # None =>
               \/ aliases'[n] \in colls'
               \/ next = "delete_aliases" /\ call'[c].name = aliases'[n],
           next = "snapshot_delete" => call'[c].collections \subseteq colls'
    PROVE  DataInv'
<1>1. pc'[c] = next /\ \A d \in Callers : d # c => pc'[d] = pc[d]
  BY DEF CallInv
<1>2. \A d \in Callers : pc'[d] \notin Resolved
  BY <1>1, WriterAlone
<1>3. \A d \in Callers : d # c => pc'[d] # "snapshot_delete"
  BY <1>1, WriterAlone DEF WriterLabels
<1>4. \A d \in Callers : pc'[d] = "snapshot_delete" => call'[d].collections \subseteq colls'
  BY <1>1, <1>3
<1>5. \A n \in Names : aliases'[n] # None =>
          \/ aliases'[n] \in colls'
          \/ \E d \in Callers : pc'[d] = "delete_aliases" /\ call'[d].name = aliases'[n]
  BY <1>1
<1>6. real' \in [Callers -> Names \cup {None}]
  BY DEF DataInv
<1>7. \A d \in Callers : pc'[d] \in FromLabels => call'[d].from \in Names
  BY <1>1, <1>2 DEF DataInv, FromLabels, Resolved
<1> QED BY <1>2, <1>4, <1>5, <1>6, <1>7 DEF DataInv, Resolved

\* While a caller writes, an alias that leads to no collection leads to the one
\* that this caller deletes.
LEMMA WriterTargets ==
    ASSUME CallInv, LockInv, DataInv, NEW c \in Callers, NEW label, At(c, label),
           label \in WriterLabels \cup WriteLabels, NEW n \in Names, aliases[n] # None
    PROVE  aliases[n] \in colls \/ (label = "delete_aliases" /\ call[c].name = aliases[n])
<1>1. CASE aliases[n] \in colls
  BY <1>1
<1>2. CASE aliases[n] \notin colls
  <2>1. PICK d \in Callers : pc[d] = "delete_aliases" /\ call[d].name = aliases[n]
    BY <1>2 DEF DataInv
  <2>2. d = c
    BY <2>1, WriterAlone DEF WriterLabels
  <2> QED BY <2>1, <2>2, WriterAlone
<1> QED BY <1>1, <1>2

\* An action of update_aliases that is not refused leads an alias to a collection
\* only, and unless it renames one, it gives no collection's name to an alias.
LEMMA ChangeAliasKeeps ==
    ASSUME NEW as \in Aliasing, NEW cs \in SUBSET Names, NEW a \in AliasActions,
           \A n \in Names : as[n] # None => as[n] \in cs,
           ChangeAlias([ok |-> TRUE, aliases |-> as], a, cs).ok
    PROVE  LET bs == ChangeAlias([ok |-> TRUE, aliases |-> as], a, cs).aliases IN
           /\ bs \in Aliasing
           /\ \A n \in Names : bs[n] # None => bs[n] \in cs
           /\ a.kind # "rename" /\ (\A n \in cs : as[n] = None) => \A n \in cs : bs[n] = None
<1> DEFINE r == [ok |-> TRUE, aliases |-> as]
           R == ChangeAlias(r, a, cs)
<1>1. r.ok = TRUE /\ r.aliases = as
  OBVIOUS
<1>2. CASE a.kind = "create"
  <2>1. a.alias \in Names /\ a.collection \in Names
    BY <1>2 DEF AliasActions
  <2>2. R = IF a.collection \in cs /\ a.alias \notin cs
            THEN [r EXCEPT !.aliases[a.alias] = a.collection] ELSE [r EXCEPT !.ok = FALSE]
    BY <1>2 DEF ChangeAlias
  <2>3. a.collection \in cs /\ a.alias \notin cs
    BY <2>2
  <2>4. R.aliases = [as EXCEPT ![a.alias] = a.collection]
    BY <2>2, <2>3, Zenon
  <2> QED BY <2>1, <2>3, <2>4, Zenon DEF Aliasing
<1>3. CASE a.kind = "delete"
  <2>1. a.alias \in Names
    BY <1>3 DEF AliasActions
  <2>2. R = [r EXCEPT !.aliases[a.alias] = None]
    BY <1>3 DEF ChangeAlias
  <2>3. R.aliases = [as EXCEPT ![a.alias] = None]
    BY <2>2, Zenon
  <2> QED BY <2>1, <2>3, Zenon DEF Aliasing
<1>4. CASE a.kind = "rename"
  <2>1. a.alias \in Names /\ a.new \in Names
    BY <1>4 DEF AliasActions
  <2>2. R = IF r.aliases[a.alias] # None
            THEN [r EXCEPT !.aliases[a.alias] = None, !.aliases[a.new] = r.aliases[a.alias]]
            ELSE [r EXCEPT !.ok = FALSE]
    BY <1>4 DEF ChangeAlias
  <2>3. as[a.alias] # None
    BY <2>2, Zenon
  <2>4. R.aliases = [[as EXCEPT ![a.alias] = None] EXCEPT ![a.new] = as[a.alias]]
    BY <2>2, <2>3, Zenon
  <2> QED BY <1>4, <2>1, <2>3, <2>4, Zenon DEF Aliasing
<1> QED BY <1>2, <1>3, <1>4, Zenon DEF AliasActions

\* The names and snapshots of the calls.
LEMMA CallNames ==
    ASSUME CallInv, NEW c \in Callers, pc[c] # "idle"
    PROVE  /\ KindAt(pc[c]) \in {"get", "create", "delete"} => call[c].name \in Names
           /\ KindAt(pc[c]) = "create" => call[c].from \in Names \cup {None}
           /\ KindAt(pc[c]) = "aliases" => call[c].actions \in Seq(AliasActions)
           /\ KindAt(pc[c]) = "snapshot" =>
                 /\ call[c].collections \subseteq Names /\ call[c].aliases \in Aliasing
                 /\ \A n \in Names : call[c].aliases[n] # None => call[c].aliases[n] \in call[c].collections
<1>1. call[c] \in Calls /\ call[c].kind = KindAt(pc[c])
  BY DEF CallInv, Makes
<1> QED BY <1>1 DEF Calls

\* Every step keeps the aliases leading to collections, and resolved names valid.
LEMMA DataStep == CallInv /\ LockInv /\ DataInv /\ [Next]_vars => DataInv'
<1> SUFFICES ASSUME CallInv, LockInv, DataInv, [Next]_vars PROVE DataInv'
  OBVIOUS
<1> USE DEF Labels
<1>1. real \in [Callers -> Names \cup {None}] /\ colls \subseteq Names /\ aliases \in Aliasing
  BY SMTT(30) DEF DataInv
<1>2. ASSUME NEW c \in Callers, NEW k \in scenario.may[c], Begin(c, k) PROVE DataInv'
  <2>1. k.kind \in {"get", "create", "delete", "aliases", "snapshot"}
    BY CallsAssumption DEF CallInv, Calls
  <2> DEFINE label == FirstStep[k.kind]
  <2>2. label \in Labels /\ label # "snapshot_delete" /\ label \notin Resolved \cup FromLabels
        /\ label \notin {"using", "from_using"}
    BY <2>1 DEF FirstStep, Resolved, FromLabels
  <2>3. /\ pc[c] = "idle" /\ pc' = [pc EXCEPT ![c] = label]
        /\ colls' = colls /\ aliases' = aliases /\ real' = real
        /\ \A d \in Callers : d # c => call'[d] = call[d]
    BY <1>2 DEF Begin, Goes, CallInv
  <2> HIDE DEF label
  <2> QED BY <1>1, <2>2, <2>3, DataSame, Zenon
<1>3. ASSUME NEW c \in Callers, Step(c) PROVE DataInv'
  <2> USE DEF Resolved, FromLabels
  <2>1. CASE GetAlias(c)
    <3>1. /\ pc[c] = "get_alias" /\ pc' = [pc EXCEPT ![c] = "get_exists"]
          /\ real' = [real EXCEPT ![c] = Resolve(aliases, call[c].name)]
          /\ colls' = colls /\ aliases' = aliases /\ call' = call
      BY <2>1 DEF GetAlias, ResolveName, At, Goes
    <3>2. call[c].name \in Names
      BY <3>1, CallNames DEF KindAt
    <3>3. Resolve(aliases, call[c].name) \in Names
      BY <1>1, <3>2, SMTT(30) DEF Resolve, Aliasing
    <3>4. LookedUp("get_exists", call[c]) = call[c].name
      BY DEF LookedUp
    <3> QED BY <1>1, <3>1, <3>3, <3>4, DataSame, Zenon
  <2>2. CASE GetExists(c)
    <3>1. /\ pc[c] = "get_exists" /\ real' = real /\ colls' = colls /\ aliases' = aliases /\ call' = call
      BY <2>2 DEF GetExists, Exists, At
    <3>2. real[c] = Resolve(aliases, LookedUp("using", call[c]))
      BY <3>1, SMTT(30) DEF DataInv, LookedUp
    <3>3. CASE real[c] \in colls /\ pc' = [pc EXCEPT ![c] = "using"]
      BY <1>1, <3>1, <3>2, <3>3, DataSame, Zenon
    <3>4. CASE pc' = [pc EXCEPT ![c] = "idle"]
      BY <1>1, <3>1, <3>4, DataSame, Zenon
    <3> QED BY <2>2, <3>3, <3>4 DEF GetExists, Exists, Goes
  <2>3. CASE Use(c)
    BY <1>1, <2>3, DataSame, Zenon DEF Use, At, Goes
  <2>4. CASE CreateCheck(c)
    BY <1>1, <2>4, DataSame, Zenon DEF CreateCheck, At, Goes
  <2>5. CASE CreateAliasCheck(c)
    <3>1. pc[c] = "create_alias" /\ real' = real /\ colls' = colls /\ aliases' = aliases /\ call' = call
      BY <2>5 DEF CreateAliasCheck, At
    <3>2. CASE pc' = [pc EXCEPT ![c] = "idle"] \/ pc' = [pc EXCEPT ![c] = "create_new"]
      BY <1>1, <3>1, <3>2, DataSame, Zenon
    <3>3. CASE call[c].from # None /\ pc' = [pc EXCEPT ![c] = "from_alias"]
      <4>1. call[c].from \in Names
        BY <3>1, <3>3, CallNames DEF KindAt
      <4> QED BY <1>1, <3>1, <3>3, <4>1, DataSame, Zenon
    <3> QED BY <2>5, <3>2, <3>3, Zenon DEF CreateAliasCheck, Goes
  <2>15. CASE FromAlias(c)
    <3>1. /\ pc[c] = "from_alias" /\ pc' = [pc EXCEPT ![c] = "from_exists"]
          /\ real' = [real EXCEPT ![c] = Resolve(aliases, call[c].from)]
          /\ colls' = colls /\ aliases' = aliases /\ call' = call
      BY <2>15 DEF FromAlias, ResolveName, At, Goes
    <3>2. call[c].from \in Names
      BY <3>1 DEF DataInv
    <3>3. Resolve(aliases, call[c].from) \in Names
      BY <1>1, <3>2, SMTT(30) DEF Resolve, Aliasing
    <3>4. LookedUp("from_exists", call[c]) = call[c].from
      BY DEF LookedUp
    <3> QED BY <1>1, <3>1, <3>2, <3>3, <3>4, DataSame, Zenon
  <2>16. CASE FromExists(c)
    <3>1. /\ pc[c] = "from_exists" /\ real' = real /\ colls' = colls /\ aliases' = aliases /\ call' = call
      BY <2>16 DEF FromExists, Exists, At
    <3>2. real[c] = Resolve(aliases, LookedUp("from_using", call[c])) /\ call[c].from \in Names
      BY <3>1, SMTT(30) DEF DataInv, LookedUp
    <3>3. CASE real[c] \in colls /\ pc' = [pc EXCEPT ![c] = "from_using"]
      BY <1>1, <3>1, <3>2, <3>3, DataSame, Zenon
    <3>4. CASE pc' = [pc EXCEPT ![c] = "idle"]
      BY <1>1, <3>1, <3>4, DataSame, Zenon
    <3> QED BY <2>16, <3>3, <3>4 DEF FromExists, Exists, Goes
  <2>17. CASE FromCompare(c)
    BY <1>1, <2>17, DataSame, Zenon DEF FromCompare, At, Goes
  <2>18. CASE CreateNew(c)
    BY <1>1, <2>18, DataSame, Zenon DEF CreateNew, At, Goes
  <2>6. CASE CreateInsert(c)
    <3>1. /\ At(c, "create_insert") /\ pc' = [pc EXCEPT ![c] = "idle"] /\ real' = real
          /\ colls' = colls \cup {call[c].name} /\ aliases' = aliases /\ call' = call
      BY <2>6 DEF CreateInsert, Goes
    <3>2. pc[c] = "create_insert" /\ call[c].name \in Names
      BY <3>1, CallNames, Kinds DEF At
    <3>3. \A n \in Names : aliases[n] # None => aliases[n] \in colls
      BY <3>1, WriterTargets DEF WriteLabels
    <3> QED BY <1>1, <3>1, <3>2, <3>3, DataWrite, Zenon DEF WriteLabels
  <2>7. CASE DeleteRemove(c)
    <3>1. At(c, "delete") /\ real' = real /\ aliases' = aliases /\ call' = call
      BY <2>7 DEF DeleteRemove
    <3>2. \A n \in Names : aliases[n] # None => aliases[n] \in colls
      BY <3>1, WriterTargets DEF WriteLabels
    <3>3. CASE colls' = colls \ {call[c].name} /\ pc' = [pc EXCEPT ![c] = "delete_aliases"]
      BY <1>1, <3>1, <3>2, <3>3, DataWrite, Zenon DEF WriteLabels
    <3>4. CASE colls' = colls /\ pc' = [pc EXCEPT ![c] = "idle"]
      BY <1>1, <3>1, <3>2, <3>4, DataWrite, Zenon DEF WriteLabels
    <3> QED BY <2>7, <3>3, <3>4 DEF DeleteRemove, Goes
  <2>8. CASE DeleteAliases(c)
    <3>1. /\ At(c, "delete_aliases") /\ pc' = [pc EXCEPT ![c] = "idle"] /\ real' = real
          /\ aliases' = RemoveCollection(aliases, call[c].name) /\ colls' = colls /\ call' = call
      BY <2>8 DEF DeleteAliases, Goes
    <3>2. \A n \in Names : aliases[n] # None => aliases[n] \in colls \/ call[c].name = aliases[n]
      BY <3>1, WriterTargets DEF WriterLabels
    <3>3. aliases' \in Aliasing
          /\ \A n \in Names : aliases'[n] # None => aliases[n] # call[c].name /\ aliases'[n] = aliases[n]
      BY <1>1, <3>1 DEF RemoveCollection, Aliasing
    <3> QED BY <1>1, <3>1, <3>2, <3>3, DataWrite, Zenon DEF WriterLabels
  <2>9. CASE BeginAliases(c)
    BY <1>1, <2>9, DataSame, Zenon DEF BeginAliases, At, Goes
  <2>10. CASE ChangeAliases(c)
    <3>1. /\ At(c, "alias_action") /\ pc[c] = "alias_action" /\ real' = real /\ colls' = colls
          /\ call[c].actions # <<>>
      BY <2>10, SMTT(30) DEF ChangeAliases, At
    <3>2. CASE aliases' = aliases /\ call' = call /\ pc' = [pc EXCEPT ![c] = "idle"]
      BY <1>1, <3>1, <3>2, DataSame, Zenon
    <3>3. CASE /\ Change(c).ok /\ aliases' = Change(c).aliases /\ pc' = pc
               /\ call' = [call EXCEPT ![c].actions = Tail(@)]
      <4>1. call[c].actions \in Seq(AliasActions)
        BY <3>1, CallNames DEF KindAt
      <4>2. Head(call[c].actions) \in AliasActions
        BY <3>1, <4>1
      <4>3. \A n \in Names : aliases[n] # None => aliases[n] \in colls
        BY <3>1, WriterTargets DEF WriterLabels
      <4>4. aliases' \in Aliasing /\ \A n \in Names : aliases'[n] # None => aliases'[n] \in colls
        BY <1>1, <3>3, <4>2, <4>3, ChangeAliasKeeps, Zenon DEF Change
      <4>5. pc' = [pc EXCEPT ![c] = "alias_action"]
        BY <3>1, <3>3 DEF CallInv
      <4>6. \A d \in Callers : d # c => call'[d] = call[d]
        BY <3>3 DEF CallInv
      <4> QED BY <1>1, <3>1, <4>4, <4>5, <4>6, DataWrite, Zenon DEF WriterLabels
    <3> QED BY <2>10, <3>2, <3>3 DEF ChangeAliases, Goes
  <2>11. CASE EndAliases(c)
    BY <1>1, <2>11, DataSame, Zenon DEF EndAliases, At, Goes
  <2>12. CASE SnapshotCollections(c)
    <3>1. /\ At(c, "snapshot") /\ pc' = [pc EXCEPT ![c] = "snapshot_delete"] /\ real' = real
          /\ colls' = colls \cup call[c].collections /\ aliases' = aliases /\ call' = call
      BY <2>12 DEF SnapshotCollections, Goes
    <3>2. pc[c] = "snapshot" /\ call[c].collections \subseteq Names
      BY <3>1, CallNames DEF At, KindAt
    <3>3. \A n \in Names : aliases[n] # None => aliases[n] \in colls
      BY <3>1, WriterTargets DEF WriteLabels
    <3> QED BY <1>1, <3>1, <3>2, <3>3, DataWrite, Zenon DEF WriteLabels
  <2>13. CASE SnapshotDelete(c)
    BY <2>13 DEF SnapshotDelete, DataInv
  <2>14. CASE SnapshotAliases(c)
    <3>1. /\ At(c, "snapshot_delete") /\ pc' = [pc EXCEPT ![c] = "idle"] /\ real' = real
          /\ aliases' = call[c].aliases /\ colls' = colls /\ call' = call
      BY <2>14 DEF SnapshotAliases, Goes
    <3>2. /\ pc[c] = "snapshot_delete" /\ call[c].aliases \in Aliasing
          /\ \A n \in Names : call[c].aliases[n] # None => call[c].aliases[n] \in call[c].collections
      BY <3>1, CallNames DEF At, KindAt
    <3>3. call[c].collections \subseteq colls
      BY <3>2 DEF DataInv
    <3> QED BY <1>1, <3>1, <3>2, <3>3, DataWrite, Zenon DEF WriterLabels
  <2> QED
    BY <1>3, <2>1, <2>2, <2>3, <2>4, <2>5, <2>6, <2>7, <2>8, <2>9, <2>10, <2>11, <2>12, <2>13, <2>14,
       <2>15, <2>16, <2>17, <2>18, Zenon
    DEF Step
<1>4. CASE UNCHANGED vars \/ Grant
  BY <1>4 DEF vars, Grant, DataInv
<1> QED BY <1>2, <1>3, <1>4 DEF Next

-----------------------------------------------------------------------------
(* Names that are both                                                     *)

\* Whoever does more than look a collection up is the one that makes changes.
LEMMA TheOneThatChanges ==
    ASSUME CallInv, OneChanges, NEW c \in Callers, NEW d \in Callers,
           pc[c] # "idle", KindAt(pc[c]) # "get", pc[d] # "idle", KindAt(pc[d]) # "get"
    PROVE  c = d
<1>1. ASSUME NEW e \in Callers, pc[e] # "idle", KindAt(pc[e]) # "get" PROVE e \in Changing
  <2>1. PICK m \in scenario.may[e] : m.kind = call[e].kind
    BY <1>1 DEF CallInv, Makes
  <2>2. m.kind # "get"
    BY <1>1, <2>1 DEF CallInv, Makes
  <2> QED BY <2>2 DEF Changing
<1> QED BY <1>1 DEF OneChanges

\* It renames no alias.
LEMMA NextIsNoRename ==
    ASSUME CallInv, OneChanges, NEW c \in Callers, pc[c] = "alias_action", call[c].actions # <<>>
    PROVE  Head(call[c].actions).kind # "rename"
<1>1. call[c].actions \in Seq(AliasActions)
  BY CallNames DEF KindAt
<1>2. 1 \in 1..Len(call[c].actions) /\ Head(call[c].actions) = call[c].actions[1]
  BY <1>1
<1>3. call[c].kind = "aliases"
  BY DEF CallInv, Makes, KindAt
<1>4. PICK m \in scenario.may[c] :
          /\ m.kind = "aliases"
          /\ \E j \in 1..Len(m.actions) : call[c].actions[1] = m.actions[j]
  BY <1>2, <1>3 DEF CallInv, Makes
<1> QED BY <1>2, <1>4 DEF OneChanges, Renaming

\* And the snapshot it applies keeps collections and aliases apart.
LEMMA SnapshotIsApart ==
    ASSUME CallInv, OneChanges, NEW c \in Callers, pc[c] = "snapshot_delete",
           NEW n \in call[c].collections
    PROVE  call[c].aliases[n] = None
<1>1. call[c].kind = "snapshot"
  BY DEF CallInv, Makes, KindAt
<1>2. call[c] \in scenario.may[c]
  BY <1>1 DEF CallInv, Makes
<1> QED BY <1>1, <1>2 DEF OneChanges, Shadowing

\* A caller goes on, and neither the collections nor the aliases change.
LEMMA ShadowSame ==
    ASSUME CallInv, ShadowInv, scenario' = scenario, NEW c \in Callers, NEW label \in Labels,
           pc' = [pc EXCEPT ![c] = label], pc[c] # "snapshot_delete",
           aliases' = aliases, colls' \subseteq colls,
           \A d \in Callers : d # c => call'[d] = call[d],
           label \in FreeLabels => aliases[call'[c].name] = None
    PROVE  ShadowInv'
<1> SUFFICES ASSUME OneChanges'
             PROVE  /\ \A d \in Callers : pc'[d] \in FreeLabels => aliases'[call'[d].name] = None
                    /\ (\A d \in Callers : pc'[d] # "snapshot_delete") => \A n \in colls' : aliases'[n] = None
  BY DEF ShadowInv
<1>1. OneChanges
  BY DEF OneChanges, Changing, Renaming, Shadowing
<1>2. pc'[c] = label /\ \A d \in Callers : d # c => pc'[d] = pc[d]
  BY DEF CallInv
<1>3. ASSUME NEW d \in Callers, pc'[d] \in FreeLabels PROVE aliases'[call'[d].name] = None
  <2>1. CASE d = c
    BY <1>2, <1>3, <2>1
  <2>2. CASE d # c
    BY <1>1, <1>2, <1>3, <2>2 DEF ShadowInv
  <2> QED BY <2>1, <2>2
<1>4. ASSUME \A d \in Callers : pc'[d] # "snapshot_delete" PROVE \A n \in colls' : aliases'[n] = None
  <2>1. \A d \in Callers : pc[d] # "snapshot_delete"
    BY <1>2, <1>4
  <2> QED BY <1>1, <2>1 DEF ShadowInv
<1> QED BY <1>3, <1>4

\* A caller that has found its name to be no alias goes on, or gives up.
LEMMA ShadowMoves ==
    ASSUME CallInv, ShadowInv, scenario' = scenario, NEW c \in Callers,
           NEW label \in FreeLabels \cup {"idle"}, pc' = [pc EXCEPT ![c] = label],
           pc[c] \in FreeLabels, aliases' = aliases, colls' = colls, call' = call
    PROVE  ShadowInv'
<1> SUFFICES ASSUME OneChanges'
             PROVE  /\ \A d \in Callers : pc'[d] \in FreeLabels => aliases'[call'[d].name] = None
                    /\ (\A d \in Callers : pc'[d] # "snapshot_delete") => \A n \in colls' : aliases'[n] = None
  BY DEF ShadowInv
<1>1. OneChanges
  BY DEF OneChanges, Changing, Renaming, Shadowing
<1>2. pc'[c] = label /\ \A d \in Callers : d # c => pc'[d] = pc[d]
  BY DEF CallInv
<1>3. \A d \in Callers : pc'[d] \in FreeLabels => pc[d] \in FreeLabels
  BY <1>2
<1>4. (\A d \in Callers : pc'[d] # "snapshot_delete") => \A d \in Callers : pc[d] # "snapshot_delete"
  BY <1>2 DEF FreeLabels, FromLabels
<1> QED BY <1>1, <1>3, <1>4 DEF ShadowInv

\* The one that changes ends a change of collections or aliases.
LEMMA ShadowChange ==
    ASSUME CallInv, ShadowInv, scenario' = scenario, NEW c \in Callers, NEW label \in Labels,
           pc' = [pc EXCEPT ![c] = label], pc[c] # "idle", KindAt(pc[c]) # "get",
           label \notin FreeLabels,
           OneChanges => (label = "snapshot_delete" \/ \A n \in colls' : aliases'[n] = None)
    PROVE  ShadowInv'
<1> SUFFICES ASSUME OneChanges'
             PROVE  /\ \A d \in Callers : pc'[d] \in FreeLabels => aliases'[call'[d].name] = None
                    /\ (\A d \in Callers : pc'[d] # "snapshot_delete") => \A n \in colls' : aliases'[n] = None
  BY DEF ShadowInv
<1>1. OneChanges
  BY DEF OneChanges, Changing, Renaming, Shadowing
<1>2. pc'[c] = label /\ \A d \in Callers : d # c => pc'[d] = pc[d]
  BY DEF CallInv
<1>3. ASSUME NEW d \in Callers, pc'[d] \in FreeLabels PROVE FALSE
  <2>1. d # c /\ pc[d] \in FreeLabels
    BY <1>2, <1>3
  <2>2. KindAt(pc[d]) # "get" /\ pc[d] # "idle"
    BY <2>1 DEF KindAt, FreeLabels, FromLabels
  <2> QED BY <1>1, <2>1, <2>2, TheOneThatChanges
<1> QED BY <1>1, <1>2, <1>3

\* While the one that changes is not between the collections and the aliases of a
\* snapshot, no name is both.
LEMMA NoneIsBoth ==
    ASSUME CallInv, ShadowInv, OneChanges, NEW c \in Callers, pc[c] # "idle",
           KindAt(pc[c]) # "get", pc[c] # "snapshot_delete"
    PROVE  \A n \in colls : aliases[n] = None
<1>1. ASSUME NEW d \in Callers, pc[d] = "snapshot_delete" PROVE FALSE
  <2>1. KindAt(pc[d]) # "get" /\ pc[d] # "idle"
    BY <1>1 DEF KindAt
  <2> QED BY <1>1, <2>1, TheOneThatChanges
<1> QED BY <1>1 DEF ShadowInv

\* Every step keeps names apart.
LEMMA ShadowStep == CallInv /\ LockInv /\ DataInv /\ ShadowInv /\ [Next]_vars => ShadowInv'
<1> SUFFICES ASSUME CallInv, LockInv, DataInv, ShadowInv, [Next]_vars PROVE ShadowInv'
  OBVIOUS
<1> USE DEF Labels
<1>1. ASSUME NEW c \in Callers, NEW k \in scenario.may[c], Begin(c, k) PROVE ShadowInv'
  <2>1. k.kind \in {"get", "create", "delete", "aliases", "snapshot"}
    BY CallsAssumption DEF CallInv, Calls
  <2> DEFINE label == FirstStep[k.kind]
  <2>2. label \in Labels /\ label \notin FreeLabels
    BY <2>1 DEF FirstStep, FreeLabels, FromLabels
  <2>3. /\ pc[c] = "idle" /\ pc' = [pc EXCEPT ![c] = label] /\ scenario' = scenario
        /\ colls' = colls /\ aliases' = aliases
        /\ \A d \in Callers : d # c => call'[d] = call[d]
    BY <1>1 DEF Begin, Goes, CallInv
  <2> HIDE DEF label
  <2> QED BY <2>2, <2>3, ShadowSame, Zenon
<1>2. ASSUME NEW c \in Callers, Step(c) PROVE ShadowInv'
  <2> USE DEF FreeLabels, FromLabels
  <2>1. CASE GetAlias(c)
    BY <2>1, ShadowSame, Zenon DEF GetAlias, ResolveName, At, Goes
  <2>2. CASE GetExists(c)
    BY <2>2, ShadowSame, SMTT(30) DEF GetExists, Exists, At, Goes
  <2>3. CASE Use(c)
    BY <2>3, ShadowSame, Zenon DEF Use, At, Goes
  <2>4. CASE CreateCheck(c)
    BY <2>4, ShadowSame, Zenon DEF CreateCheck, At, Goes
  <2>5. CASE CreateAliasCheck(c)
    <3>1. pc[c] = "create_alias" /\ scenario' = scenario /\ colls' = colls /\ aliases' = aliases /\ call' = call
      BY <2>5 DEF CreateAliasCheck, At
    <3>2. CASE pc' = [pc EXCEPT ![c] = "idle"]
      BY <3>1, <3>2, ShadowSame, Zenon
    <3>3. ASSUME NEW next \in {"create_new", "from_alias"}, aliases[call[c].name] = None,
                 pc' = [pc EXCEPT ![c] = next]
          PROVE  ShadowInv'
      BY <3>1, <3>3, ShadowSame, Zenon
    <3> QED BY <2>5, <3>2, <3>3, Zenon DEF CreateAliasCheck, Goes
  <2>15. CASE FromAlias(c)
    <3>1. /\ pc[c] = "from_alias" /\ pc' = [pc EXCEPT ![c] = "from_exists"] /\ scenario' = scenario
          /\ colls' = colls /\ aliases' = aliases /\ call' = call
      BY <2>15 DEF FromAlias, ResolveName, At, Goes
    <3> QED BY <3>1, ShadowMoves
  <2>16. CASE FromExists(c)
    <3>1. /\ pc[c] = "from_exists" /\ scenario' = scenario
          /\ colls' = colls /\ aliases' = aliases /\ call' = call
      BY <2>16 DEF FromExists, Exists, At
    <3>2. pc' = [pc EXCEPT ![c] = "from_using"] \/ pc' = [pc EXCEPT ![c] = "idle"]
      BY <2>16 DEF FromExists, Exists, Goes
    <3> QED BY <3>1, <3>2, ShadowMoves
  <2>17. CASE FromCompare(c)
    <3>1. /\ pc[c] = "from_using" /\ scenario' = scenario
          /\ colls' = colls /\ aliases' = aliases /\ call' = call
      BY <2>17 DEF FromCompare, At
    <3>2. pc' = [pc EXCEPT ![c] = "create_new"] \/ pc' = [pc EXCEPT ![c] = "idle"]
      BY <2>17 DEF FromCompare, Goes
    <3> QED BY <3>1, <3>2, ShadowMoves
  <2>18. CASE CreateNew(c)
    <3>1. /\ pc[c] = "create_new" /\ pc' = [pc EXCEPT ![c] = "create_insert"] /\ scenario' = scenario
          /\ colls' = colls /\ aliases' = aliases /\ call' = call
      BY <2>18 DEF CreateNew, At, Goes
    <3> QED BY <3>1, ShadowMoves
  <2>6. CASE CreateInsert(c)
    <3>1. /\ pc[c] = "create_insert" /\ pc' = [pc EXCEPT ![c] = "idle"] /\ scenario' = scenario
          /\ colls' = colls \cup {call[c].name} /\ aliases' = aliases
      BY <2>6 DEF CreateInsert, At, Goes
    <3>2. KindAt(pc[c]) # "get"
      BY <3>1 DEF KindAt
    <3>3. OneChanges => \A n \in colls' : aliases'[n] = None
      BY <3>1, <3>2, NoneIsBoth DEF ShadowInv
    <3> QED BY <3>1, <3>2, <3>3, ShadowChange, Zenon
  <2>7. CASE DeleteRemove(c)
    BY <2>7, ShadowSame, SMTT(30) DEF DeleteRemove, At, Goes
  <2>8. CASE DeleteAliases(c)
    <3>1. /\ pc[c] = "delete_aliases" /\ pc' = [pc EXCEPT ![c] = "idle"] /\ scenario' = scenario
          /\ aliases' = RemoveCollection(aliases, call[c].name) /\ colls' = colls
      BY <2>8 DEF DeleteAliases, At, Goes
    <3>2. KindAt(pc[c]) # "get"
      BY <3>1 DEF KindAt
    <3>3. \A n \in Names : aliases[n] = None => aliases'[n] = None
      BY <3>1 DEF RemoveCollection
    <3>4. OneChanges => \A n \in colls' : aliases'[n] = None
      BY <3>1, <3>2, <3>3, NoneIsBoth, SMTT(30) DEF DataInv
    <3> QED BY <3>1, <3>2, <3>4, ShadowChange, Zenon
  <2>9. CASE BeginAliases(c)
    BY <2>9, ShadowSame, Zenon DEF BeginAliases, At, Goes
  <2>10. CASE ChangeAliases(c)
    <3>1. /\ At(c, "alias_action") /\ pc[c] = "alias_action" /\ scenario' = scenario /\ colls' = colls
          /\ call[c].actions # <<>>
      BY <2>10, SMTT(30) DEF ChangeAliases, At
    <3>2. CASE aliases' = aliases /\ call' = call /\ pc' = [pc EXCEPT ![c] = "idle"]
      BY <3>1, <3>2, ShadowSame, Zenon
    <3>3. CASE Change(c).ok /\ aliases' = Change(c).aliases /\ pc' = pc
      <4>1. Head(call[c].actions) \in AliasActions
        BY <3>1, CallNames DEF KindAt
      <4>2. \A n \in Names : aliases[n] # None => aliases[n] \in colls
        BY <3>1, WriterTargets DEF WriterLabels
      <4>3. aliases \in Aliasing /\ colls \in SUBSET Names
        BY DEF DataInv
      <4>4. KindAt(pc[c]) # "get"
        BY <3>1 DEF KindAt
      <4>5. OneChanges => \A n \in colls' : aliases'[n] = None
        BY <3>1, <3>3, <4>1, <4>2, <4>3, <4>4, NoneIsBoth, NextIsNoRename, ChangeAliasKeeps, Zenon DEF Change
      <4>6. pc' = [pc EXCEPT ![c] = "alias_action"]
        BY <3>1, <3>3 DEF CallInv
      <4> QED BY <3>1, <4>4, <4>5, <4>6, ShadowChange, Zenon
    <3> QED BY <2>10, <3>2, <3>3 DEF ChangeAliases, Goes
  <2>11. CASE EndAliases(c)
    BY <2>11, ShadowSame, Zenon DEF EndAliases, At, Goes
  <2>12. CASE SnapshotCollections(c)
    <3>1. pc[c] = "snapshot" /\ pc' = [pc EXCEPT ![c] = "snapshot_delete"] /\ scenario' = scenario
      BY <2>12 DEF SnapshotCollections, At, Goes
    <3>2. KindAt(pc[c]) # "get"
      BY <3>1 DEF KindAt
    <3> QED BY <3>1, <3>2, ShadowChange, Zenon
  <2>13. CASE SnapshotDelete(c)
    BY <2>13, SMTT(30) DEF SnapshotDelete, ShadowInv, OneChanges, Changing, Renaming, Shadowing
  <2>14. CASE SnapshotAliases(c)
    <3>1. /\ pc[c] = "snapshot_delete" /\ pc' = [pc EXCEPT ![c] = "idle"] /\ scenario' = scenario
          /\ aliases' = call[c].aliases /\ colls' = colls /\ colls \ call[c].collections = {}
      BY <2>14 DEF SnapshotAliases, At, Goes
    <3>2. KindAt(pc[c]) # "get"
      BY <3>1 DEF KindAt
    <3>3. OneChanges => \A n \in colls' : aliases'[n] = None
      BY <3>1, SnapshotIsApart
    <3> QED BY <3>1, <3>2, <3>3, ShadowChange, Zenon
  <2> QED
    BY <1>2, <2>1, <2>2, <2>3, <2>4, <2>5, <2>6, <2>7, <2>8, <2>9, <2>10, <2>11, <2>12, <2>13, <2>14,
       <2>15, <2>16, <2>17, <2>18, Zenon
    DEF Step
<1>3. CASE UNCHANGED vars \/ Grant
  BY <1>3 DEF vars, Grant, ShadowInv, OneChanges, Changing, Renaming, Shadowing
<1> QED BY <1>1, <1>2, <1>3 DEF Next

-----------------------------------------------------------------------------
(* The invariant of the table of contents                                  *)

\* Nobody makes more calls than the scenario has.
LEMMA MadeStep == CallInv /\ MadeInv /\ [Next]_vars => MadeInv'
<1> SUFFICES ASSUME CallInv, MadeInv, [Next]_vars PROVE MadeInv'
  OBVIOUS
<1>1. scenario.calls \in Nat
  BY TocAssumption DEF CallInv
<1>2. ASSUME NEW c \in Callers, NEW k \in scenario.may[c], Begin(c, k) PROVE MadeInv'
  BY <1>1, <1>2 DEF Begin, MadeInv
<1>3. ASSUME made' = made, scenario' = scenario PROVE MadeInv'
  BY <1>3 DEF MadeInv
<1>4. ASSUME NEW c \in Callers, Step(c) PROVE made' = made /\ scenario' = scenario
  BY <1>4 DEF Step, GetAlias, GetExists, ResolveName, Exists, Use, CreateCheck, CreateAliasCheck,
              FromAlias, FromExists, FromCompare, CreateNew, CreateInsert,
              DeleteRemove, DeleteAliases, BeginAliases, ChangeAliases, EndAliases,
              SnapshotCollections, SnapshotDelete, SnapshotAliases
<1> QED BY <1>2, <1>3, <1>4 DEF Next, Grant, vars

\* The invariant holds at the beginning.
LEMMA TocInitially == Init => TocInv
<1> SUFFICES ASSUME Init PROVE TocInv
  OBVIOUS
<1>1. ShadowInv
  <2>1. \A n \in Names : aliases[n] = None
    BY Zenon DEF Init, NoAliases
  <2> QED BY <2>1, TocAssumption DEF Init, ShadowInv, FreeLabels, FromLabels
<1>2. MadeInv
  BY TocAssumption DEF Init, MadeInv
<1> QED BY <1>1, <1>2, CallInit, LockInit, DataInit DEF TocInv

\* The invariant holds always, whatever calls are made and however they interleave.
THEOREM TocInvariant == Spec => []TocInv
<1>1. TocInv /\ [Next]_vars => TocInv'
  BY CallStep, LockStep, DataStep, ShadowStep, MadeStep DEF TocInv
<1> QED BY <1>1, TocInitially, PTL DEF Spec

\* Nobody writes: no change of a collection or an alias is half done.
LEMMA NoWriterNoChange ==
    ASSUME TocInv, lock.writer = None, NEW c \in Callers
    PROVE  pc[c] \notin WriterLabels
BY TocAssumption DEF TocInv, LockInv, Writes

\* The state of TableOfContent is well typed, and the collections are locked by
\* one writer or by readers (TypeOK).
THEOREM TocTypeCorrect == Spec => []TypeOK
<1>1. TocInv => TypeOK
  <2> SUFFICES ASSUME TocInv PROVE TypeOK
    OBVIOUS
  <2>1. CallInv /\ LockInv /\ DataInv /\ MadeInv
    BY SMTT(30) DEF TocInv
  <2>2. lock.readers \in [Callers -> Nat] /\ lock.writer \in Callers \cup {None}
        /\ \A c \in Callers : lock.readers[c] = Guards(c)
    BY <2>1 DEF LockInv, LockType
  <2>3. \A c \in Callers : Guards(c) \in 0..2 /\ (pc[c] = "idle" => Guards(c) = 0)
    BY DEF Guards
  <2>4. lock.readers \in [Callers -> 0..2]
    BY <2>2, <2>3
  <2>5. lock.writer # None => \A c \in Callers : lock.readers[c] = 0
    BY <2>1 DEF LockInv
  <2>6. \A c \in Callers : lock.readers[c] > 0 => pc[c] # "idle"
    BY <2>2, <2>3
  <2>7. colls \subseteq Names /\ aliases \in [Names -> Names \cup {None}]
    BY <2>1 DEF DataInv, Aliasing
  <2>8. scenario \in Scenarios /\ made \in [Callers -> 0..scenario.calls]
    BY <2>1 DEF CallInv, MadeInv
  <2> QED BY <2>2, <2>4, <2>5, <2>6, <2>7, <2>8 DEF TypeOK
<1> QED BY <1>1, TocInvariant, PTL

\* Unless a writer is at work, every alias leads to a collection that exists,
\* whatever is created, deleted, renamed and restored side by side
\* (delete_collection, update_aliases, apply_collections_snapshot).
THEOREM AliasesLeadToCollections == Spec => []AliasTargetsExist
<1>1. TocInv => AliasTargetsExist
  <2> SUFFICES ASSUME TocInv, lock.writer = None, NEW n \in Names, aliases[n] # None
               PROVE  aliases[n] \in colls
    BY DEF AliasTargetsExist
  <2>1. \A c \in Callers : pc[c] # "delete_aliases"
    BY NoWriterNoChange DEF WriterLabels
  <2> QED BY <2>1 DEF TocInv, DataInv
<1> QED BY <1>1, TocInvariant, PTL

\* The collection that get_collection returns exists and is what its name stands
\* for until the guard is dropped: the unwrap in get_collection never panics.
THEOREM CollectionInUseIsCurrent == Spec => []InUseIsCurrent
<1>1. TocInv => InUseIsCurrent
  BY DEF TocInv, DataInv, InUseIsCurrent, Resolved, LookedUp, FromLabels
<1> QED BY <1>1, TocInvariant, PTL

\* When one thread makes the changes, as in a cluster, no name ever is that of a
\* collection and of an alias (create_collection, update_aliases).
THEOREM NamesAreShadowFree == Spec => []ShadowFree
<1>1. TocInv => ShadowFree
  <2> SUFFICES ASSUME TocInv, \A c, d \in Changing : c = d, ~ Renaming, ~ Shadowing, lock.writer = None
               PROVE  \A n \in colls : aliases[n] = None
    BY DEF ShadowFree
  <2>1. \A c \in Callers : pc[c] # "snapshot_delete"
    BY NoWriterNoChange DEF WriterLabels
  <2> QED BY <2>1 DEF TocInv, ShadowInv, OneChanges
<1> QED BY <1>1, TocInvariant, PTL
=============================================================================
