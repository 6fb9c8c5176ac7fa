--------------------------- MODULE TableOfContent ---------------------------
(***************************************************************************)
(* TableOfContent: the calls that look a collection up, create it, delete  *)
(* it or change aliases, and the lock they share.                          *)
(*                                                                         *)
(* collections is behind a tokio RwLock, which is fair: whoever asks waits *)
(* for all who asked before.  The lock of the aliases is held for one step *)
(* here, but by update_aliases for all its actions.  On a single node the  *)
(* calls of all clients run side by side; in a cluster the consensus       *)
(* thread makes the calls that change something, one after the other.      *)
(***************************************************************************)
EXTENDS MetaState, Naturals

CONSTANTS Callers,
          Start,      \* the collections at the beginning
          Scenarios   \* the calls that each caller may make (may), and how many (calls)

ASSUME TocAssumption ==
    /\ Start \subseteq Names
    /\ None \notin Names \cup Callers
    /\ \A s \in Scenarios : DOMAIN s.may = Callers /\ s.calls \in Nat

AliasActions == [kind : {"create"}, alias : Names, collection : Names]
                \cup [kind : {"delete"}, alias : Names]
                \cup [kind : {"rename"}, alias : Names, new : Names]
Aliasing == [Names -> Names \cup {None}]

\* The calls; a collection may be created with the data of another (init_from), and a
\* snapshot is the state of another peer, whose aliases lead to its collections.
Calls == [kind : {"get", "delete"}, name : Names]
         \cup [kind : {"create"}, name : Names, from : Names \cup {None}]
         \cup [kind : {"aliases"}, actions : Seq(AliasActions)]
         \cup {k \in [kind : {"snapshot"}, collections : SUBSET Names, aliases : Aliasing] :
                 \A n \in Names : k.aliases[n] # None => k.aliases[n] \in k.collections}

ASSUME CallsAssumption == \A s \in Scenarios : \A c \in Callers : s.may[c] \subseteq Calls

VARIABLES
    scenario, \* chosen once
    colls,    \* the names of the collections
    aliases,
    lock,     \* of collections: read guards per caller, writer, those who wait
    pc,
    call,     \* the call that each caller makes, or made last
    real,     \* real_collection_name
    made      \* number of calls so far

vars == <<colls, aliases, lock, pc, call, real, made, scenario>>

Init ==
    /\ scenario \in Scenarios
    /\ colls = Start
    /\ aliases = NoAliases
    /\ lock = [readers |-> [c \in Callers |-> 0], writer |-> None, queue |-> <<>>]
    /\ pc = [c \in Callers |-> "idle"]
    /\ call = [c \in Callers |-> None]
    /\ real = [c \in Callers |-> None]
    /\ made = [c \in Callers |-> 0]

-----------------------------------------------------------------------------
(* The lock                                                                *)

Waiting(c) == \E i \in 1..Len(lock.queue) : lock.queue[i].who = c

Asking(l, c, mode) == [l EXCEPT !.queue = Append(@, [who |-> c, mode |-> mode])]
LessReads(l, c, n) == [l EXCEPT !.readers[c] = @ - n]
NoWriter(l) == [l EXCEPT !.writer = None]

\* The first of those who wait gets the lock as soon as the others allow it.
Grant ==
    /\ lock.queue # <<>>
    /\ lock.writer = None
    /\ LET first == Head(lock.queue) IN
       \/ /\ first.mode = "read"
          /\ lock' = [lock EXCEPT !.readers[first.who] = @ + 1, !.queue = Tail(@)]
       \/ /\ first.mode = "write"
          /\ \A c \in Callers : lock.readers[c] = 0
          /\ lock' = [lock EXCEPT !.writer = first.who, !.queue = Tail(@)]
    /\ UNCHANGED <<colls, aliases, pc, call, real, made, scenario>>

\* The lock of the aliases is held by a call of update_aliases.
AliasesLocked == \E c \in Callers : pc[c] = "alias_action"

At(c, label) == pc[c] = label /\ ~ Waiting(c)
Goes(c, label) == pc' = [pc EXCEPT ![c] = label]

FirstStep == [get |-> "get_alias", create |-> "create_check", delete |-> "delete",
              aliases |-> "aliases", snapshot |-> "snapshot"]

Begin(c, k) ==
    /\ pc[c] = "idle"
    /\ made[c] < scenario.calls
    /\ made' = [made EXCEPT ![c] = @ + 1]
    /\ call' = [call EXCEPT ![c] = k]
    /\ Goes(c, FirstStep[k.kind])
    /\ lock' = Asking(lock, c, IF k.kind \in {"get", "create"} THEN "read" ELSE "write")
    /\ UNCHANGED <<colls, aliases, real, scenario>>

-----------------------------------------------------------------------------
(* get_collection, which every request for a collection starts with        *)

\* A slip: the first guard is dropped before the second is asked for.
GetAliasUnlocked(c) ==
    /\ At(c, "get_alias")
    /\ real' = [real EXCEPT ![c] = Resolve(aliases, call[c].name)]
    /\ Goes(c, "get_exists")
    /\ lock' = Asking(LessReads(lock, c, 1), c, "read")
    /\ UNCHANGED <<colls, aliases, call, made, scenario>>

\* resolve_name asks for the lock that get_collection holds.
ResolveName(c, label, name, next) ==
    /\ At(c, label)
    /\ real' = [real EXCEPT ![c] = Resolve(aliases, name)]
    /\ Goes(c, next)
    /\ lock' = Asking(lock, c, "read")
    /\ UNCHANGED <<colls, aliases, call, made, scenario>>

\* One of the two guards is dropped, or both when there is no such collection.
Exists(c, label, next) ==
    /\ At(c, label)
    /\ \/ /\ real[c] \in colls
          /\ lock' = LessReads(lock, c, 1)
          /\ Goes(c, next)
       \/ /\ real[c] \notin colls
          /\ lock' = LessReads(lock, c, lock.readers[c])
          /\ Goes(c, "idle")
    /\ UNCHANGED <<colls, aliases, call, real, made, scenario>>

GetAlias(c) == ResolveName(c, "get_alias", call[c].name, "get_exists")
GetExists(c) == Exists(c, "get_exists", "using")

\* The caller is done with the collection.
Use(c) ==
    /\ At(c, "using")
    /\ lock' = LessReads(lock, c, lock.readers[c])
    /\ Goes(c, "idle")
    /\ UNCHANGED <<colls, aliases, call, real, made, scenario>>

-----------------------------------------------------------------------------
(* create_collection                                                       *)

CreateCheck(c) ==
    /\ At(c, "create_check")
    /\ lock' = LessReads(lock, c, 1)
    /\ Goes(c, IF call[c].name \in colls THEN "idle" ELSE "create_alias")
    /\ UNCHANGED <<colls, aliases, call, real, made, scenario>>

\* A slip: a name that is an alias is allowed.
CreateAliasUnchecked(c) ==
    /\ At(c, "create_alias") /\ ~ AliasesLocked
    /\ Goes(c, "create_new")
    /\ UNCHANGED <<colls, aliases, lock, call, real, made, scenario>>

CreateAliasCheck(c) ==
    /\ At(c, "create_alias") /\ ~ AliasesLocked
    /\ \/ /\ aliases[call[c].name] # None
          /\ Goes(c, "idle")
          /\ UNCHANGED lock
       \/ /\ aliases[call[c].name] = None /\ call[c].from = None
          /\ Goes(c, "create_new")
          /\ UNCHANGED lock
       \/ /\ aliases[call[c].name] = None /\ call[c].from # None
          /\ Goes(c, "from_alias")
          /\ lock' = Asking(lock, c, "read")
    /\ UNCHANGED <<colls, aliases, call, real, made, scenario>>

\* check_collections_compatibility looks the other collection up, and compares what
\* the two say of their vectors.
FromAlias(c) == ResolveName(c, "from_alias", call[c].from, "from_exists")
FromExists(c) == Exists(c, "from_exists", "from_using")

FromCompare(c) ==
    /\ At(c, "from_using")
    /\ lock' = LessReads(lock, c, lock.readers[c])
    /\ Goes(c, "idle") \/ Goes(c, "create_new")
    /\ UNCHANGED <<colls, aliases, call, real, made, scenario>>

\* No lock is held while the collection is created on disk.
CreateNew(c) ==
    /\ At(c, "create_new")
    /\ Goes(c, "create_insert")
    /\ lock' = Asking(lock, c, "write")
    /\ UNCHANGED <<colls, aliases, call, real, made, scenario>>

CreateInsert(c) ==
    /\ At(c, "create_insert")
    /\ colls' = colls \cup {call[c].name}
    /\ lock' = NoWriter(lock)
    /\ Goes(c, "idle")
    /\ UNCHANGED <<aliases, call, real, made, scenario>>

-----------------------------------------------------------------------------
(* delete_collection: the guard lives to the end of the if let             *)

\* A slip: nothing to delete, and the lock is not given back.
DeleteRemoveKeepsLock(c) ==
    /\ At(c, "delete")
    /\ \/ /\ call[c].name \in colls
          /\ colls' = colls \ {call[c].name}
          /\ Goes(c, "delete_aliases")
          /\ UNCHANGED lock
       \/ /\ call[c].name \notin colls
          /\ Goes(c, "idle")
          /\ UNCHANGED <<colls, lock>>
    /\ UNCHANGED <<aliases, call, real, made, scenario>>

DeleteRemove(c) ==
    /\ At(c, "delete")
    /\ \/ /\ call[c].name \in colls
          /\ colls' = colls \ {call[c].name}
          /\ Goes(c, "delete_aliases")
          /\ UNCHANGED lock
       \/ /\ call[c].name \notin colls
          /\ lock' = NoWriter(lock)
          /\ Goes(c, "idle")
          /\ UNCHANGED colls
    /\ UNCHANGED <<aliases, call, real, made, scenario>>

\* The aliases go, the directory is moved away.
DeleteAliases(c) ==
    /\ At(c, "delete_aliases")
    /\ aliases' = RemoveCollection(aliases, call[c].name)
    /\ lock' = NoWriter(lock)
    /\ Goes(c, "idle")
    /\ UNCHANGED <<colls, call, real, made, scenario>>

-----------------------------------------------------------------------------
(* update_aliases and apply_collections_snapshot                           *)

\* The lock of the aliases is kept for all the actions.
BeginAliases(c) ==
    /\ At(c, "aliases")
    /\ Goes(c, "alias_action")
    /\ UNCHANGED <<colls, aliases, lock, call, real, made, scenario>>

\* What the next action makes of the aliases, and whether it is refused.
Change(c) == ChangeAlias([ok |-> TRUE, aliases |-> aliases], Head(call[c].actions), colls)

\* Every action is saved by itself; the first that is refused ends the call.
ChangeAliases(c) ==
    /\ At(c, "alias_action")
    /\ call[c].actions # <<>>
    /\ \/ /\ Change(c).ok
          /\ aliases' = Change(c).aliases
          /\ call' = [call EXCEPT ![c].actions = Tail(@)]
          /\ UNCHANGED <<lock, pc>>
       \/ /\ ~ Change(c).ok
          /\ lock' = NoWriter(lock)
          /\ Goes(c, "idle")
          /\ UNCHANGED <<aliases, call>>
    /\ UNCHANGED <<colls, real, made, scenario>>

EndAliases(c) ==
    /\ At(c, "alias_action")
    /\ call[c].actions = <<>>
    /\ lock' = NoWriter(lock)
    /\ Goes(c, "idle")
    /\ UNCHANGED <<colls, aliases, call, real, made, scenario>>

SnapshotCollections(c) ==
    /\ At(c, "snapshot")
    /\ colls' = colls \cup call[c].collections
    /\ Goes(c, "snapshot_delete")
    /\ UNCHANGED <<aliases, lock, call, real, made, scenario>>

\* A collection that the snapshot does not have is deleted by a call of
\* delete_collection, which asks for the lock that is held here.
SnapshotDelete(c) ==
    /\ At(c, "snapshot_delete")
    /\ colls \ call[c].collections # {}
    /\ lock' = Asking(lock, c, "write")
    /\ UNCHANGED <<colls, aliases, pc, call, real, made, scenario>>

SnapshotAliases(c) ==
    /\ At(c, "snapshot_delete")
    /\ colls \ call[c].collections = {}
    /\ aliases' = call[c].aliases
    /\ lock' = NoWriter(lock)
    /\ Goes(c, "idle")
    /\ UNCHANGED <<colls, call, real, made, scenario>>

-----------------------------------------------------------------------------
Step(c) ==
    \/ GetAlias(c) \/ GetExists(c) \/ Use(c)
    \/ CreateCheck(c) \/ CreateAliasCheck(c) \/ FromAlias(c) \/ FromExists(c) \/ FromCompare(c)
    \/ CreateNew(c) \/ CreateInsert(c)
    \/ DeleteRemove(c) \/ DeleteAliases(c)
    \/ BeginAliases(c) \/ ChangeAliases(c) \/ EndAliases(c)
    \/ SnapshotCollections(c) \/ SnapshotDelete(c) \/ SnapshotAliases(c)

Next ==
    \/ Grant
    \/ \E c \in Callers : Step(c)
    \/ \E c \in Callers : \E k \in scenario.may[c] : Begin(c, k)

Spec == Init /\ [][Next]_vars

\* Whoever has the lock, or needs none, goes on; nobody has to make a call.
FairSpec == Spec /\ WF_vars(Grant) /\ \A c \in Callers : WF_vars(Step(c))

-----------------------------------------------------------------------------
\* The variables have the values that the code can give them, and the lock is
\* held either by one writer or by readers (toc.rs, collections: RwLock).
TypeOK ==
    /\ colls \subseteq Names
    /\ aliases \in [Names -> Names \cup {None}]
    /\ lock.readers \in [Callers -> 0..2]
    /\ lock.writer \in Callers \cup {None}
    /\ lock.writer # None => \A c \in Callers : lock.readers[c] = 0
    /\ \A c \in Callers : lock.readers[c] > 0 => pc[c] # "idle"
    /\ scenario \in Scenarios /\ made \in [Callers -> 0..scenario.calls]

\* Unless a writer is at work, every alias leads to a collection that exists:
\* update_aliases creates no other one, delete_collection removes those of the
\* collection, and a snapshot brings both.
AliasTargetsExist ==
    lock.writer = None => \A n \in Names : aliases[n] # None => aliases[n] \in colls

\* What get_collection returned is, for as long as the caller uses it, the
\* collection that the name stands for, and it is there: the comment in
\* get_collection calls the unwrap safe, and update_aliases promises that no
\* search runs on partially switched collections.
InUseIsCurrent ==
    \A c \in Callers :
        /\ pc[c] \in {"using", "from_using"} => real[c] \in colls
        /\ pc[c] = "using" => real[c] = Resolve(aliases, call[c].name)
        /\ pc[c] = "from_using" => real[c] = Resolve(aliases, call[c].from)

Changing == {c \in Callers : \E k \in scenario.may[c] : k.kind # "get"}
Renaming == \E c \in Callers : \E k \in scenario.may[c] :
               k.kind = "aliases" /\ \E i \in 1..Len(k.actions) : k.actions[i].kind = "rename"
Shadowing == \E c \in Callers : \E k \in scenario.may[c] :
                k.kind = "snapshot" /\ \E n \in k.collections : k.aliases[n] # None

\* In a cluster, where one thread makes all the changes, and unless a writer is
\* at work, no name is that of a collection and of an alias: create_collection
\* refuses a name that is an alias, update_aliases an alias that is a collection,
\* and the snapshots come from peers of which the same is true.
\* (It holds neither for changes side by side nor for renames.)
ShadowFree ==
    (\A c, d \in Changing : c = d) /\ ~ Renaming /\ ~ Shadowing /\ lock.writer = None =>
        \A n \in colls : aliases[n] = None

\* Every call ends: resolve_name answers, whatever the others do.
CallsEnd == \A c \in Callers : pc[c] # "idle" ~> pc[c] = "idle"

\* The calls that ask for the lock while they hold it
LooksUp(k) == k.kind = "get" \/ (k.kind = "create" /\ k.from # None)
Reenters(k) == LooksUp(k) \/ k.kind = "snapshot"

\* Callers that create and delete collections and change aliases side by side do
\* not block each other for good, as long as nobody looks a collection up, be it to
\* create another from it (init_from), or applies a snapshot.
ChangesEnd ==
    \A c \in Callers :
        /\ \A d \in Callers : \A k \in scenario.may[d] : ~ Reenters(k)
        /\ pc[c] # "idle"
        ~> pc[c] = "idle"
=============================================================================
