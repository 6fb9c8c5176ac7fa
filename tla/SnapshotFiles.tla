---------------------------- MODULE SnapshotFiles ----------------------------
(***************************************************************************)
(* The files of snapshots on one node: what Collection::create_snapshot    *)
(* and do_create_full_snapshot leave on disk while several of them run at  *)
(* the same time and users delete snapshots, and the collections that the  *)
(* command line options put in the place of existing ones at a start       *)
(* (recover_snapshots, recover_full_snapshot), when such starts are cut    *)
(* off by a crash and repeated.                                            *)
(*                                                                         *)
(* A snapshot is named after its collection and the second it was begun.   *)
(* A directory or an archive is the set of its parts.                      *)
(***************************************************************************)
EXTENDS Naturals, FiniteSets, Functions, Sequences

CONSTANTS Collections,
          Tasks,       \* names of requests for snapshots
          None,
          Scenarios,
          MaxTime      \* bound on the clock

Shards == {1, 2}
Meta == {"version", "config"}
PartsOf == {<<"shard", s>> : s \in Shards} \cup {<<"meta", m>> : m \in Meta}
Names == Collections \X (0 .. MaxTime)

VARIABLES scenario,
          now,       \* the second
          work,      \* snapshots_tmp/<name>.tmp, a directory
          arc,       \* snapshots_tmp/<name>.arc
          part,      \* snapshots/<collection>/<name>.tmp
          file,      \* snapshots/<collection>/<name>.snapshot
          full,      \* snapshots/full-snapshot-<time>.snapshot
          task,
          deleted,   \* the snapshots that a user deleted
          dir,       \* collections/<name>: its segments, or None
          tmp,       \* collections/<name>.tmp
          aliases,
          cli,       \* the start of the process, if it recovers snapshots
          starts     \* the commands that it was started with

creating == <<now, work, arc, part, file, full, task, deleted>>
starting == <<dir, tmp, aliases, cli, starts>>
vars == <<scenario, creating, starting>>

NewTask(kind, todo) == [kind |-> kind, pc |-> "next", todo |-> todo, name |-> None, made |-> {}, missing |-> {}]

NoCli == [pc |-> "off", command |-> None, todo |-> {}, collection |-> None, missing |-> {}]

Init ==
    /\ scenario \in Scenarios
    /\ now = 0
    /\ work = [n \in Names |-> None]
    /\ arc = [n \in Names |-> None]
    /\ part = [n \in Names |-> None]
    /\ file = [n \in Names |-> None]
    /\ full = [t \in 0 .. MaxTime |-> None]
    /\ task = [t \in DOMAIN scenario.tasks |-> NewTask(scenario.tasks[t].kind, scenario.tasks[t].collections)]
    /\ deleted = {}
    /\ dir = scenario.dirs
    /\ tmp = [c \in Collections |-> {}]
    /\ aliases = scenario.aliases
    /\ cli = NoCli
    /\ starts = <<>>

-----------------------------------------------------------------------------
(* Collection::create_snapshot, file by file                               *)

At(t, pc) == task[t].pc = pc
Goto(t, pc) == task' = [task EXCEPT ![t].pc = pc]
Name(t) == task[t].name
Fail(t) == Goto(t, "failed")

\* A file operation that needs what may have been removed under it
OrFail(t, there, pc) == IF there THEN Goto(t, pc) ELSE Fail(t)

\* The name is made up, and the directory of the snapshot is created.
Begin(t) ==
    /\ At(t, "next") /\ task[t].todo # {}
    /\ \E c \in task[t].todo :
          LET name == <<c, now>> IN
          /\ task' = [task EXCEPT ![t].pc = "parts", ![t].todo = @ \ {c}, ![t].name = name,
                                  ![t].missing = PartsOf]
          /\ work' = [work EXCEPT ![name] = IF @ = None THEN {} ELSE @]
    /\ UNCHANGED <<scenario, now, arc, part, file, full, deleted, starting>>

\* A shard makes the directories that it needs; the version and the
\* configuration are written last, into a directory that must be there.
ShardPart(q) == q[1] = "shard"

WritePart(t) ==
    /\ At(t, "parts")
    /\ \E q \in task[t].missing :
          /\ ~ShardPart(q) => \A r \in task[t].missing : ~ShardPart(r)
          /\ LET there == ShardPart(q) \/ work[Name(t)] # None
             IN  /\ task' = [task EXCEPT ![t].missing = @ \ {q},
                                         ![t].pc = IF ~there THEN "failed"
                                                   ELSE IF task[t].missing = {q} THEN "open" ELSE @]
                 /\ work' = IF there
                            THEN [work EXCEPT ![Name(t)] = IF @ = None THEN {q} ELSE @ \cup {q}]
                            ELSE work
    /\ UNCHANGED <<scenario, now, arc, part, file, full, deleted, starting>>

\* A slip of OpenArchive: the task that fills it is not awaited.
OpenUnawaited(t) ==
    /\ At(t, "open")
    /\ Goto(t, "copy")
    /\ arc' = [arc EXCEPT ![Name(t)] = {}]
    /\ UNCHANGED <<scenario, now, work, part, file, full, deleted, starting>>

\* The archive is created, or emptied, and then filled.
OpenArchive(t) ==
    /\ At(t, "open")
    /\ Goto(t, "fill")
    /\ arc' = [arc EXCEPT ![Name(t)] = {}]
    /\ UNCHANGED <<scenario, now, work, part, file, full, deleted, starting>>

FillArchive(t) ==
    /\ At(t, "fill")
    /\ OrFail(t, work[Name(t)] # None, "tidy")
    /\ arc' = IF work[Name(t)] = None \/ arc[Name(t)] = None THEN arc
              ELSE [arc EXCEPT ![Name(t)] = work[Name(t)]]
    /\ UNCHANGED <<scenario, now, work, part, file, full, deleted, starting>>

RemoveWork(t) ==
    /\ At(t, "tidy")
    /\ OrFail(t, work[Name(t)] # None, "copy")
    /\ work' = [work EXCEPT ![Name(t)] = None]
    /\ UNCHANGED <<scenario, now, arc, part, file, full, deleted, starting>>

\* It is copied next to its place, since a copy is not atomic, and renamed.
Copy(t) ==
    /\ At(t, "copy")
    /\ OrFail(t, arc[Name(t)] # None, "rename")
    /\ part' = IF arc[Name(t)] # None THEN [part EXCEPT ![Name(t)] = arc[Name(t)]] ELSE part
    /\ UNCHANGED <<scenario, now, work, arc, file, full, deleted, starting>>

Rename(t) ==
    /\ At(t, "rename")
    /\ OrFail(t, part[Name(t)] # None, "remove")
    /\ IF part[Name(t)] # None
       THEN /\ file' = [file EXCEPT ![Name(t)] = part[Name(t)]]
            /\ part' = [part EXCEPT ![Name(t)] = None]
       ELSE UNCHANGED <<file, part>>
    /\ UNCHANGED <<scenario, now, work, arc, full, deleted, starting>>

\* The archive is removed; the answer describes the file in its place.
RemoveArchive(t) ==
    /\ At(t, "remove")
    /\ IF arc[Name(t)] # None /\ file[Name(t)] # None
       THEN task' = [task EXCEPT ![t].made = @ \cup {Name(t)},
                                 ![t].pc = IF task[t].kind = "one" THEN "done" ELSE "next"]
       ELSE Fail(t)
    /\ arc' = [arc EXCEPT ![Name(t)] = None]
    /\ UNCHANGED <<scenario, now, work, part, file, full, deleted, starting>>

CreateSnapshot(t) ==
    \/ Begin(t) \/ WritePart(t) \/ OpenArchive(t) \/ FillArchive(t)
    \/ RemoveWork(t) \/ Copy(t) \/ Rename(t) \/ RemoveArchive(t)

-----------------------------------------------------------------------------
(* _do_create_full_snapshot: the snapshots of all collections become one   *)

BeginFull(t) ==
    /\ task[t].kind = "full" /\ At(t, "next") /\ task[t].todo = {}
    /\ task' = [task EXCEPT ![t].pc = "full", ![t].name = <<"full", now>>, ![t].missing = task[t].made]
    /\ full' = [full EXCEPT ![now] = <<>>]
    /\ UNCHANGED <<scenario, now, work, arc, part, file, deleted, starting>>

AddToFull(t) ==
    /\ At(t, "full") /\ task[t].missing # {}
    /\ \E n \in task[t].missing :
          /\ task' = [task EXCEPT ![t].missing = @ \ {n},
                                  ![t].pc = IF file[n] = None THEN "failed" ELSE @]
          /\ file' = [file EXCEPT ![n] = None]
          /\ full' = IF file[n] = None \/ full[Name(t)[2]] = None THEN full
                     ELSE [full EXCEPT ![Name(t)[2]] =
                              [c \in DOMAIN @ \cup {n[1]} |-> IF c = n[1] THEN file[n] ELSE @[c]]]
    /\ UNCHANGED <<scenario, now, work, arc, part, deleted, starting>>

FinishFull(t) ==
    /\ At(t, "full") /\ task[t].missing = {}
    /\ OrFail(t, full[Name(t)[2]] # None, "done")
    /\ UNCHANGED <<scenario, now, work, arc, part, file, full, deleted, starting>>

CreateFullSnapshot(t) == BeginFull(t) \/ AddToFull(t) \/ FinishFull(t)

\* _do_delete_collection_snapshot
DeleteSnapshot ==
    /\ scenario.deletes
    /\ \E n \in Names :
          /\ file[n] # None
          /\ file' = [file EXCEPT ![n] = None]
          /\ deleted' = deleted \cup {n}
    /\ UNCHANGED <<scenario, now, work, arc, part, full, task, starting>>

\* _do_delete_full_snapshot
DeleteFullSnapshot ==
    /\ scenario.deletes
    /\ \E tm \in DOMAIN full :
          /\ full[tm] # None
          /\ full' = [full EXCEPT ![tm] = None]
          /\ deleted' = deleted \cup {<<"full", tm>>}
    /\ UNCHANGED <<scenario, now, work, arc, part, file, task, starting>>

\* The names of snapshots tell seconds apart.
Tick ==
    /\ now < MaxTime
    /\ now' = now + 1
    /\ UNCHANGED <<scenario, work, arc, part, file, full, task, deleted, starting>>

-----------------------------------------------------------------------------
(* Recovery at a start                                                     *)

\* A command gives the segments of the snapshots by collection, the aliases of
\* a full snapshot, and whether it may overwrite.
StartWith ==
    /\ cli.pc = "off" /\ Len(starts) < scenario.starts
    /\ \E command \in scenario.commands :
          /\ cli' = [NoCli EXCEPT !.pc = "next", !.command = command, !.todo = DOMAIN command.snapshots]
          /\ starts' = Append(starts, command)
    /\ UNCHANGED <<scenario, creating, dir, tmp, aliases>>

Snapshot(c) == cli.command.snapshots[c]
Exists(c) == dir[c] # None

\* recover_snapshots: the next collection of the mapping
NextCollection ==
    /\ cli.pc = "next" /\ cli.todo # {}
    /\ \E c \in cli.todo :
          cli' = IF Exists(c) /\ ~cli.command.force THEN [cli EXCEPT !.pc = "panicked"]
                 ELSE [cli EXCEPT !.pc = "unpack", !.todo = @ \ {c}, !.collection = c, !.missing = Snapshot(c)]
    /\ UNCHANGED <<scenario, creating, dir, tmp, aliases, starts>>

\* Collection::restore_snapshot unpacks into <name>.tmp, as it finds it.
UnpackSegment ==
    /\ cli.pc = "unpack"
    /\ \E g \in cli.missing :
          /\ tmp' = [tmp EXCEPT ![cli.collection] = @ \cup {g}]
          /\ cli' = [cli EXCEPT !.missing = @ \ {g}, !.pc = IF cli.missing = {g} THEN "replace" ELSE @]
    /\ UNCHANGED <<scenario, creating, dir, aliases, starts>>

RemoveCollection ==
    /\ cli.pc = "replace"
    /\ dir' = [dir EXCEPT ![cli.collection] = None]
    /\ cli' = [cli EXCEPT !.pc = "rename"]
    /\ UNCHANGED <<scenario, creating, tmp, aliases, starts>>

RenameCollection ==
    /\ cli.pc = "rename"
    /\ dir' = [dir EXCEPT ![cli.collection] = tmp[cli.collection]]
    /\ tmp' = [tmp EXCEPT ![cli.collection] = {}]
    /\ cli' = [cli EXCEPT !.pc = "next"]
    /\ UNCHANGED <<scenario, creating, aliases, starts>>

\* recover_full_snapshot: the aliases come last.
RecoverAliases ==
    /\ cli.pc = "next" /\ cli.todo = {}
    /\ IF aliases \cap cli.command.aliases # {} /\ ~cli.command.force
       THEN cli' = [cli EXCEPT !.pc = "panicked"] /\ UNCHANGED aliases
       ELSE cli' = [cli EXCEPT !.pc = "done"] /\ aliases' = aliases \cup cli.command.aliases
    /\ UNCHANGED <<scenario, creating, dir, tmp, starts>>

\* The process is stopped, or crashes, and can be started again.
Stop ==
    /\ cli.pc # "off" /\ Len(starts) < scenario.starts
    /\ cli' = NoCli
    /\ UNCHANGED <<scenario, creating, dir, tmp, aliases, starts>>

RecoverSnapshots ==
    StartWith \/ NextCollection \/ UnpackSegment \/ RemoveCollection \/ RenameCollection \/ RecoverAliases \/ Stop

Next ==
    \/ \E t \in DOMAIN task : CreateSnapshot(t) \/ CreateFullSnapshot(t)
    \/ DeleteSnapshot \/ DeleteFullSnapshot
    \/ scenario.tasks # <<>> /\ Tick
    \/ RecoverSnapshots

Spec == Init /\ [][Next]_vars

-----------------------------------------------------------------------------
(* Properties                                                              *)

\* Requests for a collection, or for everything, that begin within one second get one
\* name, and so one directory, one archive and one file.
Requesters(n) == {t \in DOMAIN task : n = Name(t) \/ n \in task[t].made}
Shared(n) == Cardinality(Requesters(n)) > 1

\* What the request t promises of the snapshot n that it made
Made(t, n) == IF task[t].kind = "one" THEN file[n] = PartsOf
              ELSE full[Name(t)[2]] # None /\ n[1] \in DOMAIN full[Name(t)[2]]
                   /\ full[Name(t)[2]][n[1]] = PartsOf

\* A file that is listed as a snapshot of a collection has all its parts, and
\* a request that succeeded has left one (that a user may have deleted), or has
\* put it into the full snapshot: the file gets its name only when it is whole.
\* Requests that share a name apart (Collection::create_snapshot,
\* _do_create_full_snapshot).
ListedIsComplete ==
    /\ \A n \in Names : Shared(n) \/ file[n] \in {None, PartsOf}
    /\ \A t \in DOMAIN task :
          At(t, "done") /\ Name(t) \notin deleted /\ ~Shared(Name(t)) =>
              \A n \in task[t].made : Shared(n) \/ Made(t, n)

\* The same of all requests: "We can't copy to the target location directly, cause
\* copy is not atomic" (Collection::create_snapshot).
ListedIsAlwaysComplete ==
    /\ \A n \in Names : file[n] \in {None, PartsOf}
    /\ \A t \in DOMAIN task :
          At(t, "done") /\ Name(t) \notin deleted => \A n \in task[t].made : Made(t, n)

\* The earlier starts were given the same snapshot of the collection, or none.
SameSnapshot(c) == \A i \in DOMAIN starts : c \in DOMAIN starts[i].snapshots => starts[i].snapshots[c] = Snapshot(c)

\* A start that got through has put the collections of its snapshots, and nothing
\* else, in the place of the old ones, whatever starts before it were cut off, when
\* these had the same snapshots on their command lines (recover_snapshots).
RecoveredIsSnapshot ==
    cli.pc = "done" => \A c \in DOMAIN cli.command.snapshots : SameSnapshot(c) => dir[c] = Snapshot(c)

\* The same whatever the earlier starts were given.
RecoveredIsAlwaysSnapshot ==
    cli.pc = "done" => \A c \in DOMAIN cli.command.snapshots : dir[c] = Snapshot(c)
=============================================================================
