-------------------------- MODULE SnapshotRecovery --------------------------
(***************************************************************************)
(* The recovery of a collection of one shard from a snapshot, on one peer  *)
(* of a cluster (do_recover_from_snapshot), with what it asks of           *)
(* consensus: the states of the replicas, their removal and the transfer   *)
(* that makes the recovered replica equal to the others.                   *)
(*                                                                         *)
(* The proposals of a peer leave it in the order in which it makes them;   *)
(* those of different peers are ordered by consensus, and raft may refuse  *)
(* any of them.  A committed operation is applied by all peers at once     *)
(* (ShardTransfer has the peers that lag behind).  The content of a        *)
(* replica is one value: what it held before, the content of a snapshot,   *)
(* or a mixture of both.                                                   *)
(***************************************************************************)
EXTENDS Naturals, FiniteSets, Sequences, SequencesExt, Functions

CONSTANTS Peers,
          Tasks,       \* names of requests
          None,
          Scenarios    \* the clusters and requests that Init starts from

VARIABLES scenario,
          exists,      \* whether the collection exists
          replicas,    \* the states of the replicas (of the peers that have one)
          data,        \* the content of each peer's local shard
          tmp,         \* what each peer has in tmp_collections/<name>
          task,        \* the requests
          queue,       \* the proposals of each peer that are not yet committed
          transfers,   \* the registered transfers
          down,        \* the peers that cannot start any more
          crashes,
          losses,      \* how many proposals raft has mishaps
          mishaps      \* <<"refused", p>>: an activation of p or a transfer to p was refused,
                       \* <<"deposed", p>>: p was in use, and removed or dead with a transfer to it

faults == <<down, crashes, losses>>
vars == <<scenario, exists, replicas, data, tmp, task, queue, transfers, faults, mishaps>>

Live == "live"      \* what the replicas hold at the beginning
Empty == "empty"    \* a shard that was just built
Stale == "stale"    \* what a replica holds that is not in use
Mixed == "mixed"    \* parts of a snapshot, parts of another replica

\* A request names a peer, the snapshot (its content, whether it has the data
\* of the shard, whether its configuration is that of the collection, whether
\* it can be read) and a priority.
Request(t) == scenario.requests[t]
Requests == DOMAIN scenario.requests

NewTask == [pc |-> "download", seen |-> <<>>]

Init ==
    /\ scenario \in Scenarios
    /\ exists = scenario.exists
    /\ replicas = IF exists THEN scenario.states ELSE <<>>
    /\ data = [p \in Peers |-> IF ~exists \/ p \notin scenario.owners THEN None
                               ELSE IF scenario.states[p] = "Active" THEN Live ELSE Stale]
    /\ tmp = [p \in Peers |-> None]
    /\ task = [t \in Requests |-> NewTask]
    /\ queue = [p \in Peers |-> <<>>]
    /\ transfers = {[from |-> m[1], to |-> m[2], phase |-> "sending"] : m \in scenario.moving}
    /\ down = {} /\ crashes = 0 /\ losses = 0
    /\ mishaps = {}

-----------------------------------------------------------------------------
(* Replica states and transfers, as committed operations change them       *)

State(peer, state) == [kind |-> "state", peer |-> peer, state |-> state, expect |-> None]
\* initialize_replica, which on_peer_created and sync_local_state propose
Initialize(peer) == [State(peer, "Active") EXCEPT !.expect = "Initializing"]
Removal(peer) == [kind |-> "remove", peer |-> peer]
Transfer(from, to) == [kind |-> "transfer", from |-> from, to |-> to]
Finish(from, to) == [kind |-> "finish", from |-> from, to |-> to]
Abort(from, to) == [kind |-> "abort", from |-> from, to |-> to]

Propose(peer, ops) == queue' = [queue EXCEPT ![peer] = @ \o ops]

ActiveOf(rs) == {p \in DOMAIN rs : rs[p] = "Active"}
WithState(rs, p, state) == [q \in DOMAIN rs \cup {p} |-> IF q = p THEN state ELSE rs[q]]

StateOf(p) == IF p \in DOMAIN replicas THEN replicas[p] ELSE None

\* set_shard_replica_state refuses to deactivate the last active replica, and to
\* change a state that is not the expected one.
MayChange(op) ==
    /\ op.expect \in {None, StateOf(op.peer)}
    /\ op.state = "Active" \/ ActiveOf(replicas) # {op.peer}

\* The transfers that end when replica p dies; their targets die with it.
Related(p) == {t \in transfers : p \in {t.from, t.to}}

\* A peer whose replica died asks for a transfer from some active one.
TransferTo(rs, p) ==
    IF ActiveOf(rs) = {} THEN {<<>>} ELSE {<<Transfer(f, p)>> : f \in ActiveOf(rs)}

\* A replica that was activated in the meantime dies with a transfer to it.
Deposed(ended) == {<<"deposed", t.to>> : t \in {r \in ended : StateOf(r.to) = "Active"}}

SetState(base, op) ==
    IF ~MayChange(op)
    THEN /\ queue' = base
         /\ UNCHANGED <<replicas, data, transfers, mishaps>>
    ELSE LET ended == IF op.state = "Dead" THEN Related(op.peer) ELSE {}
             rs == [q \in DOMAIN replicas \cup {op.peer} |->
                      IF q = op.peer THEN op.state
                      ELSE IF \E t \in ended : q = t.to THEN "Dead" ELSE replicas[q]]
         IN  /\ replicas' = rs
             /\ transfers' = transfers \ ended
             /\ \E ops \in IF op.state = "Dead" /\ op.peer \notin down
                           THEN TransferTo(rs, op.peer) ELSE {<<>>} :
                    queue' = [base EXCEPT ![op.peer] = @ \o ops]
             /\ mishaps' = mishaps \cup Deposed({r \in ended : r.to # op.peer})
             /\ UNCHANGED data

\* handle_replica_changes
RemoveReplica(base, op) ==
    /\ queue' = base
    /\ IF op.peer \in DOMAIN replicas /\ Cardinality(DOMAIN replicas) > 1
       THEN /\ replicas' = Restrict(replicas, DOMAIN replicas \ {op.peer})
            /\ data' = [data EXCEPT ![op.peer] = None]
            /\ mishaps' = mishaps \cup (IF StateOf(op.peer) = "Active" THEN {<<"deposed", op.peer>>} ELSE {})
       ELSE UNCHANGED <<replicas, data, mishaps>>
    /\ UNCHANGED transfers

\* validate_transfer and start_shard_transfer
ValidTransfer(op) ==
    /\ op.from \in ActiveOf(replicas)
    /\ \A t \in transfers : {t.from, t.to} \cap {op.from, op.to} = {}

StartTransfer(base, op) ==
    /\ queue' = base
    /\ IF ValidTransfer(op)
       THEN /\ transfers' = transfers \cup {[from |-> op.from, to |-> op.to, phase |-> "sending"]}
            /\ replicas' = WithState(replicas, op.to, "Partial")
            /\ data' = [data EXCEPT ![op.to] = IF @ = None THEN Empty ELSE @]
            /\ UNCHANGED mishaps
       ELSE /\ mishaps' = mishaps \cup {<<"refused", op.to>>}
            /\ UNCHANGED <<transfers, replicas, data>>

Registered(op) == {t \in transfers : t.from = op.from /\ t.to = op.to}

\* A slip of EndTransfer: the target is not promoted.
EndTransferOnly(base, op) ==
    /\ queue' = base
    /\ transfers' = transfers \ Registered(op)
    /\ replicas' = IF op.kind = "abort" /\ Registered(op) # {} THEN WithState(replicas, op.to, "Dead") ELSE replicas
    /\ UNCHANGED <<data, mishaps>>

\* finish_shard_transfer and abort_shard_transfer
EndTransfer(base, op) ==
    /\ queue' = base
    /\ IF Registered(op) # {}
       THEN /\ transfers' = transfers \ Registered(op)
            /\ replicas' = WithState(replicas, op.to, IF op.kind = "finish" THEN "Active" ELSE "Dead")
       ELSE UNCHANGED <<transfers, replicas>>
    /\ mishaps' = mishaps \cup (IF op.kind = "abort" THEN Deposed(Registered(op)) ELSE {})
    /\ UNCHANGED data

\* The next proposal of peer p is committed and applied.
Apply(p) ==
    /\ queue[p] # <<>>
    /\ LET op == Head(queue[p])
           base == [queue EXCEPT ![p] = Tail(@)]
       IN  CASE op.kind = "state" -> SetState(base, op)
             [] op.kind = "remove" -> RemoveReplica(base, op)
             [] op.kind = "transfer" -> StartTransfer(base, op)
             [] op.kind \in {"finish", "abort"} -> EndTransfer(base, op)
    /\ UNCHANGED <<scenario, exists, tmp, task, faults>>

\* Raft refuses the next proposal of peer p: the consensus thread logs the error.
Refuse(p) ==
    /\ losses < scenario.losses /\ queue[p] # <<>>
    /\ losses' = losses + 1
    /\ queue' = [queue EXCEPT ![p] = Tail(@)]
    /\ LET op == Head(queue[p])
       IN  mishaps' = mishaps \cup (IF op.kind = "transfer" THEN {<<"refused", op.to>>}
                                    ELSE IF op.kind = "state" /\ op.state = "Active" THEN {<<"refused", op.peer>>}
                                    ELSE {})
    /\ UNCHANGED <<scenario, exists, replicas, data, tmp, task, transfers, down, crashes>>

Outcome(t) == IF t.phase = "finished" THEN Finish(t.from, t.to) ELSE Abort(t.from, t.to)

\* The task of a transfer has sent all points and the target has become equal to the
\* source, but for what was sent before the shard of the target was replaced; or the
\* shard of the source was replaced under it.
ReportTransfer(t) ==
    /\ t.phase \in {"sending", "mixing", "broken"}
    /\ {t.from, t.to} \cap down = {}
    /\ LET sent == t.phase # "broken" /\ data[t.from] # None
           ended == [t EXCEPT !.phase = IF sent THEN "finished" ELSE "failed"]
       IN  /\ transfers' = (transfers \ {t}) \cup {ended}
           /\ \E content \in {data[t.from]} \cup (IF t.phase = "mixing" THEN {Mixed} ELSE {}) :
                 data' = IF sent THEN [data EXCEPT ![t.to] = content] ELSE data
           /\ Propose(t.from, <<Outcome(ended)>>)
    /\ UNCHANGED <<scenario, exists, replicas, tmp, task, faults, mishaps>>

\* sync_local_state: what a peer should have reported, and what its replica needs, is
\* proposed again and again.  A replica that is Partial needs nothing.
Wanted(p) ==
    {Outcome(t) : t \in {r \in transfers : r.from = p /\ r.phase \in {"finished", "failed"}}}
    \cup (IF StateOf(p) = "Initializing" THEN {Initialize(p)} ELSE {})
    \cup (IF StateOf(p) = "Dead"
          THEN {op \in {Transfer(f, p) : f \in ActiveOf(replicas)} : ValidTransfer(op)} ELSE {})

SyncLocalState(p) ==
    /\ p \notin down /\ queue[p] = <<>>
    /\ \E op \in Wanted(p) : Propose(p, <<op>>)
    /\ UNCHANGED <<scenario, exists, replicas, data, tmp, task, transfers, faults, mishaps>>

-----------------------------------------------------------------------------
(* A recovery                                                              *)

At(t, pc) == task[t].pc = pc /\ Request(t).peer \notin down
Goto(t, pc) == task' = [task EXCEPT ![t].pc = pc]
Fail(t) == Goto(t, "failed")

\* download_snapshot: a file that is there, or a download that succeeds
Fetched(t) == Request(t).snapshot.readable

\* The snapshot is fetched, and the directory it is to be unpacked in is
\* removed and made anew.
Download(t) ==
    LET p == Request(t).peer IN
    /\ At(t, "download")
    /\ IF Fetched(t)
       THEN Goto(t, "unpack") /\ tmp' = [tmp EXCEPT ![p] = None]
       ELSE Fail(t) /\ UNCHANGED tmp
    /\ UNCHANGED <<scenario, exists, replicas, data, queue, transfers, faults, mishaps>>

\* The restored replica set: without a cluster the data has to be there.
Restorable(snapshot) == scenario.distributed \/ snapshot.local

\* Collection::restore_snapshot
Unpack(t) ==
    LET p == Request(t).peer
        snapshot == Request(t).snapshot
    IN
    /\ At(t, "unpack")
    /\ tmp' = [tmp EXCEPT ![p] = snapshot]
    /\ IF Restorable(snapshot) THEN Goto(t, "lookup") ELSE Fail(t)
    /\ UNCHANGED <<scenario, exists, replicas, data, queue, transfers, faults, mishaps>>

\* The configuration of the snapshot is read, and the collection is created if there
\* is none: its replicas are Initializing, and each peer proposes to activate its own
\* (on_peer_created).  Without a cluster the replica is activated at once.
Lookup(t) ==
    /\ At(t, "lookup")
    /\ IF tmp[Request(t).peer] = None
       THEN Fail(t) /\ UNCHANGED <<exists, replicas, data, queue>>
       ELSE /\ Goto(t, "await")
            /\ exists' = TRUE
            /\ IF exists
               THEN UNCHANGED <<replicas, data, queue>>
               ELSE /\ replicas' = [p \in scenario.owners |->
                                       IF scenario.distributed THEN "Initializing" ELSE "Active"]
                    /\ data' = [p \in Peers |-> IF p \in scenario.owners THEN Empty ELSE None]
                    /\ queue' = [p \in Peers |-> IF scenario.distributed /\ p \in scenario.owners
                                                 THEN Append(queue[p], Initialize(p)) ELSE queue[p]]
    /\ UNCHANGED <<scenario, tmp, transfers, faults, mishaps>>

\* submit_collection_meta_op waits until the replicas are activated, or until its
\* timeout, and goes on in either case.
AwaitInitialized(t) ==
    /\ At(t, "await")
    /\ Goto(t, "compare")
    /\ UNCHANGED <<scenario, exists, replicas, data, tmp, queue, transfers, faults, mishaps>>

\* The state of the collection is read once; the configurations must agree.
\* The local replica is to be taken out of use.
Deactivation(p, seen) ==
    IF p \in DOMAIN seen /\ seen[p] # "Partial" THEN <<State(p, "Partial")>> ELSE <<>>

Compare(t) ==
    LET p == Request(t).peer IN
    /\ At(t, "compare")
    /\ IF Request(t).snapshot.fits
       THEN /\ task' = [task EXCEPT ![t].pc = "restore", ![t].seen = replicas]
            /\ Propose(p, IF scenario.distributed THEN Deactivation(p, replicas) ELSE <<>>)
       ELSE Fail(t) /\ UNCHANGED queue
    /\ UNCHANGED <<scenario, exists, replicas, data, tmp, transfers, faults, mishaps>>

\* check_data, clear and move_data of LocalShard
HasData(dir) == dir # None /\ dir.local
Cleared(p) == [data EXCEPT ![p] = None]
Moved(p) == [data EXCEPT ![p] = tmp[p].content]

\* latest_shard_paths finds nothing where nothing is unpacked.
ShardFound(p) == tmp[p] # None

LockedLocal(p) == \E u \in Requests : Request(u).peer = p /\ task[u].pc = "move"

\* restore_local_replica_from: the old shard is closed and its files are
\* deleted ...
Restore(t) ==
    LET p == Request(t).peer IN
    /\ At(t, "restore")
    /\ ~LockedLocal(p)
    /\ IF ~ShardFound(p)
       THEN Fail(t) /\ UNCHANGED <<data, transfers>>
       ELSE IF ~HasData(tmp[p])
       THEN Goto(t, "cleanup") /\ UNCHANGED <<data, transfers>>
       ELSE /\ Goto(t, "move")
            /\ data' = Cleared(p)
            /\ transfers' = {IF r.phase \notin {"sending", "mixing"} THEN r
                             ELSE IF r.from = p THEN [r EXCEPT !.phase = "broken"]
                             ELSE IF r.to = p THEN [r EXCEPT !.phase = "mixing"] ELSE r : r \in transfers}
    /\ UNCHANGED <<scenario, exists, replicas, tmp, queue, faults, mishaps>>

\* ... and those of the snapshot take their place.
Move(t) ==
    LET p == Request(t).peer IN
    /\ At(t, "move")
    /\ IF ~HasData(tmp[p])
       THEN Fail(t) /\ UNCHANGED <<data, tmp>>
       ELSE /\ data' = Moved(p)
            /\ tmp' = [tmp EXCEPT ![p].local = FALSE]
            /\ Goto(t, "decide")
    /\ UNCHANGED <<scenario, exists, replicas, queue, transfers, faults, mishaps>>

\* How many of the other replicas the replication factor leaves no room for
Surplus(others) ==
    IF Cardinality(others) > scenario.factor - 1 THEN Cardinality(others) - (scenario.factor - 1) ELSE 0

Others(t) == ActiveOf(task[t].seen) \ {Request(t).peer}

\* A slip of Decisions: the others stay in use.
DecisionsForOne(t) ==
    LET p == Request(t).peer
        others == Others(t)
    IN  IF others = {} \/ Request(t).priority = "Snapshot" THEN {<<State(p, "Active")>>}
        ELSE {<<Transfer(q, p)>> : q \in others}

\* activate_shard and what follows it: nothing, the removal or the death of the
\* others, or a transfer from one of them
Decisions(t) ==
    LET p == Request(t).peer
        others == Others(t)
    IN  IF others = {} THEN {<<State(p, "Active")>>}
        ELSE IF Request(t).priority = "Snapshot"
        THEN {<<State(p, "Active")>>
                 \o [i \in DOMAIN o |-> IF i <= Surplus(others) THEN Removal(o[i]) ELSE State(o[i], "Dead")] :
                 o \in SetToSeqs(others)}
        ELSE {<<Transfer(q, p)>> : q \in others}

\* activate_shard without a cluster
ActivateLocally(p) == replicas' = WithState(replicas, p, "Active") /\ UNCHANGED queue

Decide(t) ==
    LET p == Request(t).peer IN
    /\ At(t, "decide")
    /\ Goto(t, "cleanup")
    /\ IF scenario.distributed
       THEN /\ \E ops \in Decisions(t) : Propose(p, ops)
            /\ UNCHANGED replicas
       ELSE ActivateLocally(p)
    /\ UNCHANGED <<scenario, exists, data, tmp, transfers, faults, mishaps>>

Cleanup(t) ==
    LET p == Request(t).peer IN
    /\ At(t, "cleanup")
    /\ tmp' = [tmp EXCEPT ![p] = None]
    /\ Goto(t, IF tmp[p] = None THEN "failed" ELSE "done")
    /\ UNCHANGED <<scenario, exists, replicas, data, queue, transfers, faults, mishaps>>

Recover(t) ==
    Download(t) \/ Unpack(t) \/ Lookup(t) \/ AwaitInitialized(t) \/ Compare(t)
    \/ Restore(t) \/ Move(t) \/ Decide(t) \/ Cleanup(t)

\* A peer restarts.  What it had not proposed yet is lost, and so are its
\* recoveries; its transfers are reported as failed.  A shard whose files were
\* deleted cannot be loaded, and the peer does not start without it.
Crash(p) ==
    /\ crashes < scenario.crashes /\ p \notin down
    /\ crashes' = crashes + 1
    /\ queue' = [queue EXCEPT ![p] = <<>>]
    /\ task' = [t \in Requests |->
                  IF Request(t).peer = p /\ task[t].pc # "done" THEN [task[t] EXCEPT !.pc = "failed"]
                  ELSE task[t]]
    /\ transfers' = {IF r.from = p THEN [r EXCEPT !.phase = "broken"] ELSE r : r \in transfers}
    /\ down' = IF p \in DOMAIN replicas /\ data[p] = None THEN down \cup {p} ELSE down
    /\ UNCHANGED <<scenario, exists, replicas, data, tmp, losses, mishaps>>

Next ==
    \/ \E t \in Requests : Recover(t)
    \/ \E p \in Peers : Apply(p) \/ Refuse(p) \/ SyncLocalState(p) \/ Crash(p)
    \/ \E r \in transfers : ReportTransfer(r)

Fairness ==
    /\ \A t \in Tasks : WF_vars(t \in Requests /\ Recover(t))
    /\ \A p \in Peers : WF_vars(Apply(p)) /\ WF_vars(SyncLocalState(p))
    /\ WF_vars(\E r \in transfers : ReportTransfer(r))

Spec == Init /\ [][Next]_vars /\ Fairness

-----------------------------------------------------------------------------
(* Properties                                                              *)

Ended(t) == task[t].pc \in {"done", "failed"}
NothingUnderWay ==
    /\ \A t \in Requests : Ended(t)
    /\ \A p \in Peers : queue[p] = <<>>
    /\ transfers = {}
AtRest == NothingUnderWay /\ \A p \in DOMAIN replicas : replicas[p] # "Dead"

TypeOK ==
    /\ exists \in BOOLEAN
    /\ DOMAIN replicas \subseteq Peers
    /\ \A p \in DOMAIN replicas : replicas[p] \in {"Active", "Partial", "Dead", "Initializing"}
    /\ down \subseteq Peers

\* When nothing is going on any more the replicas in use hold the same data:
\* the recovery takes the others out of use, or makes the recovered replica
\* equal to one of them, or finds that there is no other ("No other active
\* replicas, we can activate this shard as there is no de-sync possible").
NoDesync ==
    AtRest => \A p, q \in ActiveOf(replicas) \ down : data[p] = data[q]

\* A collection with several replicas is served all the time, whatever the
\* recovery of one of them does and wherever its peer crashes.
SomeServes ==
    exists /\ Cardinality(scenario.owners) > 1 =>
        \E p \in ActiveOf(replicas) \ down : data[p] # None

Expected(t) ==
    IF Request(t).priority = "Snapshot" \/ Others(t) = {} THEN Request(t).snapshot.content
    ELSE IF scenario.exists THEN Live ELSE Empty

Succeeded(t) == task[t].pc = "done" /\ Request(t).snapshot.local
HoldsExpected(t) == \A p \in ActiveOf(replicas) : data[p] = Expected(t)

\* Nothing else goes on: no other recovery, no replica that was not in use when this one
\* began, no lost proposal, no crash.  A recovery with the priority Snapshot leaves one
\* other replica that is to be filled anew, or none.
Undisturbed(t) ==
    /\ Requests = {t} /\ crashes = 0 /\ losses = 0
    /\ \A p \in DOMAIN task[t].seen : task[t].seen[p] = "Active"
    /\ Request(t).priority = "Snapshot" => Cardinality(Others(t)) - Surplus(Others(t)) <= 1

\* The priority decides what the collection holds after a recovery that succeeded and
\* that nothing disturbed: with Snapshot the snapshot, with Replica the content of the
\* other replicas, if one was active (else the snapshot) (_do_recover_from_snapshot).
PriorityIsKept ==
    AtRest => \A t \in Requests : Succeeded(t) /\ Undisturbed(t) => HoldsExpected(t)

\* The same of every recovery that succeeded: "Snapshot is the source of truth, we need
\* to remove all other replicas", "Replica is the source of truth".
PriorityIsAlwaysKept == AtRest => \A t \in Requests : Succeeded(t) => HoldsExpected(t)

\* A recovery deactivated the replica of peer p and failed later.
GivenUp(p) == \E t \in Requests : Request(t).peer = p /\ task[t].pc = "failed" /\ task[t].seen # <<>>

\* The replica is Partial and nothing is under way that could activate it: what should
\* have done so was refused, or a recovery gave up.
Stranded(p) == NothingUnderWay /\ StateOf(p) = "Partial" /\ (<<"refused", p>> \in mishaps \/ GivenUp(p))

\* No replica is left that peer p could be filled from: the last one in use was
\* removed, or died with a transfer to it that was still registered; the rule that keeps
\* the last active replica does not look at either.
Bereft(p) ==
    /\ NothingUnderWay /\ StateOf(p) = "Dead" /\ ActiveOf(replicas) = {}
    /\ \E q \in Peers : <<"deposed", q>> \in mishaps

\* A replica was removed and is in use again, without its data: the operation that
\* removed it came between two of a recovery or of a transfer.
Ghost(p) == StateOf(p) = "Active" /\ data[p] = None /\ \A t \in Requests : Ended(t)

Recovered(t) == t \in Requests /\ Succeeded(t)
InUse(t) == t \in Requests /\ StateOf(Request(t).peer) \in {None, "Active"}

\* Another recovery runs, raft refused a proposal, or not all replicas were in use.
Beset ==
    \/ Cardinality(Requests) > 1 \/ losses > 0
    \/ \E p \in scenario.owners : scenario.states[p] # "Active"

\* A replica that a recovery reported as recovered gets into use again, or is removed:
\* by its activation, by the transfer that stands for it, or, when that fails, by those
\* that sync_local_state asks for (crashes apart).  If the recovery is beset, it may be
\* left Partial, when raft or validate_transfer refused the activation or the transfer or
\* when another recovery on the same peer failed, or Dead, when all replicas are or when
\* the one that it asks has no data.
RecoveredServes ==
    \A t \in Tasks :
        Recovered(t) ~>
            \/ InUse(t) \/ crashes > 0
            \/ /\ t \in Requests /\ Beset
               /\ Stranded(Request(t).peer) \/ Bereft(Request(t).peer) \/ \E q \in Peers : Ghost(q)

\* The same without exception: "we need to sync recovered data with this replica", "we can
\* activate this shard".
RecoveredAlwaysServes == \A t \in Tasks : Recovered(t) ~> (InUse(t) \/ crashes > 0)
=============================================================================
