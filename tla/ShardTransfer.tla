--------------------------- MODULE ShardTransfer ----------------------------
(***************************************************************************)
(* The replicas of one shard in a cluster: updates that fan out to the     *)
(* replicas, replicas that fail and are deactivated, and the transfers     *)
(* that recover, replicate or move the shard.  The consensus is a log of   *)
(* operations that every peer applies in order and at its own pace;        *)
(* proposals may be lost.  An update inserts one point, and a shard is the *)
(* set of the points that it has.                                          *)
(***************************************************************************)
EXTENDS ReplicaSet, Sequences, SequencesExt

CONSTANTS Holders,    \* peers that have an active replica at first
          Factor,     \* write_consistency_factor
          Scenarios   \* what may happen in a behaviour: see ScenarioFields

Transfers == [from : Peers, to : Peers, sync : BOOLEAN]

ScenarioFields ==
    {"nodes",          \* the peers of the cluster
     "points",         \* updates; the one that inserts a point has its name
     "requests",       \* transfers that users request
     "tries",          \* MAX_RETRY_COUNT
     "log",            \* bound on the operations of the consensus
     "lost",           \* bound on the updates, or their answers, that are lost
     "calls",          \* bound on the calls of transfer tasks that are lost
     "restarts",       \* bound on restarts
     "lagging",        \* may an update run while some peers have applied more of
                       \* the log than others
     "lossyPending",   \* may an update to a replica that is not active be lost
     "untimelyCalls",  \* may initiate_transfer reach a peer that has applied the
                       \* end of the transfer, or not the end of the one before
     "whileDisabled",  \* may a peer send updates while it has disabled a replica
     "lateReports",    \* may a transfer be reported as finished after its end
     "lateRestarts",   \* may a sender restart between the report that its transfer
                       \* has finished and the end of the transfer
     "snapshots"}      \* may a peer get a snapshot of the state instead of entries:
                       \* "none", "idle" (it has shards for all replicas that it knows,
                       \* and no task of it loses its transfer), "any"

\* the fields that allow what AckedIsReplicated does not hold with
Hardships == {"lagging", "lossyPending", "whileDisabled", "lateReports", "lateRestarts"}

ASSUME ShardTransferAssumption ==
    /\ Holders # {}
    /\ Factor \in Nat \ {0}
    /\ \A sc \in Scenarios :
          /\ DOMAIN sc = ScenarioFields
          /\ Holders \subseteq sc.nodes /\ sc.nodes \subseteq Peers
          /\ sc.requests \subseteq Transfers
          /\ {sc.points, sc.tries} \subseteq Nat \ {0}
          /\ {sc.log, sc.lost, sc.calls, sc.restarts} \subseteq Nat
          /\ \A f \in Hardships \cup {"untimelyCalls"} : sc[f] \in BOOLEAN
          /\ sc.snapshots \in {"none", "idle", "any"}

VARIABLES
    log,        \* what the consensus has agreed on
    at,         \* the number of entries that a peer has applied
    node,       \* the replica set of a peer
    transfers,  \* shard_transfers of a peer
    task,       \* the transfer task of a peer
    upd,        \* the updates
    lost,       \* updates lost
    calls,      \* calls of transfer tasks lost
    restarts,
    scenario    \* chosen once

vars == <<log, at, node, transfers, task, upd, lost, calls, restarts, scenario>>

Nodes == scenario.nodes
Points == 1 .. scenario.points

NoTask == [phase |-> "none"]
Results == {"finished", "failed"}

Init ==
    /\ scenario \in Scenarios
    /\ log = <<>>
    /\ at = [p \in Peers |-> 0]
    /\ node = [p \in Peers |->
          [state |-> [q \in Peers |-> IF q \in Holders THEN "Active" ELSE None],
           remotes |-> Holders \ {p},
           disabled |-> {},
           isLocal |-> p \in Holders,
           local |-> p \in Holders,
           proxy |-> None,
           data |-> {}]]
    /\ transfers = [p \in Peers |-> {}]
    /\ task = [p \in Peers |-> NoTask]
    /\ upd = [i \in Points |-> [phase |-> "new"]]
    /\ lost = 0
    /\ calls = 0
    /\ restarts = 0

Lose == lost < scenario.lost /\ lost' = lost + 1

-----------------------------------------------------------------------------
(* Operations of the consensus                                             *)

Dead(q) == [kind |-> "dead", peer |-> q]
Start(t) == [kind |-> "start", transfer |-> t]
Finish(t) == [kind |-> "finish", transfer |-> t]
Abort(t) == [kind |-> "abort", transfer |-> t]

\* Proposals are sent to the consensus thread; some of them become entries.
Propose(ops) ==
    \E os \in SUBSET ops :
        /\ log' = log \o SetToSeq(os)
        /\ Len(log') <= scenario.log

-----------------------------------------------------------------------------
(* A peer applies an operation.  The operators give the peer afterwards.   *)

Peer(p) == [node |-> node[p], transfers |-> transfers[p], task |-> task[p]]

Becomes(p, s) ==
    /\ node' = [node EXCEPT ![p] = s.node]
    /\ transfers' = [transfers EXCEPT ![p] = s.transfers]
    /\ task' = [task EXCEPT ![p] = s.task]

\* ShardTransferKey::check
SameKey(t, u) == t.from = u.from /\ t.to = u.to
TransferExists(ts, t) == \E u \in ts : SameKey(t, u)

\* check_transfer_conflicts
Conflicts(ts, t) == \E u \in ts : {t.from, t.to} \cap {u.from, u.to} # {}

ValidTransfer(s, t) ==
    /\ s.node.state[t.from] = "Active"
    /\ ~Conflicts(s.transfers, t)

\* start_shard_transfer
Started(p, s, t) ==
    [node |-> SetReplicaState(p, s.node, t.to, "Partial"),
     transfers |-> s.transfers \cup {t},
     task |-> IF p = t.from /\ s.node.local /\ s.node.proxy = None
              THEN [phase |-> "initiate", transfer |-> t, tries |-> scenario.tries, begun |-> at[p] + 1]
              ELSE s.task]

\* The proxy of the sender becomes the shard again, or a remote shard
HandleTransferredShardProxy(p, n, t) ==
    LET m == AddRemote(n, t.to, "Active") IN
    IF t.sync THEN UnProxifyLocal(m) ELSE RemoveLocal(p, m)

\* A slip: the shard is not promoted.
LeavePartialShard(p, n) == n

FinalizePartialShard(p, n) == IF n.local THEN SetReplicaState(p, n, p, "Active") ELSE n

ChangeRemoteShardRoute(p, n, t) ==
    LET m == IF p # t.to THEN AddRemote(n, t.to, "Active") ELSE n IN
    IF t.sync THEN m ELSE RemoveRemote(m, t.from)

\* A slip: third parties do not change their routes.
FinishedBetween(p, s, t) ==
    [node |-> CASE p = t.from -> HandleTransferredShardProxy(p, s.node, t)
                [] p = t.to -> ChangeRemoteShardRoute(p, FinalizePartialShard(p, s.node), t)
                [] OTHER -> s.node,
     transfers |-> {u \in s.transfers : ~SameKey(t, u)},
     task |-> IF p = t.from THEN NoTask ELSE s.task]

\* finish_shard_transfer
Finished(p, s, t) ==
    [node |-> CASE p = t.from -> HandleTransferredShardProxy(p, s.node, t)
                [] p = t.to -> ChangeRemoteShardRoute(p, FinalizePartialShard(p, s.node), t)
                [] OTHER -> ChangeRemoteShardRoute(p, s.node, t),
     transfers |-> {u \in s.transfers : ~SameKey(t, u)},
     task |-> IF p = t.from THEN NoTask ELSE s.task]

\* A slip: the task is not stopped.
AbortedRunning(p, s, t) ==
    LET n == SetReplicaState(p, s.node, t.to, "Dead")
    IN  [node |-> IF p = t.from THEN UnProxifyLocal(n) ELSE n,
         transfers |-> {u \in s.transfers : ~SameKey(t, u)},
         task |-> s.task]

\* _abort_shard_transfer.  A sender without a shard has no proxy to revert;
\* the call fails, and the transfer stays registered.
Aborted(p, s, t) ==
    LET sync == \E u \in s.transfers : SameKey(t, u) /\ u.sync
        n == IF sync THEN SetReplicaState(p, s.node, t.to, "Dead") ELSE RemovePeer(p, s.node, t.to)
    IN  [node |-> IF p = t.from THEN UnProxifyLocal(n) ELSE n,
         transfers |-> IF p = t.from /\ ~n.local
                       THEN s.transfers
                       ELSE {u \in s.transfers : ~SameKey(t, u)},
         task |-> IF p = t.from THEN NoTask ELSE s.task]

\* A slip: the last active replica may be deactivated.
MayAlwaysDeactivate(n, q) == TRUE

\* Do not deactivate the last active replica
MayDeactivate(n, q) == ActivePeers(n) # {q}

\* set_shard_replica_state, to Dead
RelatedTransfers(s, q) == {t \in s.transfers : q \in {t.from, t.to}}

Deactivate(p, s, q) ==
    FoldSet(LAMBDA t, r : Aborted(p, r, t),
            [s EXCEPT !.node = EnsureReplicaWithState(p, @, q, "Dead")],
            RelatedTransfers(s, q))

-----------------------------------------------------------------------------
(* The next operation of the log, at peer p                                *)

NextIs(p, kind) ==
    /\ at[p] < Len(log) /\ log[at[p] + 1].kind = kind
    /\ scenario.lagging \/ \A i \in Points : upd[i].phase # "sent"
Applied(p) == at' = [at EXCEPT ![p] = @ + 1]

\* update() holds the local shard and the remote shards until all replicas
\* have answered; who changes them waits for that.
Unlocked(p) == \A i \in Points : upd[i].phase = "sent" => upd[i].by # p

ApplyDead(p) ==
    /\ NextIs(p, "dead")
    /\ LET q == log[at[p] + 1].peer
           s == Deactivate(p, Peer(p), q)
       IN  IF MayDeactivate(node[p], q)
           THEN /\ Unlocked(p) \/ (p = q /\ RelatedTransfers(Peer(p), q) = {})
                /\ Becomes(p, s)
                /\ IF p = q /\ ActivePeers(s.node) # {}
                   THEN \E a \in ActivePeers(s.node) :
                            Propose({Start([from |-> a, to |-> p, sync |-> TRUE])})
                   ELSE UNCHANGED log
           ELSE UNCHANGED <<log, node, transfers, task>>
    /\ Applied(p)
    /\ UNCHANGED <<upd, lost, calls, restarts, scenario>>

ApplyStart(p) ==
    /\ NextIs(p, "start")
    /\ LET t == log[at[p] + 1].transfer IN
       IF ValidTransfer(Peer(p), t)
       THEN Becomes(p, Started(p, Peer(p), t))
       ELSE UNCHANGED <<node, transfers, task>>
    /\ Applied(p)
    /\ UNCHANGED <<log, upd, lost, calls, restarts, scenario>>

ApplyFinish(p) ==
    /\ NextIs(p, "finish")
    /\ LET t == log[at[p] + 1].transfer IN
       IF TransferExists(transfers[p], t)
       THEN Unlocked(p) /\ Becomes(p, Finished(p, Peer(p), t))
       ELSE UNCHANGED <<node, transfers, task>>
    /\ Applied(p)
    /\ UNCHANGED <<log, upd, lost, calls, restarts, scenario>>

ApplyAbort(p) ==
    /\ NextIs(p, "abort")
    /\ LET t == log[at[p] + 1].transfer IN
       IF TransferExists(transfers[p], t)
       THEN Unlocked(p) /\ Becomes(p, Aborted(p, Peer(p), t))
       ELSE UNCHANGED <<node, transfers, task>>
    /\ Applied(p)
    /\ UNCHANGED <<log, upd, lost, calls, restarts, scenario>>

\* State::apply: p gets the state of the collection as q has it.  Transfers that p
\* learns to send are aborted, a shard that is new here is reported as failed.  The
\* tasks of transfers that have ended go on.
LearntToSend(p, q) == {t \in transfers[q] \ transfers[p] : t.from = p}
NewAndActive(p, q) == {r \in {p} : node[p].state[r] = None /\ node[q].state[r] = "Active"}

Linked(p) == KnownPeers(node[p].state) \subseteq node[p].remotes \cup {r \in {p} : node[p].local}

CatchUp(p, q) ==
    /\ scenario.snapshots # "none" /\ at[p] < at[q]
    /\ scenario.lagging \/ \A i \in Points : upd[i].phase # "sent"
    /\ scenario.snapshots = "idle" => Linked(p) /\ (task[p].phase # "none" => task[p].transfer \in transfers[q])
    /\ Unlocked(p) \/ KnownPeers(node[p].state) = KnownPeers(node[q].state)
    /\ node' = [node EXCEPT ![p] = ApplyState(p, @, node[q].state)]
    /\ transfers' = [transfers EXCEPT ![p] = transfers[q]]
    /\ at' = [at EXCEPT ![p] = at[q]]
    /\ Propose({Abort(t) : t \in LearntToSend(p, q)} \cup {Dead(r) : r \in NewAndActive(p, q)})
    /\ UNCHANGED <<task, upd, lost, calls, restarts, scenario>>

\* Users request transfers, and abort the ones that their peer knows of.
UserRequest ==
    /\ \/ \E t \in scenario.requests : Propose({Start(t)})
       \/ \E t \in UNION {transfers[p] : p \in Nodes} : Propose({Abort(t)})
    /\ UNCHANGED <<at, node, transfers, task, upd, lost, calls, restarts, scenario>>

\* The log has nothing, after the start, that ends the transfer of p's task.
NotEnded(p) ==
    \A k \in task[p].begun + 1 .. Len(log) :
        LET op == log[k]
            t == task[p].transfer
        IN  IF op.kind = "dead" THEN op.peer \notin {t.from, t.to}
            ELSE op.kind = "start" \/ ~SameKey(op.transfer, t)

MayReport(p) == scenario.lateReports \/ NotEnded(p)

\* sync_local_state: what was not reported, or was reported in vain, is
\* reported again, and a dead replica asks for a transfer.
Unreported(p) ==
    {Dead(q) : q \in node[p].disabled}
       \cup {IF task[p].phase = "finished" THEN Finish(t) ELSE Abort(t) :
                t \in {u \in transfers[p] :
                        /\ u.from = p
                        /\ task[p].phase \in {"none"} \cup Results
                        /\ task[p].phase = "finished" => MayReport(p)}}

Recoveries(p) ==
    {t \in Transfers :
        /\ t.to = p /\ t.sync
        /\ node[p].state[p] = "Dead"
        /\ t.from \in (node[p].remotes \cap ActivePeers(node[p])) \ node[p].disabled
        /\ ~Conflicts(transfers[p], t)}

SyncLocalState(p) ==
    /\ IF Recoveries(p) = {}
       THEN Propose(Unreported(p))
       ELSE \E t \in Recoveries(p) : Propose(Unreported(p) \cup {Start(t)})
    /\ UNCHANGED <<at, node, transfers, task, upd, lost, calls, restarts, scenario>>

-----------------------------------------------------------------------------
(* The transfer task of peer p (spawn_transfer_task)                       *)

Running(p, phase) == task[p].phase = phase
Receiver(p) == task[p].transfer.to

\* The attempt has failed.  The last one is reported.
Retry(p) ==
    IF task[p].tries > 1
    THEN /\ task' = [task EXCEPT ![p].phase = "initiate", ![p].tries = @ - 1]
         /\ UNCHANGED log
    ELSE /\ task' = [task EXCEPT ![p].phase = "failed"]
         /\ Propose({Abort(task[p].transfer)})

\* initiate_transfer, at the receiver
Initiate(p) ==
    /\ Running(p, "initiate")
    /\ LET q == Receiver(p) IN
       /\ \/ scenario.untimelyCalls
          \/ at[q] = task[p].begun - 1
          \/ at[q] >= task[p].begun /\ task[p].transfer \in transfers[q]
       /\ node' = [node EXCEPT ![q] = InitiateLocalPartialShard(q, @)]
    /\ task' = [task EXCEPT ![p].phase = "proxify"]
    /\ UNCHANGED <<log, at, transfers, upd, lost, calls, restarts, scenario>>

Proxify(p) ==
    /\ Running(p, "proxify")
    /\ Unlocked(p)
    /\ IF CanProxify(node[p], Receiver(p))
       THEN /\ node' = [node EXCEPT ![p] = ProxifyLocal(@, Receiver(p))]
            /\ task' = [task EXCEPT ![p] =
                  [phase |-> "batch", transfer |-> @.transfer, tries |-> @.tries,
                   begun |-> @.begun, next |-> 1]]
            /\ UNCHANGED log
       ELSE Retry(p) /\ UNCHANGED node
    /\ UNCHANGED <<at, transfers, upd, lost, calls, restarts, scenario>>

\* A slip: the last batch is not sent.
SyncedButLast(n, m, i) ==
    IF i = scenario.points THEN m ELSE [m EXCEPT !.data = (@ \ {i}) \cup (n.data \cap {i})]

\* transfer_batch, with a batch of one point.  The receiver has the point
\* afterwards if and only if the sender has it.  No update passes the proxy
\* meanwhile; a shard that sends to itself waits for itself.
Synced(n, m, i) == [m EXCEPT !.data = (@ \ {i}) \cup (n.data \cap {i})]
TakesBatch(p, q) == node[p].proxy # None /\ AcceptsUpdate(q, node[q]) /\ p # q

TransferBatch(p) ==
    /\ Running(p, "batch")
    /\ LET q == Receiver(p)
           i == task[p].next
       IN  IF TakesBatch(p, q)
           THEN /\ node' = [node EXCEPT ![q] = Synced(node[p], @, i)]
                /\ IF i \in Points \ {scenario.points}
                   THEN task' = [task EXCEPT ![p].next = i + 1] /\ UNCHANGED log
                   ELSE /\ task' = [task EXCEPT ![p].phase = "finished"]
                        /\ Propose({Finish(t) : t \in {u \in {task[p].transfer} : MayReport(p)}})
           ELSE Retry(p) /\ UNCHANGED node
    /\ UNCHANGED <<at, transfers, upd, lost, calls, restarts, scenario>>

\* A call of the task is lost, or its answer.
CallLost(p) ==
    /\ task[p].phase \in {"initiate", "batch"}
    /\ calls < scenario.calls
    /\ calls' = calls + 1
    /\ Retry(p)
    /\ \/ UNCHANGED node
       \/ /\ Running(p, "batch") /\ TakesBatch(p, Receiver(p))
          /\ node' = [node EXCEPT ![Receiver(p)] = Synced(node[p], @, task[p].next)]
    /\ UNCHANGED <<at, transfers, upd, lost, restarts, scenario>>

-----------------------------------------------------------------------------
(* An update, sent by the peer that a client has asked                     *)

\* update(), up to the fan-out
BeginUpdate(p, i) ==
    /\ upd[i].phase = "new"
    /\ scenario.lagging \/ \A q, r \in Nodes : at[q] = at[r]
    /\ scenario.whileDisabled \/ node[p].disabled = {}
    /\ LET targets == UpdateTargets(p, node[p]) IN
       upd' = [upd EXCEPT ![i] =
          IF targets = {}
          THEN [phase |-> "error"]
          ELSE [phase |-> "sent", by |-> p, to |-> targets, ok |-> 0,
                total |-> Cardinality(targets), failed |-> {}]]
    /\ UNCHANGED <<log, at, node, transfers, task, lost, calls, restarts, scenario>>

Sent(i, q) == upd[i].phase = "sent" /\ q \in upd[i].to
Takes(i, q) == q = upd[i].by \/ AcceptsUpdate(q, node[q])

Success(i, q) == upd' = [upd EXCEPT ![i].to = @ \ {q}, ![i].ok = @ + 1]
Failure(i, q, culprit) == upd' = [upd EXCEPT ![i].to = @ \ {q}, ![i].failed = @ \cup {culprit}]
Inserted(n, i) == [n EXCEPT !.data = @ \cup {i}]

\* The shard of q takes the update; the answer may be lost.
TakeUpdate(i, q) ==
    /\ Sent(i, q)
    /\ Takes(i, q)
    /\ node[q].proxy = None
    /\ node' = [node EXCEPT ![q] = Inserted(@, i)]
    /\ \/ Success(i, q) /\ UNCHANGED lost
       \/ q # upd[i].by /\ Failure(i, q, q) /\ Lose
    /\ UNCHANGED <<log, at, transfers, task, calls, restarts, scenario>>

\* The proxy at q takes the update and forwards it.  When that fails, the
\* sender of the update blames q, and q itself blames the receiver.
ForwardUpdate(i, q) ==
    /\ Sent(i, q)
    /\ Takes(i, q)
    /\ node[q].proxy # None
    /\ LET f == node[q].proxy
           takes == f # q /\ AcceptsUpdate(f, node[f])
       IN  \/ /\ takes
              /\ node' = [node EXCEPT ![q] = Inserted(@, i), ![f] = Inserted(@, i)]
              /\ Success(i, q)
              /\ UNCHANGED lost
           \/ /\ IF takes THEN scenario.lossyPending /\ Lose ELSE UNCHANGED lost
              /\ node' = [node EXCEPT ![q] = Inserted(@, i)]
              /\ Failure(i, q, IF q = upd[i].by THEN f ELSE q)
    /\ UNCHANGED <<log, at, transfers, task, calls, restarts, scenario>>

\* q has no replica that takes updates, or does not hear of the update.
MissUpdate(i, q) ==
    /\ Sent(i, q) /\ q # upd[i].by
    /\ IF Takes(i, q)
       THEN (scenario.lossyPending \/ node[upd[i].by].state[q] = "Active") /\ Lose
       ELSE UNCHANGED lost
    /\ Failure(i, q, q)
    /\ UNCHANGED <<log, at, node, transfers, task, calls, restarts, scenario>>

Answer(i) == IF upd[i].ok >= Factor \/ upd[i].ok = upd[i].total THEN "ok" ELSE "error"

\* All replicas have answered.
Collect(i) ==
    /\ upd[i].phase = "sent" /\ upd[i].to = {}
    /\ LET p == upd[i].by
           failed == FailedReplicas(node[p], upd[i].failed)
       IN  IF upd[i].ok = 0 \/ failed = {}
           THEN /\ upd' = [upd EXCEPT ![i].phase = IF upd[i].ok = 0 THEN "error" ELSE Answer(i)]
                /\ UNCHANGED <<log, node>>
           ELSE /\ upd' = [upd EXCEPT ![i].phase = "wait"]
                /\ node' = [node EXCEPT ![p] = DisableLocally(@, failed)]
                /\ Propose({Dead(q) : q \in failed})
    /\ UNCHANGED <<at, transfers, task, lost, calls, restarts, scenario>>

\* The wait for the deactivation ends, or times out.
Confirm(i) ==
    /\ upd[i].phase = "wait"
    /\ Deactivated(node[upd[i].by], upd[i].failed)
    /\ upd' = [upd EXCEPT ![i].phase = Answer(i)]
    /\ UNCHANGED <<log, at, node, transfers, task, lost, calls, restarts, scenario>>

DeactivationTimeout(i) ==
    /\ upd[i].phase = "wait"
    /\ upd' = [upd EXCEPT ![i].phase = "error"]
    /\ UNCHANGED <<log, at, node, transfers, task, lost, calls, restarts, scenario>>

\* The log has the end of a transfer that p sends, and p has not applied it.
EndsSending(p) ==
    \E k \in at[p] + 1 .. Len(log) : log[k].kind = "finish" /\ log[k].transfer.from = p

\* Clients that p was serving see the connection break.  A replica set that
\* is marked as local and has no shard cannot be loaded.
Restart(p) ==
    /\ restarts < scenario.restarts
    /\ scenario.lateRestarts \/ ~EndsSending(p)
    /\ restarts' = restarts + 1
    /\ node[p].isLocal => node[p].local
    /\ node' = [node EXCEPT ![p] = Load(p, @)]
    /\ task' = [task EXCEPT ![p] = NoTask]
    /\ upd' = [i \in Points |->
          IF upd[i].phase \in {"sent", "wait"} /\ upd[i].by = p
          THEN [phase |-> "error"] ELSE upd[i]]
    /\ UNCHANGED <<log, at, transfers, lost, calls, scenario>>

-----------------------------------------------------------------------------
Next ==
    \/ UserRequest
    \/ \E p \in Nodes :
          \/ ApplyDead(p) \/ ApplyStart(p) \/ ApplyFinish(p) \/ ApplyAbort(p)
          \/ SyncLocalState(p)
          \/ \E q \in Nodes : CatchUp(p, q)
          \/ Initiate(p) \/ Proxify(p) \/ TransferBatch(p) \/ CallLost(p)
          \/ Restart(p)
    \/ \E i \in Points :
          \/ \E p \in Nodes : BeginUpdate(p, i)
          \/ \E q \in Nodes : TakeUpdate(i, q) \/ ForwardUpdate(i, q) \/ MissUpdate(i, q)
          \/ Collect(i) \/ Confirm(i) \/ DeactivationTimeout(i)

Spec == Init /\ [][Next]_vars

-----------------------------------------------------------------------------
(* Properties                                                              *)

\* The variables have their types, and a task, an update and a node on every peer
\* are in one of the stages that the code knows.
TypeOK ==
    /\ at \in [Peers -> 0 .. Len(log)] /\ Len(log) <= scenario.log
    /\ \A p \in Nodes :
          /\ node[p].state \in [Peers -> ReplicaStates \cup {None}]
          /\ node[p].remotes \subseteq Peers \ {p}
          /\ node[p].disabled \subseteq Peers
          /\ {node[p].isLocal, node[p].local} \subseteq BOOLEAN
          /\ node[p].proxy \in Peers \cup {None}
          /\ node[p].data \subseteq Points
          /\ transfers[p] \subseteq Transfers
          /\ task[p].phase \in {"none", "initiate", "proxify", "batch"} \cup Results
    /\ \A i \in Points : upd[i].phase \in {"new", "sent", "wait", "ok", "error"}
    /\ lost \in 0 .. scenario.lost /\ calls \in 0 .. scenario.calls /\ restarts \in 0 .. scenario.restarts

\* Nothing is under way: the log is applied, nobody has a failure to report
\* and no update is being handled.
Settled ==
    /\ \A p \in Nodes : at[p] = Len(log) /\ node[p].disabled = {}
    /\ \A i \in Points : upd[i].phase \notin {"sent", "wait"}

\* Updates meet peers that have applied the same of the log, nothing is lost
\* on the way to a replica that is being filled, and reports on transfers
\* come in time.
Orderly == \A f \in Hardships : ~scenario[f]

\* An update that was acknowledged with wait = true is on every replica that
\* is active, whatever replicas and messages have failed and whatever
\* transfers have run since (ShardReplicaSet::update).  The code needs each
\* part of Orderly for it.
AckedIsReplicated ==
    Settled /\ Orderly => \A i \in Points, q \in Nodes :
        upd[i].phase = "ok" /\ node[q].state[q] = "Active" => i \in node[q].data

\* There is an active replica as every peer knows it: neither failures nor
\* transfers take the last one away (set_shard_replica_state, "Do not
\* deactivate the last active replica"), unless users ask for a transfer from
\* a peer to itself.
SomeActive ==
    (\A t \in scenario.requests : t.from # t.to) => \A p \in Nodes : ActivePeers(node[p]) # {}

\* Peers that have applied the same operations take a third one's replica for
\* the same: whether an operation is refused depends on the states and the
\* transfers that a peer knows, and these are the same everywhere.
SameStates ==
    \A p, q \in Nodes : at[p] = at[q] =>
        \A r \in Peers \ {p, q} : node[p].state[r] = node[q].state[r]

\* What a peer takes its own replica for is what the others take it for, once
\* both have applied the whole log: a replica whose transfer was aborted is
\* dead to itself as well, and asks to be recovered (sync_local_state).  This
\* needs calls that reach the receiver while the transfer is registered there.
KnowsItself ==
    ~scenario.untimelyCalls =>
        \A p, q \in Nodes : {at[p], at[q]} = {Len(log)} => node[p].state[p] = node[q].state[p]

\* A transfer task, and the proxy it has put around the shard, belong to a
\* transfer that is registered: no end of a transfer leaves them behind, and
\* none is found when a transfer starts (send_shard, debug_assert_eq).
NoStrayTask ==
    \A p \in Nodes :
        /\ task[p].phase # "none" => task[p].transfer \in transfers[p]
        /\ node[p].proxy # None => [from |-> p, to |-> node[p].proxy] \in
                {[from |-> t.from, to |-> t.to] : t \in transfers[p]}

\* The end of a transfer leaves nothing behind on any peer: neither a task nor a proxy,
\* nor a receiver that takes itself for what the others do not (finish_shard_transfer,
\* abort_shard_transfer, sync_local_state).
TransfersEndCleanly == KnowsItself /\ NoStrayTask

\* A replica that some peer reads from has every update that was
\* acknowledged: it was deactivated everywhere before the acknowledgement
\* (handle_failed_replicas).
ReadsAreComplete ==
    \A i \in Points, p \in Nodes : upd[i].phase = "ok" =>
        \A q \in ActivePeers(node[p]) \ node[p].disabled : i \in node[q].data

\* A replica set that is marked as local has a shard to load at the next
\* start (ShardReplicaSet::load).
Loadable == \A p \in Nodes : node[p].isLocal => node[p].local
=============================================================================
