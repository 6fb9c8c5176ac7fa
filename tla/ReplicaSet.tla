----------------------------- MODULE ReplicaSet -----------------------------
(***************************************************************************)
(* The replica set of one shard as one peer sees it (ShardReplicaSet).  A  *)
(* node is a record: the states of the replicas it knows (persisted), the  *)
(* remote shards it sends to, the peers it has disabled on its own, and    *)
(* its local shard, which may be wrapped by a proxy that forwards updates  *)
(* to the peer of a running transfer.  The operators give the node after a *)
(* call; ShardTransfer puts the nodes of a cluster together.               *)
(***************************************************************************)
EXTENDS Naturals, FiniteSets, FiniteSetsExt

CONSTANTS Peers,
          None

ReplicaStates == {"Active", "Dead", "Partial"}

ActivePeers(n) == {q \in Peers : n.state[q] = "Active"}

-----------------------------------------------------------------------------
(* Replica states                                                          *)

UpdateLocallyDisabled(n, q) ==
    [n EXCEPT !.disabled = (@ \ {q})
                 \ (IF Cardinality(ActivePeers(n)) = 1 THEN ActivePeers(n) ELSE {})]

\* p is the peer of the node n.  The flag isLocal says at the next start that
\* there is a local shard to load.
SetReplicaState(p, n, q, state) ==
    UpdateLocallyDisabled([n EXCEPT !.state[q] = state, !.isLocal = @ \/ p = q], q)

AddRemote(n, q, state) ==
    [UpdateLocallyDisabled([n EXCEPT !.state[q] = state], q) EXCEPT !.remotes = @ \cup {q}]

RemoveRemote(n, q) ==
    [UpdateLocallyDisabled([n EXCEPT !.state[q] = None], q) EXCEPT !.remotes = @ \ {q}]

RemoveLocal(p, n) ==
    [UpdateLocallyDisabled([n EXCEPT !.state[p] = None, !.isLocal = FALSE], p)
        EXCEPT !.local = FALSE, !.proxy = None, !.data = {}]

RemovePeer(p, n, q) == IF p = q THEN RemoveLocal(p, n) ELSE RemoveRemote(n, q)

EnsureReplicaWithState(p, n, q, state) ==
    IF p = q THEN SetReplicaState(p, n, q, state) ELSE AddRemote(n, q, state)

-----------------------------------------------------------------------------
(* The local shard                                                         *)

ProxifyLocal(n, q) == [n EXCEPT !.proxy = q]
CanProxify(n, q) == n.local /\ n.proxy \in {None, q}

UnProxifyLocal(n) == [n EXCEPT !.proxy = None]

\* LocalShard::build: a new shard has empty segments and an empty log.
BuildLocal(n) == [n EXCEPT !.local = TRUE, !.proxy = None, !.data = {}]

\* initiate_local_partial_shard
InitiateLocalPartialShard(p, n) ==
    SetReplicaState(p, IF n.local THEN UnProxifyLocal(n) ELSE BuildLocal(n), p, "Partial")

\* What is left after a restart: the replica states and the shard.
Load(p, n) ==
    [n EXCEPT !.remotes = {q \in Peers \ {p} : n.state[q] # None},
              !.disabled = {},
              !.proxy = None]

\* apply_state: the states come from a snapshot of the consensus.  The set of the
\* peers is brought in line with them; a local shard that is new is empty.
KnownPeers(state) == {q \in Peers : state[q] # None}

ApplyState(p, n, replicas) ==
    LET old == KnownPeers(n.state)
        new == KnownPeers(replicas)
        saved == [n EXCEPT !.state = replicas, !.disabled = {}]
        removed == FoldSet(LAMBDA q, m : RemovePeer(p, m, q), saved, old \ new)
        linked == [removed EXCEPT !.remotes = @ \cup ((new \ old) \ {p})]
    IN  IF p \in new \ old
        THEN SetReplicaState(p, BuildLocal(linked), p, replicas[p])
        ELSE linked

-----------------------------------------------------------------------------
(* Where updates go                                                        *)

PeerIsActiveOrPending(n, q) == n.state[q] \in {"Active", "Partial"} /\ q \notin n.disabled

\* The replicas to which update() sends an operation.
UpdateTargets(p, n) ==
    {q \in n.remotes : PeerIsActiveOrPending(n, q)}
       \cup {q \in {p} : n.local /\ PeerIsActiveOrPending(n, q)}

\* update_local takes the operation (of a peer)
AcceptsUpdate(p, n) == n.local /\ n.state[p] \in {"Active", "Partial"}

\* The peers that handle_failed_replicas disables and reports.
FailedReplicas(n, failed) == failed \cap ActivePeers(n)

DisableLocally(n, failed) == [n EXCEPT !.disabled = @ \cup failed]

\* what the wait for the deactivation waits for
Deactivated(n, failed) == failed \cap ActivePeers(n) = {}
=============================================================================
