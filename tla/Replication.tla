---------------------------- MODULE Replication -----------------------------
(***************************************************************************)
(* Updates and reads of one shard that has replicas on several peers       *)
(* (ShardReplicaSet): which peer leads an update, the locks an update      *)
(* holds while it waits for other peers, calls that are lost, repeated or  *)
(* executed after their caller gave up, the deactivation of the replicas   *)
(* that failed, and reads that ask as many replicas as their consistency   *)
(* wants.  Every update writes the same point, and the value it writes is  *)
(* its number.  The consensus is a log that every peer applies in order    *)
(* and at its own pace; it may also delete the collection, which then is   *)
(* not found on some peers while others still serve it.                    *)
(***************************************************************************)
EXTENDS ReplicaSet, Sequences, SequencesExt

CONSTANT Scenarios

\* A scenario has
\*   hosts     the peers with a replica of the shard
\*   updates   records: the peer that a client calls, ordering and wait
\*   reads     records: the peer that a client calls, and the consistency (n is the
\*             number of a "factor"; "plain" reads are those without one)
\*   factor    write_consistency_factor
\*   fanout    read_remote_replicas
\*   lost      bound on the calls that are lost
\*   repeated  bound on the calls whose answer is lost and that are repeated
\*   broken    bound on the updates that fail in the shard of their leader
\*   deleted   whether a client deletes the collection meanwhile
\*   writers   peers whose consensus thread takes the lock of the local shard

VARIABLES
    scenario,
    node,       \* the replica set of a peer, as in ReplicaSet
    log, at,    \* the peers to deactivate, by the consensus; how far a peer is
    gone,       \* the peers on which the collection is deleted
    store,      \* what the replica on a peer has: the number of an update, or 0
    order,      \* write_ordering_lock of a peer: the update that holds it, or 0
    readers,    \* the calls that hold the lock of the local shard of a peer
    writer,     \* its consensus thread: "idle", "waiting" for that lock, "done"
    upd, rd,    \* the calls of clients
    late,       \* <<update, peer>>: calls that nobody waits for any more
    led,        \* the updates in the order in which they got a leader's lock
    faults      \* [lost, repeated, broken]: how many have happened

vars == <<scenario, node, log, at, gone, store, order, readers, writer, upd, rd, late, led, faults>>

\* bound on the peers a call is forwarded through
MaxHops == 3

Updates == DOMAIN upd
Reads == DOMAIN rd

\* the entry of the log that deletes the collection; peers are positive numbers
Deletion == 0

Init ==
    /\ scenario \in Scenarios
    /\ node = [p \in Peers |->
                 [state |-> [q \in Peers |-> IF q \in scenario.hosts THEN "Active" ELSE None],
                  remotes |-> scenario.hosts \ {p}, disabled |-> {},
                  local |-> p \in scenario.hosts, isLocal |-> p \in scenario.hosts]]
    /\ log = <<>>
    /\ at = [p \in Peers |-> 0] /\ gone = {}
    /\ store = [p \in Peers |-> 0]
    /\ order = [p \in Peers |-> 0]
    /\ readers = [p \in Peers |-> {}]
    /\ writer = [p \in Peers |-> IF p \in scenario.writers THEN "idle" ELSE "done"]
    /\ upd = [u \in DOMAIN scenario.updates |->
                [phase |-> "called", at |-> scenario.updates[u].at, path |-> <<>>,
                 pending |-> {}, ok |-> {}, failed |-> {}, missing |-> {}, final |-> FALSE,
                 seen |-> 0]]
    /\ rd = [r \in DOMAIN scenario.reads |->
                [phase |-> "called", factor |-> 0, asked |-> {}, pending |-> <<>>, left |-> {},
                 answers |-> <<>>, failed |-> {}, acked |-> {}]]
    /\ late = {}
    /\ led = <<>>
    /\ faults = [lost |-> 0, repeated |-> 0, broken |-> 0]

\* A slip: every replica that is not disabled locally counts.
PeerIsKnown(n, q) == n.state[q] # None /\ q \notin n.disabled

PeerIsActive(n, q) == n.state[q] = "Active" /\ q \notin n.disabled

\* A reader gets the lock of the local shard: the lock is fair, a reader queues
\* behind a writer that waits.
Unlocked(p) == writer[p] # "waiting"

UpdateId(u) == <<"update", u>>

\* handle_failed_replicas and notify_peer_failure
Report(p, failed) ==
    /\ node' = [node EXCEPT ![p] = DisableLocally(@, failed)]
    /\ log' = log \o SetToSeq(failed)

-----------------------------------------------------------------------------
(* Updates                                                                 *)

Highest(S) == CHOOSE p \in S : \A q \in S : q <= p

AliveSoFar(p) == {q \in Peers : PeerIsActive(node[p], q)}

\* A slip: every peer leads its own updates.
OwnLeader(p, ordering) == {p}

\* None if there is no leader, as a set.
LeaderPeerForUpdate(p, ordering) ==
    CASE ordering = "weak" -> {p}
      [] ordering = "medium" -> {Highest({q \in Peers : node[p].state[q] # None})}
      [] ordering = "strong" ->
            IF AliveSoFar(p) = {} THEN {} ELSE {Highest(AliveSoFar(p))}

Ordering(u) == scenario.updates[u].ordering

\* The call of u came to a peer that does not lead it.
ForwardUpdate(u) ==
    LET p == upd[u].at
        leader == LeaderPeerForUpdate(p, Ordering(u))
    IN /\ upd[u].phase = "called"
       /\ leader # {p} /\ p \notin gone
       /\ Len(upd[u].path) < MaxHops
       /\ upd' = [upd EXCEPT ![u] =
                    IF leader = {} THEN [@ EXCEPT !.phase = "failed"]
                    ELSE [@ EXCEPT !.at = Highest(leader), !.path = Append(@, p)]]
       /\ UNCHANGED <<scenario, node, log, at, gone, store, order, readers, writer, rd, late, led, faults>>

\* The collection is not found; unlike a service error this is final.
RefuseUpdate(u) ==
    /\ upd[u].phase = "called" /\ upd[u].at \in gone
    /\ upd' = [upd EXCEPT ![u].phase = "failed", ![u].final = TRUE]
    /\ UNCHANGED <<scenario, node, log, at, gone, store, order, readers, writer, rd, late, led, faults>>

\* write_ordering_lock
Lead(u) ==
    LET p == upd[u].at
    IN /\ upd[u].phase = "called"
       /\ LeaderPeerForUpdate(p, Ordering(u)) = {p} /\ p \notin gone
       /\ Ordering(u) # "weak" => order[p] = 0
       /\ order' = IF Ordering(u) = "weak" THEN order ELSE [order EXCEPT ![p] = u]
       /\ led' = Append(led, u)
       /\ upd' = [upd EXCEPT ![u].phase = "leads"]
       /\ UNCHANGED <<scenario, node, log, at, gone, store, readers, writer, rd, late, faults>>

\* The result of update(), and with it the release of the ordering lock.
Return(u, ok, final) ==
    [upd EXCEPT ![u].phase = IF ok THEN "ok" ELSE "failed",
                ![u].final = final,
                ![u].seen = IF ok THEN at[upd[u].at] ELSE 0]

Release(u) == [p \in Peers |-> IF order[p] = u THEN 0 ELSE order[p]]

\* update: the replicas that get the operation
SendUpdate(u) ==
    LET p == upd[u].at
        targets == UpdateTargets(p, node[p])
    IN /\ upd[u].phase = "leads"
       /\ Unlocked(p)
       /\ IF targets = {}
          THEN upd' = Return(u, FALSE, FALSE) /\ order' = Release(u) /\ readers' = readers
          ELSE /\ upd' = [upd EXCEPT ![u].phase = "runs", ![u].pending = targets]
               /\ readers' = [readers EXCEPT ![p] = @ \cup {UpdateId(u)}]
               /\ order' = order
       /\ UNCHANGED <<scenario, node, log, at, gone, store, writer, rd, late, led, faults>>

\* update_local on another peer
UpdateRemote(u, q) ==
    /\ q \in upd[u].pending /\ q # upd[u].at
    /\ Unlocked(q)
    /\ IF q \notin gone /\ AcceptsUpdate(q, node[q])
       THEN /\ store' = [store EXCEPT ![q] = u]
            /\ upd' = [upd EXCEPT ![u].pending = @ \ {q}, ![u].ok = @ \cup {q}]
       ELSE /\ store' = store
            /\ upd' = [upd EXCEPT ![u].pending = @ \ {q}, ![u].failed = @ \cup {q},
                                  ![u].missing = @ \cup ({q} \cap gone)]
    /\ UNCHANGED <<scenario, node, log, at, gone, order, readers, writer, rd, late, led, faults>>

UpdateLocal(u) ==
    LET p == upd[u].at
    IN /\ p \in upd[u].pending
       /\ store' = [store EXCEPT ![p] = u]
       /\ upd' = [upd EXCEPT ![u].pending = @ \ {p}, ![u].ok = @ \cup {p}]
       /\ UNCHANGED <<scenario, node, log, at, gone, order, readers, writer, rd, late, led, faults>>

FailLocal(u) ==
    LET p == upd[u].at
    IN /\ p \in upd[u].pending
       /\ faults.broken < scenario.broken
       /\ faults' = [faults EXCEPT !.broken = @ + 1]
       /\ upd' = [upd EXCEPT ![u].pending = @ \ {p}, ![u].failed = @ \cup {p}]
       /\ UNCHANGED <<scenario, node, log, at, gone, store, order, readers, writer, rd, late, led>>

\* The caller stops waiting (with_channel_timeout); the call may be executed later.
GiveUp(u, q) ==
    /\ q \in upd[u].pending /\ q # upd[u].at
    /\ upd' = [upd EXCEPT ![u].pending = @ \ {q}, ![u].failed = @ \cup {q}]
    /\ late' = late \cup {<<u, q>>}
    /\ UNCHANGED <<scenario, node, log, at, gone, store, order, readers, writer, rd, led>>

LoseUpdate(u, q) ==
    /\ faults.lost < scenario.lost
    /\ faults' = [faults EXCEPT !.lost = @ + 1]
    /\ GiveUp(u, q)

\* A slip: a call waits as long as it takes.
WaitForUpdate(u, q) == FALSE /\ faults' = faults /\ GiveUp(u, q)

\* It always does in the end, when the other peer is blocked.
TimeoutUpdate(u, q) ==
    /\ ~Unlocked(q)
    /\ faults' = faults
    /\ GiveUp(u, q)

UpdateLate(u, q) ==
    /\ <<u, q>> \in late
    /\ Unlocked(q)
    /\ late' = late \ {<<u, q>>}
    /\ store' = IF q \notin gone /\ AcceptsUpdate(q, node[q]) THEN [store EXCEPT ![q] = u] ELSE store
    /\ UNCHANGED <<scenario, node, log, at, gone, order, readers, writer, upd, rd, led, faults>>

DropLate(u, q) ==
    /\ <<u, q>> \in late
    /\ late' = late \ {<<u, q>>}
    /\ UNCHANGED <<scenario, node, log, at, gone, store, order, readers, writer, upd, rd, led, faults>>

\* The answer is lost, and the channel pool repeats the call.
RepeatUpdate(u, q) ==
    /\ q \in upd[u].pending /\ q # upd[u].at
    /\ Unlocked(q) /\ q \notin gone /\ AcceptsUpdate(q, node[q])
    /\ faults.repeated < scenario.repeated
    /\ faults' = [faults EXCEPT !.repeated = @ + 1]
    /\ store' = [store EXCEPT ![q] = u]
    /\ UNCHANGED <<scenario, node, log, at, gone, order, readers, writer, upd, rd, late, led>>

-----------------------------------------------------------------------------
(* The end of an update                                                    *)

Enough(u) ==
    LET total == Cardinality(upd[u].ok \cup upd[u].failed)
    IN upd[u].ok # {} /\ (upd[u].failed # {} =>
          Cardinality(upd[u].ok) >= (IF scenario.factor < total THEN scenario.factor ELSE total))

\* The end of update(): too few successes are the error of one of the failures.
Results(u) ==
    IF Enough(u) THEN {Return(u, TRUE, FALSE)}
    ELSE {Return(u, FALSE, q \in upd[u].missing) : q \in upd[u].failed}

\* handle_failed_replicas: only a service error is waited for.
EndUpdate(u) ==
    LET p == upd[u].at
        failed == IF upd[u].ok = {} THEN {} ELSE FailedReplicas(node[p], upd[u].failed)
        waits == scenario.updates[u].wait /\ ~ failed \subseteq upd[u].missing
    IN /\ upd[u].phase = "runs" /\ upd[u].pending = {}
       /\ readers' = [readers EXCEPT ![p] = @ \ {UpdateId(u)}]
       /\ Report(p, failed)
       /\ IF waits
          THEN upd' = [upd EXCEPT ![u].phase = "waits"] /\ order' = order
          ELSE upd' \in Results(u) /\ order' = Release(u)
       /\ UNCHANGED <<scenario, at, gone, store, writer, rd, late, led, faults>>

\* wait_for(.., DEFAULT_SHARD_DEACTIVATION_TIMEOUT)
EndWait(u, ok) ==
    /\ upd[u].phase = "waits"
    /\ IF ok THEN Deactivated(node[upd[u].at], upd[u].failed) /\ upd' \in Results(u)
       ELSE upd' = Return(u, FALSE, FALSE)
    /\ order' = Release(u)
    /\ UNCHANGED <<scenario, node, log, at, gone, store, readers, writer, rd, late, led, faults>>

\* The answer goes back to the peer that forwarded the update; a service error makes
\* it disable and report the leader.
AnswerForward(u) ==
    LET p == Last(upd[u].path)
    IN /\ upd[u].phase \in {"ok", "failed"} /\ upd[u].path # <<>>
       /\ upd' = [upd EXCEPT ![u].path = Front(@), ![u].at = p]
       /\ IF upd[u].phase = "ok" \/ upd[u].final THEN UNCHANGED <<node, log>>
          ELSE Report(p, {upd[u].at})
       /\ UNCHANGED <<scenario, at, gone, store, order, readers, writer, rd, late, led, faults>>

\* The peer that forwarded the update stops waiting.  What the leader was doing is
\* dropped where it was: its locks, and the calls it was waiting for.
GiveUpForward(u) ==
    /\ upd[u].phase \in {"called", "leads", "runs", "waits"} /\ upd[u].path # <<>>
    /\ readers' = [readers EXCEPT ![upd[u].at] = @ \ {UpdateId(u)}]
    /\ late' = late \cup {<<u, q>> : q \in upd[u].pending \ {upd[u].at}}
    /\ upd' = [upd EXCEPT ![u].phase = "failed", ![u].pending = {}]
    /\ order' = Release(u)
    /\ UNCHANGED <<scenario, node, log, at, gone, store, writer, rd, led>>

LoseForward(u) ==
    /\ faults.lost < scenario.lost
    /\ faults' = [faults EXCEPT !.lost = @ + 1]
    /\ GiveUpForward(u)

TimeoutForward(u) ==
    /\ ~Unlocked(upd[u].at) \/ Len(upd[u].path) = MaxHops
    /\ faults' = faults
    /\ GiveUpForward(u)

-----------------------------------------------------------------------------
(* The consensus thread                                                    *)

\* delete_collection waits for the calls that have the collection.
InUse(p) ==
    \/ readers[p] # {}
    \/ \E u \in Updates : \/ upd[u].at = p /\ upd[u].phase \in {"leads", "runs", "waits"}
                          \/ p \in Range(upd[u].path)

\* set_shard_replica_state, which refuses to deactivate the last active replica
Deactivate(p, q) ==
    /\ Unlocked(p)
    /\ node' = IF p \in gone \/ ActivePeers(node[p]) = {q} THEN node
               ELSE [node EXCEPT ![p] = SetReplicaState(p, @, q, "Dead")]
    /\ gone' = gone

DeleteCollection(p) ==
    /\ ~ InUse(p)
    /\ gone' = gone \cup {p}
    /\ node' = node

ApplyEntry(p) ==
    /\ at[p] < Len(log)
    /\ LET q == log[at[p] + 1]
       IN IF q = Deletion THEN DeleteCollection(p) ELSE Deactivate(p, q)
    /\ at' = [at EXCEPT ![p] = @ + 1]
    /\ UNCHANGED <<scenario, log, store, order, readers, writer, upd, rd, late, led, faults>>

\* A client deletes the collection.
OrderDeletion ==
    /\ scenario.deleted /\ Deletion \notin Range(log)
    /\ log' = Append(log, Deletion)
    /\ UNCHANGED <<scenario, node, at, gone, store, order, readers, writer, upd, rd, late, led, faults>>

\* It takes the lock of the local shard to put a proxy around it, or to remove it
AskLocal(p) ==
    /\ writer[p] = "idle"
    /\ writer' = [writer EXCEPT ![p] = "waiting"]
    /\ UNCHANGED <<scenario, node, log, at, gone, store, order, readers, upd, rd, late, led, faults>>

GetLocal(p) ==
    /\ writer[p] = "waiting" /\ readers[p] = {}
    /\ writer' = [writer EXCEPT ![p] = "done"]
    /\ UNCHANGED <<scenario, node, log, at, gone, store, order, readers, upd, rd, late, led, faults>>
-----------------------------------------------------------------------------
(* Reads                                                                   *)

Consistency(r) == scenario.reads[r].consistency
Reader(r) == scenario.reads[r].at
ReadId(r, q) == <<"read", r, q>>

AtMost(n, S) == {T \in SUBSET S : Cardinality(T) = (IF n < Cardinality(S) THEN n ELSE Cardinality(S))}

Larger(a, b) == IF a > b THEN a ELSE b

\* How many answers a read wants (execute_and_resolve_read_operation).
ReadFactor(r) ==
    LET total == Cardinality(scenario.hosts)
        c == Consistency(r)
        n == scenario.reads[r].n
    IN CASE c \in {"all", "majority"} -> total
         [] c = "quorum" -> total \div 2 + 1
         [] c = "plain" -> 1
         [] OTHER -> IF n < total THEN n ELSE total

\* The updates that clients knew to be done, and that this read has to see: all of
\* them if it asks every replica, else those whose failed replicas this peer knows.
KnownDone(r) ==
    {u \in Updates : /\ upd[u].phase = "ok" /\ upd[u].path = <<>> /\ scenario.updates[u].wait
                     /\ Consistency(r) = "all" \/ at[Reader(r)] >= upd[u].seen}

\* The first peers that a read asks: the local one before the others.
FirstAsked(r, active) ==
    LET p == Reader(r)
        n == ReadFactor(r)
    IN CASE p \in active -> {{p} \cup S : S \in AtMost(n - 1, active \ {p})}
         [] Consistency(r) = "plain" -> AtMost(scenario.fanout, active)
         [] OTHER -> AtMost(Larger(n, scenario.fanout), active)

StartRead(r) ==
    LET p == Reader(r)
        active == {q \in Peers : PeerIsActive(node[p], q)}
        n == ReadFactor(r)
    IN /\ rd[r].phase = "called" /\ p \notin gone
       /\ Unlocked(p)
       /\ IF Cardinality(active) < n
          THEN rd' = [rd EXCEPT ![r].phase = "refused"] /\ readers' = readers
          ELSE /\ \E S \in FirstAsked(r, active) :
                    rd' = [rd EXCEPT ![r] =
                             [phase |-> "asks", factor |-> n, asked |-> active,
                              pending |-> [q \in S |-> q], left |-> active \ S,
                              answers |-> <<>>, failed |-> {}, acked |-> KnownDone(r)]]
               /\ readers' = [readers EXCEPT ![p] = @ \cup {ReadId(r, 0)}]
       /\ UNCHANGED <<scenario, node, log, at, gone, store, order, writer, upd, late, led, faults>>

\* The replicas that are asked after an answer or an error.
AskMore(r, c) ==
    LET busy == Len(c.answers) + Cardinality(DOMAIN c.pending)
        n == IF Consistency(r) # "plain" THEN (IF busy < c.factor THEN c.factor - busy ELSE 0)
             ELSE IF DOMAIN c.pending # {} THEN 0
             ELSE IF c.failed = {Reader(r)} THEN scenario.fanout
             ELSE Cardinality(c.left)
    IN AtMost(n, c.left)

\* c is the read with the new answer or failure.
Continue(r, c) ==
    IF Len(c.answers) >= c.factor
    THEN rd' = [rd EXCEPT ![r] = [c EXCEPT !.phase = "ok", !.pending = <<>>]]
    ELSE \E S \in AskMore(r, c) :
            LET d == [c EXCEPT !.pending = [q \in DOMAIN c.pending \cup S |->
                                              IF q \in S THEN q ELSE c.pending[q]],
                               !.left = @ \ S]
            IN rd' = [rd EXCEPT ![r] =
                        IF Len(d.answers) + Cardinality(DOMAIN d.pending) < d.factor
                        THEN [d EXCEPT !.phase = "failed", !.pending = <<>>] ELSE d]

\* The locks of the calls that have ended.
ReleaseReads(r) ==
    readers' = [p \in Peers |->
        readers[p] \ {i \in readers[p] : i[1] = "read" /\ i[2] = r /\
                         (rd'[r].phase # "asks" \/ (i[3] # 0 /\ i[3] \notin DOMAIN rd'[r].pending))}]

Without(c, q) == [c EXCEPT !.pending = [x \in DOMAIN c.pending \ {q} |-> c.pending[x]]]

\* The peer that has the call reads its own replica.
AnswerRead(r, q) ==
    LET c == rd[r]
        x == c.pending[q]
    IN /\ q \in DOMAIN c.pending /\ x \notin gone
       /\ x # Reader(r) \/ q # x => Unlocked(x)
       /\ (x = Reader(r) /\ q = x) \/ PeerIsActive(node[x], x)
       /\ Continue(r, [Without(c, q) EXCEPT !.answers = Append(@, store[x])])
       /\ ReleaseReads(r)
       /\ UNCHANGED <<scenario, node, log, at, gone, store, order, writer, upd, late, led, faults>>

\* A peer that takes its own replica for inactive asks another one.
ForwardRead(r, q) ==
    LET x == rd[r].pending[q]
    IN /\ q \in DOMAIN rd[r].pending /\ x \notin gone
       /\ ~(x = Reader(r) /\ q = x) /\ ~PeerIsActive(node[x], x)
       /\ Unlocked(x)
       /\ \E y \in Peers \ {x} :
             /\ PeerIsActive(node[x], y)
             /\ rd' = [rd EXCEPT ![r].pending[q] = y]
       /\ readers' = [readers EXCEPT ![x] = @ \cup {ReadId(r, q)}]
       /\ UNCHANGED <<scenario, node, log, at, gone, store, order, writer, upd, late, led, faults>>

\* The collection is not found: an error that is neither a service error nor a
\* cancellation ends the read at once.
RejectRead(r) ==
    /\ \/ rd[r].phase = "called" /\ Reader(r) \in gone
       \/ \E q \in DOMAIN rd[r].pending : rd[r].pending[q] \in gone
    /\ rd' = [rd EXCEPT ![r].phase = "rejected", ![r].pending = <<>>]
    /\ ReleaseReads(r)
    /\ UNCHANGED <<scenario, node, log, at, gone, store, order, writer, upd, late, led, faults>>

FailRead(r, q) ==
    /\ q \in DOMAIN rd[r].pending
    /\ Continue(r, [Without(rd[r], q) EXCEPT !.failed = @ \cup {q}])
    /\ ReleaseReads(r)
    /\ UNCHANGED <<scenario, node, log, at, gone, store, order, writer, upd, late, led>>

LoseRead(r, q) ==
    /\ faults.lost < scenario.lost
    /\ faults' = [faults EXCEPT !.lost = @ + 1]
    /\ FailRead(r, q)

\* The other peer is blocked, has no active replica, or has forwarded the call.
TimeoutRead(r, q) ==
    /\ q \in DOMAIN rd[r].pending
    /\ LET x == rd[r].pending[q]
       IN \/ x # q
          \/ q # Reader(r) /\ ~Unlocked(q)
          \/ q # Reader(r) /\ q \notin gone /\ \A y \in Peers : ~PeerIsActive(node[q], y)
    /\ faults' = faults
    /\ FailRead(r, q)

\* Resolver::resolve, for one point: what enough of the answers agree on.
Resolve(answers, majority) ==
    LET n == IF majority THEN Len(answers) \div 2 + 1 ELSE Len(answers)
    IN {v \in Range(answers) : Cardinality({i \in DOMAIN answers : answers[i] = v}) >= n}

ReadResult(r) ==
    IF rd[r].factor = 1 THEN {rd[r].answers[1]}
    ELSE Resolve(rd[r].answers, Consistency(r) = "majority")

-----------------------------------------------------------------------------
Progress ==
    \/ \E u \in Updates : \/ ForwardUpdate(u) \/ Lead(u) \/ SendUpdate(u) \/ UpdateLocal(u)
                           \/ EndUpdate(u) \/ AnswerForward(u) \/ TimeoutForward(u) \/ RefuseUpdate(u)
                           \/ \E ok \in BOOLEAN : EndWait(u, ok)
                           \/ \E q \in Peers : UpdateRemote(u, q) \/ TimeoutUpdate(u, q)
    \/ \E p \in Peers : ApplyEntry(p) \/ GetLocal(p)
    \/ \E r \in Reads : StartRead(r) \/ RejectRead(r) \/ \E q \in Peers : AnswerRead(r, q) \/ ForwardRead(r, q)

Next ==
    \/ Progress
    \/ \E u \in Updates : FailLocal(u) \/ LoseForward(u)
    \/ \E u \in Updates, q \in Peers : \/ LoseUpdate(u, q) \/ RepeatUpdate(u, q)
                                       \/ UpdateLate(u, q) \/ DropLate(u, q)
    \/ OrderDeletion
    \/ \E p \in Peers : AskLocal(p)
    \/ \E r \in Reads, q \in Peers : LoseRead(r, q) \/ TimeoutRead(r, q)

\* Tasks run, timeouts fire, and what peers report is applied.
Fairness ==
    /\ WF_vars(Progress)
    /\ \A r \in 1..2, q \in Peers : WF_vars(r \in Reads /\ TimeoutRead(r, q))

Spec == Init /\ [][Next]_vars /\ Fairness

-----------------------------------------------------------------------------
Quiet ==
    /\ \A u \in Updates : upd[u].phase \in {"ok", "failed"} /\ upd[u].path = <<>>
    /\ late = {} /\ gone = {}
    /\ \A p \in Peers : at[p] = Len(log)

\* The updates go through a leader, and none fails that had reached it.
Led ==
    \A u \in Updates : Ordering(u) # "weak" /\ (upd[u].phase = "failed" => u \notin Range(led))

\* Updates that go through a leader leave the active replicas alike: when all that
\* reached it have succeeded and every peer has learnt which replicas failed,
\* the replicas that are still active have the same point, whatever was lost,
\* repeated or executed late (update_with_consistency, update).
ReplicasAgree ==
    Quiet /\ Led =>
        \A p, q \in ActivePeers(node[CHOOSE x \in Peers : TRUE]) : store[p] = store[q]

Position(v) == IF v = 0 THEN 0 ELSE CHOOSE i \in DOMAIN led : led[i] = v

\* A read never returns less than an update that a client knew to be done when the
\* read began, if it asks every replica, or if its peer knows the replicas that
\* failed in that update (execute_and_resolve_read_operation, execute_read_operation).
ReadIsFresh ==
    Led => \A r \in Reads : rd[r].phase = "ok" =>
        \A v \in ReadResult(r), u \in rd[r].acked : Position(v) >= Position(u)

\* A read whose collection is found gives up only when too few of the active replicas
\* are left: whatever the order of answers and errors, it asks another replica for one
\* that failed.  (One replica without the collection ends it.)
ReadFailsWhenDue ==
    \A r \in Reads : rd[r].phase = "failed" =>
        Cardinality(rd[r].asked \ rd[r].failed) < rd[r].factor

\* Every call ends, although an update keeps the lock of its shard while it waits
\* for peers that may wait for it, and peers with different views of the replicas
\* may forward a call to each other.
CallsEnd ==
    <>(/\ \A u \in Updates : upd[u].phase \in {"ok", "failed"} /\ upd[u].path = <<>>
       /\ \A r \in Reads : rd[r].phase \in {"ok", "failed", "refused", "rejected"})
=============================================================================
