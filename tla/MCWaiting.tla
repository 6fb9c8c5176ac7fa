------------------------------ MODULE MCWaiting -----------------------------
(* The instances for TLC of the components in which callers and workers wait  *)
(* for each other: UpdateQueue (the queue of updates and its workers),         *)
(* OptimizerPolicy (which optimizations the workers start) and Proposals (the *)
(* operations sent to consensus).  They share no state: `side` says which one *)
(* runs, and the others stay in an initial state.                             *)
EXTENDS UpdateQueue

CONSTANTS c1, c2, u1, s1,
          create, initialize, MaxApplied, MaxRoleChanges, None,  \* of Proposals
          Unset, Capacity                                        \* of OptimizerPolicy

VARIABLES side,
          scenario, config, segs, calls, handles, optimizations, worker, writer, writes, missed,
          established, woken, pc, op, receiver, answer, signal, channel, raft, applying,
          applied, since, roles

\* Two callers create a collection, which every peer then reports as initialized
CreateAndInitialize == {create, initialize}
ExpectInitialized == [o \in CreateAndInitialize |-> IF o = create THEN {initialize} ELSE {}]

Proposing == INSTANCE Proposals
    WITH Callers <- {c1, c2}, Ops <- CreateAndInitialize,
         Expect <- ExpectInitialized, Others <- {initialize}

proposalVars == <<established, woken, pc, op, receiver, answer, signal, channel, raft, applying,
                  applied, since, roles>>

-----------------------------------------------------------------------------
(* OptimizerPolicy: up to four segments of some points, some of them deleted  *)

Config(segments, maxSize, memmap, maxHandles) ==
    [segments |-> segments, maxSize |-> maxSize, memmap |-> memmap, indexing |-> 3,
     minVectors |-> 2, maxHandles |-> maxHandles]
Same == [segments |-> Unset, maxSize |-> Unset, memmap |-> Unset, indexing |-> Unset,
         minVectors |-> Unset, maxHandles |-> Unset]
Shard(segments, settings, diff, updates) ==
    [segs |-> segments, config |-> settings, diff |-> diff, writes |-> updates]
Seg(points, deleted, indexed, mmap) ==
    [points |-> points, deleted |-> deleted, indexed |-> indexed, mmap |-> mmap, proxied |-> FALSE]
PlainSeg(n, d) == Seg(n, d, FALSE, FALSE)
Indexed(n, d) == Seg(n, d, TRUE, FALSE)
OnDisk(n, d) == Seg(n, d, FALSE, TRUE)

Small == {<<PlainSeg(2, 1), Indexed(3, 2)>>, <<PlainSeg(2, 0), OnDisk(4, 3)>>}
Larger == {<<PlainSeg(2, 0), Indexed(4, 0), PlainSeg(3, 0)>>,
           <<PlainSeg(1, 0), PlainSeg(0, 0), PlainSeg(1, 0), Indexed(3, 0)>>}

\* One optimization at a time beside two writes, which can fill the channel
BusyShard == Shard(<<PlainSeg(2, 0), Indexed(3, 2)>>, Config(2, 9, Unset, 1), Same, 2)

WrittenShard == Shard(<<PlainSeg(2, 1), Indexed(3, 2)>>, Config(2, 9, Unset, 9), Same, 1)

\* With a write, with other thresholds and one or many optimizations at a time, and
\* with a change of the configuration
Shards ==
    {WrittenShard, BusyShard}
    \cup {Shard(segments, Config(1, 6, 4, 1), Same, 0) : segments \in Small}
    \cup {Shard(segments, Config(1, 6, 4, 9), Same, 0) : segments \in Larger}
    \cup {Shard(<<PlainSeg(2, 0), PlainSeg(3, 0), PlainSeg(1, 0)>>, Config(2, 9, Unset, 2),
                [Same EXCEPT !.maxSize = 5, !.memmap = 2], 0)}

Policy == INSTANCE OptimizerPolicy
    WITH queue <- calls, tasks <- optimizations, SegmentIds <- 1 .. 7, Tasks <- 1 .. 3,
         Scenarios <- Shards

policyVars == <<scenario, config, segs, calls, handles, optimizations, worker, writer, writes, missed>>

\* The fairness of OptimizerPolicy, when it runs
PolicyFairness == WF_policyVars(side = "policy" /\ Policy!Working)

-----------------------------------------------------------------------------
WaitingInit ==
    /\ side \in {"queue", "proposals", "policy"}
    /\ Init /\ Proposing!Init /\ Policy!Init
    /\ side # "policy" => scenario = WrittenShard

WaitingNext ==
    \/ side = "queue" /\ Next /\ UNCHANGED <<side, proposalVars, policyVars>>
    \/ side = "proposals" /\ Proposing!Next /\ UNCHANGED <<side, vars, policyVars>>
    \/ side = "policy" /\ Policy!Next /\ UNCHANGED <<side, vars, proposalVars>>

\* Nothing is due in UpdateQueue and Proposals before somebody calls them.
WaitingSpec ==
    /\ WaitingInit /\ [][WaitingNext]_<<side, vars, proposalVars, policyVars>>
    /\ Fairness /\ Proposing!Fairness /\ PolicyFairness

-----------------------------------------------------------------------------
\* Proposals: a caller that hears of success has had its operation applied since it
\* sent it, with everything it expected to follow, and a caller that waits has a sender
\* that will fire or be dropped (propose_consensus_op_with_await).
ProposalsAreApplied ==
    side = "proposals" =>
        Proposing!SuccessIsApplied /\ Proposing!ActiveIsApplied /\ Proposing!WaitsForSomething

\* UpdateQueue: a change of the configuration ends and what was written is handled;
\* Proposals: every call ends, whatever raft loses and however often the leader changes
\* (on_optimizer_config_update, update_worker_fn, propose_consensus_op_with_await).
EverybodyIsAnswered == ConfigUpdateEnds /\ WrittenIsHandled /\ Proposing!CallsEnd

\* OptimizerPolicy: there is always a segment or proxy that takes new points, and when
\* nothing is left to do no optimizer finds anything to do, although signals are skipped
\* or find the channel full, unless the last operation only pruned the handles of
\* optimizations that had all reported (process_optimization, optimization_worker_fn).
SettledIsOptimal == side = "policy" => Policy!SomeAppendable /\ Policy!RestIsOptimal

\* OptimizerPolicy: the optimizers do not undo the work of each other for ever
\* (check_condition of the three optimizers).
OptimizationEnds == <>[](side = "policy" => Policy!Unfinished = {})
=============================================================================
