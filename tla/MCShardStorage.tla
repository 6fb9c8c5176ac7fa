--------------------------- MODULE MCShardStorage ---------------------------
(* Instances of ShardStorage for TLC. *)
EXTENDS ShardStorage

CONSTANTS a1, n1, p1, p2

VARIABLE load   \* what happens to the shard

\* All the points start in the segment n1, built by an optimizer.
AllInN1 == [s \in Segments |-> IF s = n1 THEN Points ELSE {}]

Written == log'[Len(log')]

\* A shard that crashes gets insertions and deletions and takes no snapshot.  The
\* points are alike at the start, so that the first operation may be on p1.
Crashing ==
    /\ log' # log => Written.kind \in {"upsert", "delete"}
    /\ log' # log /\ Len(log') = 1 => Written.point = p1
    /\ ~ \E s \in Segments : SnapshotFlush(s)

\* Two operations of any kind on one point, and snapshots, without a crash.
Busy ==
    /\ log' # log => Written.point = p1 /\ Len(log') <= 2
    /\ crashes' = 0

LoadInit == Init /\ load \in {"crashing", "busy"}
LoadNext ==
    /\ Next
    /\ load = "crashing" => Crashing
    /\ load = "busy" => Busy
    /\ UNCHANGED load
LoadSpec == LoadInit /\ [][LoadNext]_<<load, vars>> /\ Fairness

\* A shard that crashes and gets the operations of OpKinds
AnySpec == Init /\ load = "any" /\ [][Next /\ UNCHANGED load]_<<load, vars>>
=============================================================================
