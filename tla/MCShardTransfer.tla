-------------------------- MODULE MCShardTransfer ---------------------------
(* Instances of ShardTransfer for TLC. *)
EXTENDS ShardTransfer

CONSTANTS a, b, c

ReplicateOrMove == {[from |-> a, to |-> c, sync |-> s] : s \in BOOLEAN}

Calm == [f \in Hardships |-> FALSE] @@ [untimelyCalls |-> FALSE]
Rough == [f \in Hardships |-> TRUE] @@ [untimelyCalls |-> TRUE]

\* One of two replicas fails, and is recovered while updates go on.
Recovering ==
    Calm @@
    [nodes |-> {a, b}, points |-> 2, requests |-> {},
     tries |-> 1, log |-> 5, lost |-> 1, calls |-> 1, restarts |-> 0, snapshots |-> "none"]

\* The same with restarts and repeated attempts.
Restarting ==
    Calm @@
    [nodes |-> {a, b}, points |-> 1, requests |-> {},
     tries |-> 2, log |-> 5, lost |-> 2, calls |-> 1, restarts |-> 1, snapshots |-> "none"]

\* Users replicate and move the shard.
Copying ==
    Calm @@
    [nodes |-> {a, b, c}, points |-> 1, requests |-> ReplicateOrMove,
     tries |-> 1, log |-> 4, lost |-> 0, calls |-> 1, restarts |-> 0, snapshots |-> "none"]

\* Two replicas blame each other.
Blaming ==
    Rough @@
    [nodes |-> {a, b}, points |-> 2, requests |-> {},
     tries |-> 1, log |-> 3, lost |-> 2, calls |-> 0, restarts |-> 0, snapshots |-> "none"]

\* Transfers end in all ways.
Ending ==
    Rough @@
    [nodes |-> {a, b, c}, points |-> 1, requests |-> ReplicateOrMove,
     tries |-> 1, log |-> 3, lost |-> 0, calls |-> 1, restarts |-> 1, snapshots |-> "none"]

\* The users make one kind of request; in Behind a peer may get a snapshot.
Each(sc) == {[sc EXCEPT !.requests = {r}] : r \in ReplicateOrMove}
Behind == [Copying EXCEPT !.snapshots = "idle"]

All == {Recovering, Restarting, Copying, Blaming} \cup Each(Behind) \cup Each(Ending)
=============================================================================
