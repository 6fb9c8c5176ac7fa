---------------------------- MODULE MCOptimizer -----------------------------
EXTENDS Optimizer, TLC

CONSTANTS a1, n1, p1, p2, t1, t2

\* One point in an appendable segment and one in a segment that an optimizer built.
InPlain == [s \in Initial |-> IF s = a1 THEN {p1} ELSE IF s = n1 THEN {p2} ELSE {}]

\* Two optimizations of any segments, those they make included, while points are
\* inserted, changed and deleted, and some builds fail
Reading == [kinds |-> {"upsert", "delete", "set_payload"}, ops |-> 2, tasks |-> 2,
            optimizable |-> Segs, cancels |-> FALSE, fails |-> TRUE, flushes |-> 0, crashes |-> 0]
\* Upserts while two optimizations are cancelled at any point
Cancelling == [kinds |-> {"upsert"}, ops |-> 3, tasks |-> 2,
               optimizable |-> Segs, cancels |-> TRUE, fails |-> TRUE, flushes |-> 0, crashes |-> 0]
\* An optimization of a segment whose changes are saved, with flushes and a crash
Crashing == [kinds |-> {"upsert", "delete"}, ops |-> 2, tasks |-> 1,
             optimizable |-> {n1}, cancels |-> FALSE, fails |-> TRUE, flushes |-> 2, crashes |-> 1]
All == {Reading, Cancelling, Crashing}

TaskSymmetry == Permutations(Tasks)
=============================================================================
