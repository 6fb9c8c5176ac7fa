----------------------------- MODULE PointStore -----------------------------
(***************************************************************************)
(* What the storage of a shard promises: operations take effect one at a   *)
(* time, in the order in which they were written, each on the whole of the *)
(* point it names.                                                         *)
(***************************************************************************)
EXTENDS Integers, Sequences

CONSTANTS Points, Ops, FirstOp, Start

VARIABLES log,      \* the operations written so far
          applied,  \* how many of them have taken effect
          store     \* the points

pvars == <<log, applied, store>>

Absent == [vec |-> -1, payload |-> {}]

\* Operation number n of the given kind, as upsert_points, delete_points,
\* set_payload, overwrite_payload and clear_payload define it for one point.
Effect(kind, n, point) ==
    IF kind = "upsert" THEN [vec |-> n, payload |-> {n}]
    ELSE IF kind = "delete" \/ point = Absent THEN Absent
    ELSE [point EXCEPT !.payload = CASE kind = "set_payload"       -> @ \cup {n}
                                     [] kind = "overwrite_payload" -> {n}
                                     [] kind = "clear_payload"     -> {}]

After(ops, k) ==
    LET state[i \in 0 .. k] ==
          IF i = 0 THEN Start
          ELSE [state[i - 1] EXCEPT ![ops[i].point] = Effect(ops[i].kind, FirstOp + i - 1, @)]
    IN  state[k]

Init == log = <<>> /\ applied = 0 /\ store = Start

Write(op) ==
    /\ log' = Append(log, op)
    /\ UNCHANGED <<applied, store>>

Apply ==
    /\ applied < Len(log)
    /\ LET op == log[applied + 1] IN
       store' = [store EXCEPT ![op.point] = Effect(op.kind, FirstOp + applied, @)]
    /\ applied' = applied + 1
    /\ UNCHANGED log

Next == Apply \/ \E op \in Ops : Write(op)

Spec == Init /\ [][Next]_pvars /\ WF_pvars(Apply)
=============================================================================
