------------------------------- MODULE Segment -------------------------------
(***************************************************************************)
(* One segment of a shard (lib/segment/src/segment.rs) and the part of it  *)
(* that RocksDB keeps on disk.  Everything here is an operator on a        *)
(* segment record; the modules that hold segments own the state.           *)
(*                                                                         *)
(* Data is abstracted to where it came from: a vector is the number of the *)
(* operation that wrote it, a payload the set of the numbers of the        *)
(* operations merged into it.  Internal offsets are left out: every column *)
(* is keyed by the external point id.                                      *)
(***************************************************************************)
EXTENDS Integers

CONSTANT Points   \* external point ids

(***************************************************************************)
(* A version is an operation number; None is Rust's Option::None.          *)
(***************************************************************************)
None == -1
Version == Nat \cup {None}
UnwrapOr0(v) == IF v = None THEN 0 ELSE v
MaxVersion(v, w) == IF v >= w THEN v ELSE w

(***************************************************************************)
(* mapping, versions, vectors and payloads are the four columns that are   *)
(* flushed one after the other; version is the segment's own version.  The *)
(* same record describes the segment in memory and its image on disk.      *)
(***************************************************************************)
SegmentState == [mapping  : SUBSET Points,
                 versions : [Points -> Version],
                 vectors  : [Points -> Version],
                 payloads : [Points -> SUBSET Nat],
                 version  : Version]

\* A segment that holds the points P, all of them written by operation 0.
SegmentOf(P, v) ==
    [mapping  |-> P,
     versions |-> [p \in Points |-> IF p \in P THEN 0 ELSE None],
     vectors  |-> [p \in Points |-> IF p \in P THEN 0 ELSE None],
     payloads |-> [p \in Points |-> IF p \in P THEN {0} ELSE {}],
     version  |-> v]

\* handle_version: an operation on a stored point is compared with the
\* point's version, one on an absent point with the version of the segment.
Applies(seg, n, p) ==
    IF p \in seg.mapping THEN seg.versions[p] <= n
                         ELSE UnwrapOr0(seg.version) <= n

\* upsert_vector: replace the vector of p, or link p and insert it.
UpsertVector(seg, n, p, vec) ==
    IF Applies(seg, n, p)
    THEN [seg EXCEPT !.mapping     = @ \cup {p},
                     !.vectors[p]  = vec,
                     !.versions[p] = n,
                     !.version     = MaxVersion(n, @)]
    ELSE seg

\* set_full_payload, set_payload, clear_payload: nothing happens to an
\* absent point (the segment answers with a PointIdError or skips it).
WritePayload(seg, n, p, payload) ==
    IF p \in seg.mapping /\ Applies(seg, n, p)
    THEN [seg EXCEPT !.payloads[p] = payload,
                     !.versions[p] = n,
                     !.version     = MaxVersion(n, @)]
    ELSE seg

\* SimpleIdTracker::drop and the payload index's drop.
Forget(seg, p) ==
    [seg EXCEPT !.mapping     = @ \ {p},
                !.versions[p] = None,
                !.vectors[p]  = None,
                !.payloads[p] = {}]

\* A slip: the point is not dropped.
DeletePointNoDrop(seg, n, p) ==
    IF p \in seg.mapping /\ Applies(seg, n, p)
    THEN [seg EXCEPT !.version = MaxVersion(n, @)]
    ELSE seg

\* delete_point
DeletePoint(seg, n, p) ==
    IF p \in seg.mapping /\ Applies(seg, n, p)
    THEN [Forget(seg, p) EXCEPT !.version = MaxVersion(n, @)]
    ELSE seg

\* load_segment: versions, vectors and payloads of ids that the mapping
\* column does not know are ignored.
LoadSegment(image) ==
    [mapping  |-> image.mapping,
     versions |-> [p \in Points |-> IF p \in image.mapping THEN image.versions[p] ELSE None],
     vectors  |-> [p \in Points |-> IF p \in image.mapping THEN image.vectors[p] ELSE None],
     payloads |-> [p \in Points |-> IF p \in image.mapping THEN image.payloads[p] ELSE {}],
     version  |-> image.version]

-----------------------------------------------------------------------------
(* What the updates of a shard do to a point of a segment                  *)

\* The closures that the functions of segments_updater.rs apply to a point.
NewPayload(kind, payload, n) ==
    CASE kind = "set_payload"       -> payload \cup {n}
      [] kind = "overwrite_payload" -> {n}
      [] kind = "clear_payload"     -> {}

\* upsert_with_payload of a point that has a payload; without one the code leaves the
\* payload as it is.
UpsertWithPayload(seg, n, p) == WritePayload(UpsertVector(seg, n, p, n), n, p, {n})

\* A slip: the move forgets the payload.
MovedVectorOnly(target, seg, n, p) == UpsertVector(target, n, p, seg.vectors[p])

\* The copy-on-write move: the point as it is stored in seg goes to target.
MovedInto(target, seg, n, p) ==
    WritePayload(UpsertVector(target, n, p, seg.vectors[p]), n, p, seg.payloads[p])

\* The image on disk after delete_point: RocksDB logs deletions itself, so
\* they outlive the process at once, while puts wait for a flush.
DiskDelete(image, seg, n, p) ==
    IF p \in seg.mapping /\ Applies(seg, n, p) THEN Forget(image, p) ELSE image
=============================================================================
