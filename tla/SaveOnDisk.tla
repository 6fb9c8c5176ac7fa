------------------------------ MODULE SaveOnDisk ------------------------------
(***************************************************************************)
(* The persisted cell SaveOnDisk<T> (lib/collection/src/save_on_disk.rs):  *)
(* the replica states of a shard and the set of shard transfers live in    *)
(* one.  Writers copy the value, save the copy to the file and only then   *)
(* replace the value in memory; `wait_for` sleeps on a condition variable  *)
(* until the value satisfies a predicate or the time is up.                *)
(*                                                                         *)
(* The value is a counter and every write adds one, so that a lost write   *)
(* shows; the predicate a waiter waits for is "the counter has reached     *)
(* Target".  The RwLock is parking_lot's: one upgradable reader at a time, *)
(* and a reader that wants to upgrade keeps new readers out.               *)
(***************************************************************************)
EXTENDS Naturals, FiniteSets

CONSTANTS Writers,     \* threads that call write
          Waiters,     \* threads that call wait_for
          Target,      \* the value waited for
          MaxWrites    \* bound on the writes begun

VARIABLES mem,         \* the value behind the RwLock
          disk,        \* the value in the file
          writer,      \* Writers -> stage of the write
          copy,        \* Writers -> its data_copy
          waiter,      \* Waiters -> stage of the wait
          expired,     \* Waiters -> the time of this call is over
          acked,       \* history: writes that returned Ok
          seen,        \* history: the largest value a reader got
          begun        \* writes begun

vars == <<mem, disk, writer, copy, waiter, expired, acked, seen, begun>>
write == <<mem, disk, writer, copy, acked, begun>>

\* The writer that holds the upgradable lock and, for "upgrading", keeps readers out
Upgradable == {w \in Writers : writer[w] # "idle"}
ReadersBlocked == \E w \in Writers : writer[w] = "upgrading"
\* The waiters that hold the read lock, and those that hold notification_lock
ReadHeld == {w \in Waiters : waiter[w] \in {"checked", "locked"}}
MutexHeld == {w \in Waiters : waiter[w] \in {"locked", "unlocked", "relocked"}}

Init ==
  /\ mem = 0 /\ disk = 0 /\ acked = 0 /\ seen = 0 /\ begun = 0
  /\ writer = [w \in Writers |-> "idle"]
  /\ copy = [w \in Writers |-> 0]
  /\ waiter = [w \in Waiters |-> "idle"]
  /\ expired = [w \in Waiters |-> FALSE]

-----------------------------------------------------------------------------
(* write                                                                   *)

\* A plain read lock instead of the upgradable one: two writers copy the same value
BeginSharedWrite(w) ==
  /\ writer[w] = "idle" /\ begun < MaxWrites
  /\ ~ReadersBlocked
  /\ writer' = [writer EXCEPT ![w] = "copied"]
  /\ copy' = [copy EXCEPT ![w] = mem + 1]
  /\ begun' = begun + 1
  /\ UNCHANGED <<mem, disk, waiter, expired, acked, seen>>

\* upgradable_read, clone, f
BeginWrite(w) ==
  /\ writer[w] = "idle" /\ begun < MaxWrites
  /\ Upgradable = {}
  /\ writer' = [writer EXCEPT ![w] = "copied"]
  /\ copy' = [copy EXCEPT ![w] = mem + 1]
  /\ begun' = begun + 1
  /\ UNCHANGED <<mem, disk, waiter, expired, acked, seen>>

\* save_data_to replaces the file atomically; when it fails the value stays as it was
SaveData(w) ==
  /\ writer[w] = "copied"
  /\ \/ /\ disk' = copy[w]
        /\ writer' = [writer EXCEPT ![w] = "upgrading"]
     \/ /\ writer' = [writer EXCEPT ![w] = "idle"]
        /\ UNCHANGED disk
  /\ UNCHANGED <<mem, copy, waiter, expired, acked, seen, begun>>

\* upgrade waits for the readers to leave; notify_all wakes those that are parked
\* by then, and it is called without notification_lock
Replace(w) ==
  /\ writer[w] = "upgrading" /\ ReadHeld = {}
  /\ mem' = copy[w]
  /\ waiter' = [v \in Waiters |-> IF waiter[v] = "parked" THEN "woken" ELSE waiter[v]]
  /\ writer' = [writer EXCEPT ![w] = "idle"]
  /\ acked' = acked + 1
  /\ UNCHANGED <<disk, copy, expired, seen, begun>>

\* Deref of the cell: any other thread reads the value
Read ==
  /\ ~ReadersBlocked
  /\ seen' = IF mem > seen THEN mem ELSE seen
  /\ UNCHANGED <<write, waiter, expired>>

-----------------------------------------------------------------------------
(* wait_for                                                                *)

Step(w, from, to) ==
  /\ waiter[w] = from
  /\ waiter' = [waiter EXCEPT ![w] = to]
  /\ UNCHANGED <<write, expired, seen>>

BeginWait(w) ==
  /\ waiter[w] \in {"idle", "true", "false"}
  /\ waiter' = [waiter EXCEPT ![w] = "loop"]
  /\ expired' = [expired EXCEPT ![w] = FALSE]
  /\ UNCHANGED <<write, seen>>

\* `while start.elapsed() < timeout`: past it the answer is false without another look
GiveUp(w) ==
  expired[w] /\ Step(w, "loop", "false")

\* Takes the read lock and looks; it keeps the lock when the value is not there yet
CheckValue(w) ==
  /\ ~expired[w] /\ ~ReadersBlocked
  /\ Step(w, "loop", IF mem >= Target THEN "true" ELSE "checked")

LockNotification(w) ==
  MutexHeld = {} /\ Step(w, "checked", "locked")

\* RwLockReadGuard::unlocked releases the read lock before the closure runs
UnlockData(w) ==
  Step(w, "locked", "unlocked")

\* Condvar::wait_for queues the thread and releases notification_lock
Park(w) ==
  Step(w, "unlocked", "parked")

\* The wait lasts the whole timeout once more, so the call is over when it ends
WaitTimeout(w) ==
  expired[w] /\ Step(w, "parked", "woken")

RelockNotification(w) ==
  MutexHeld = {} /\ Step(w, "woken", "relocked")

\* The guard moved into the closure is dropped before the data is locked again
DropNotification(w) ==
  Step(w, "relocked", "relocking")

\* `unlocked` takes the read lock back and the end of the iteration drops it
RelockData(w) ==
  ~ReadersBlocked /\ Step(w, "relocking", "loop")

\* Time passes
Expire(w) ==
  /\ waiter[w] \notin {"idle", "true", "false"} /\ ~expired[w]
  /\ expired' = [expired EXCEPT ![w] = TRUE]
  /\ UNCHANGED <<write, waiter, seen>>

-----------------------------------------------------------------------------
\* The process dies and load_or_init reads the file
Crash ==
  /\ mem' = disk
  /\ writer' = [w \in Writers |-> "idle"]
  /\ waiter' = [w \in Waiters |-> "idle"]
  /\ expired' = [w \in Waiters |-> FALSE]
  /\ UNCHANGED <<disk, copy, acked, seen, begun>>

WaitStep(w) ==
  \/ GiveUp(w) \/ CheckValue(w) \/ UnlockData(w) \/ Park(w) \/ WaitTimeout(w)
  \/ DropNotification(w) \/ RelockData(w) \/ Expire(w)

Next ==
  \/ \E w \in Writers : BeginWrite(w) \/ SaveData(w) \/ Replace(w)
  \/ \E w \in Waiters :
       BeginWait(w) \/ LockNotification(w) \/ RelockNotification(w) \/ WaitStep(w)
  \/ Read
  \/ Crash

Spec == Init /\ [][Next]_vars

\* Threads run.  parking_lot hands a contended mutex to its waiters in the end.
Fairness ==
  /\ \A w \in Writers : WF_vars(SaveData(w)) /\ WF_vars(Replace(w))
  /\ \A w \in Waiters : /\ WF_vars(WaitStep(w))
                        /\ SF_vars(LockNotification(w))
                        /\ SF_vars(RelockNotification(w))

FairSpec == Spec /\ Fairness

-----------------------------------------------------------------------------
WaitStages == {"idle", "loop", "checked", "locked", "unlocked", "parked", "woken",
               "relocked", "relocking", "true", "false"}

\* The cell's variables have their types.
TypeOK ==
  /\ {mem, disk, acked, seen, begun} \subseteq 0..MaxWrites
  /\ writer \in [Writers -> {"idle", "copied", "upgrading"}]
  /\ copy \in [Writers -> 0..MaxWrites]
  /\ waiter \in [Waiters -> WaitStages]
  /\ expired \in [Waiters -> BOOLEAN]

\* `write` saves before it publishes: a value any thread has read survives a crash,
\* however the writers, the readers and the crash interleave.
ReadIsDurable ==
  seen <= mem /\ mem <= disk

\* Concurrent writes do not overwrite each other: a write that returned Ok is part of
\* the value in memory and in the file, before and after restarts.
NoLostWrite ==
  acked <= mem /\ acked <= disk

\* What a reader has seen, and what a writer was told is written, is in the file and
\* stays there (SaveOnDisk::write, read, load_or_init).
CellIsDurable == ReadIsDurable /\ NoLostWrite

\* Waiters, writers and their three locks never block each other for good: every
\* wait_for returns, unless the process dies.
WaitEnds ==
  \A w \in Waiters : waiter[w] = "loop" ~> waiter[w] \in {"idle", "true", "false"}

\* "Wait for a condition on data to be true": a thread is never asleep on the
\* condition variable while the data satisfies its condition.
NoSleepOnTrue ==
  \A w \in Waiters : waiter[w] = "parked" => mem < Target
-----------------------------------------------------------------------------
(* Why the cell is durable, for any writers, waiters and bounds (the proof *)
(* is in ConsensusPeer_proofs)                                             *)

\* CellIsDurable is not inductive.  What makes it so is the upgradable lock: there
\* is one writer at a time, so its copy is one write ahead of the value in memory,
\* and the file is ahead of memory by that write only once it was saved.
OneWriter ==
  /\ {mem, disk, acked, seen} \subseteq Nat
  /\ writer \in [Writers -> {"idle", "copied", "upgrading"}]
  /\ copy \in [Writers -> Nat]
  /\ \A v, w \in Writers : writer[v] # "idle" /\ writer[w] # "idle" => v = w
  /\ \A w \in Writers : /\ writer[w] # "idle" => copy[w] = mem + 1
                        /\ writer[w] = "upgrading" => disk = copy[w]
  /\ (\A w \in Writers : writer[w] # "upgrading") => disk = mem

CellInv == OneWriter /\ acked <= mem /\ seen <= mem
=============================================================================
