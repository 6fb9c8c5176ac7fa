---------------------------- MODULE UpdateQueue -----------------------------
(***************************************************************************)
(* The queue in front of a local shard and its replacement while the shard *)
(* is in use: LocalShard::update (clients), on_optimizer_config_update     *)
(* (updaters), the plunger of create_snapshot (snapshotters),               *)
(* update_worker_fn, optimization_worker_fn with the tasks it starts, and  *)
(* flush_worker.                                                           *)
(*                                                                         *)
(* Every change of the configuration makes a new generation of the queue   *)
(* and of the workers.  An operation is its number in the WAL.             *)
(***************************************************************************)
EXTENDS Integers, Sequences, FiniteSets

CONSTANTS Clients,     \* tasks that call update
          Updaters,    \* tasks that call on_optimizer_config_update
          Snapshotters, \* tasks that call create_snapshot without the WAL
          QueueSize,   \* update_queue_size
          MaxHandles,  \* max_optimization_threads
          MaxOps,      \* bound on the operations
          MaxGen,      \* bound on the generations
          MaxTasks     \* bound on the optimizations started

ASSUME QueueAssumption ==
    /\ QueueSize \in Nat \ {0} /\ MaxHandles \in Nat /\ MaxTasks \in Nat
    /\ MaxOps \in Nat /\ MaxGen \in Nat \ {0}
    /\ IsFiniteSet(Clients)

Gens == 1 .. MaxGen
OpNums == 1 .. MaxOps
Stop == "stop"
Nop == "nop"
Operation == "op"
Plunger == "plunger"
NoGen == 0
NoOp == 0

VARIABLES
    sender,   \* generation of the queue that update_sender points to
    queue,    \* the signals in the queue of each generation
    closed,   \* generations whose receiver is gone
    written,  \* number of operations in the WAL
    handled,  \* the operations the update workers have handled, in order
    via,      \* the generation through which each operation was sent
    behind,   \* the operations sent to a queue that had been told to stop
    client,   \* where each client is in update
    snapshot, \* where each snapshotter is in create_snapshot
    updater,  \* where each updater is in on_optimizer_config_update
    upd,      \* the update worker of each generation
    opt,      \* the optimization worker of each generation
    signals,  \* the channel between the two
    flush,    \* the flush worker of each generation
    tasks     \* optimizations: running, finished or panicked but still listed, started

queues == <<sender, queue, closed>>
log == <<written, handled, via, behind>>
workers == <<upd, opt, signals, flush, tasks>>
vars == <<queues, log, client, snapshot, updater, workers>>

\* UpdateSignal: its kind, and the operation or the snapshotter whose plunger it
\* is.  The update worker is at the signal that it handles.
Signal(kind, n) == [pc |-> kind, num |-> n]
Absent == Signal("none", NoOp)
Listening == Signal("recv", NoOp)
At(place, g, n) == [pc |-> place, gen |-> g, num |-> n]
Home == At("idle", NoGen, NoOp)

Init ==
    /\ sender = 1
    /\ queue = [g \in Gens |-> <<>>]
    /\ closed = {}
    /\ written = 0
    /\ handled = <<>>
    /\ via = [n \in OpNums |-> NoGen]
    /\ behind = {}
    /\ client = [c \in Clients |-> Home]
    /\ snapshot = [s \in Snapshotters |-> Home]
    /\ updater = [u \in Updaters |-> Home]
    /\ upd = [g \in Gens |-> IF g = 1 THEN Listening ELSE Absent]
    /\ opt = [g \in Gens |-> IF g = 1 THEN "recv" ELSE "none"]
    /\ signals = [g \in Gens |-> <<>>]
    /\ flush = [g \in Gens |-> IF g = 1 THEN "sleep" ELSE "none"]
    /\ tasks = [running |-> 0, finished |-> 0, panicked |-> 0, started |-> 0]

\* The slots of a bounded channel: a reserved one is taken.
Reserved(g) == {c \in Clients : client[c].pc = "reserved" /\ client[c].gen = g}
HasRoom(g) == Len(queue[g]) + Cardinality(Reserved(g)) < QueueSize

\* A slip: a plunger overtakes the operations.
SentPlungerFirst(g, signal) ==
    IF signal.pc = Plunger THEN [queue EXCEPT ![g] = <<signal>> \o @]
                           ELSE [queue EXCEPT ![g] = Append(@, signal)]

\* A signal sent to a receiver that is gone is lost.
Sent(g, signal) == IF g \in closed THEN queue ELSE [queue EXCEPT ![g] = Append(@, signal)]

\* A receiver is dropped with what is in its queue.
Dropped(g) == closed' = closed \cup {g} /\ queue' = [queue EXCEPT ![g] = <<>>]

Handled(n) == \E i \in DOMAIN handled : handled[i] = n

-----------------------------------------------------------------------------
(* LocalShard::update                                                      *)

\* update_sender.load()
LoadSender(c) ==
    /\ client[c].pc = "idle"
    /\ client' = [client EXCEPT ![c] = At("loaded", sender, NoOp)]
    /\ UNCHANGED <<queues, log, snapshot, updater, workers>>

\* reserve().await: a slot of the queue, or an error if the receiver is gone.
Reserve(c) ==
    LET g == client[c].gen IN
    /\ client[c].pc = "loaded"
    /\ \/ /\ g \notin closed
          /\ HasRoom(g)
          /\ written + Cardinality({d \in Clients : client[d].pc = "reserved"}) < MaxOps
          /\ client' = [client EXCEPT ![c].pc = "reserved"]
       \/ /\ g \in closed
          /\ client' = [client EXCEPT ![c] = Home]
    /\ UNCHANGED <<queues, log, snapshot, updater, workers>>

\* Stop has been sent to the queue, or the receiver is gone.
ToldToStop(g) == flush[g] \in {"stopping", "done"} \/ g \in closed

\* With the lock of the WAL: write the operation and use the slot.  The client
\* waits for the result, or does not.
WriteAndSend(c, wait) ==
    LET n == written + 1
        g == client[c].gen
    IN
    /\ client[c].pc = "reserved"
    /\ written' = n
    /\ via' = [via EXCEPT ![n] = g]
    /\ behind' = IF ToldToStop(g) THEN behind \cup {n} ELSE behind
    /\ queue' = Sent(g, Signal(Operation, n))
    /\ client' = [client EXCEPT ![c] = IF wait THEN At("waiting", g, n) ELSE Home]
    /\ UNCHANGED <<sender, closed, handled, snapshot, updater, workers>>

\* The callback is dropped together with the queue it was in.
ResultLost(c) ==
    /\ client[c].pc = "waiting"
    /\ client[c].gen \in closed
    /\ ~ Handled(client[c].num)
    /\ client' = [client EXCEPT ![c] = Home]
    /\ UNCHANGED <<queues, log, snapshot, updater, workers>>

-----------------------------------------------------------------------------
(* LocalShard::create_snapshot without the WAL                             *)

SnapshotStart(s) ==
    /\ snapshot[s].pc = "idle"
    /\ snapshot' = [snapshot EXCEPT ![s] = At("loaded", sender, NoOp)]
    /\ UNCHANGED <<queues, log, client, updater, workers>>

\* send(plunger).await.  num is what had been written by this point.
SendPlunger(s) ==
    LET g == snapshot[s].gen IN
    /\ snapshot[s].pc = "loaded"
    /\ \/ /\ g \notin closed
          /\ HasRoom(g)
          /\ queue' = Sent(g, Signal(Plunger, s))
          /\ snapshot' = [snapshot EXCEPT ![s] = At("waiting", g, written)]
       \/ /\ g \in closed
          /\ snapshot' = [snapshot EXCEPT ![s] = Home]
          /\ UNCHANGED queue
    /\ UNCHANGED <<sender, closed, log, client, updater, workers>>

\* rx.await fails.
PlungerLost(s) ==
    /\ snapshot[s].pc = "waiting"
    /\ snapshot[s].gen \in closed
    /\ snapshot' = [snapshot EXCEPT ![s] = Home]
    /\ UNCHANGED <<queues, log, client, updater, workers>>

\* The segments have been copied.
SnapshotEnd(s) ==
    /\ snapshot[s].pc = "copying"
    /\ snapshot' = [snapshot EXCEPT ![s] = Home]
    /\ UNCHANGED <<queues, log, client, updater, workers>>

-----------------------------------------------------------------------------
(* The workers                                                             *)

\* A client gets its result.
Answered(n) == [c \in Clients |-> IF client[c].pc = "waiting" /\ client[c].num = n
                                  THEN Home ELSE client[c]]

\* The callback of a plunger lets its snapshotter go on.
Pressed(s) == [snapshot EXCEPT ![s].pc = "copying"]

\* A slip: an operation that fails goes back to the end of the queue.
UpdateReceiveRetry(g) ==
    LET signal == Head(queue[g]) IN
    /\ upd[g].pc = "recv"
    /\ queue[g] # <<>>
    /\ handled' = IF signal.pc = Operation THEN Append(handled, signal.num) ELSE handled
    /\ \/ /\ queue' = [queue EXCEPT ![g] = Tail(@)]
          /\ upd' = [upd EXCEPT ![g] = IF signal.pc = Plunger THEN Listening ELSE signal]
       \/ /\ signal.pc = Operation
          /\ queue' = [queue EXCEPT ![g] = Append(Tail(@), signal)]
          /\ UNCHANGED upd
    /\ UNCHANGED <<sender, closed, written, via, behind, client, snapshot,
                   updater, opt, signals, flush, tasks>>

\* A slip: the worker lets operations collect until the queue is full or another
\* signal comes.
UpdateReceiveFull(g) ==
    LET signal == Head(queue[g]) IN
    /\ upd[g].pc = "recv"
    /\ Len(queue[g]) = QueueSize \/ \E i \in DOMAIN queue[g] : queue[g][i].pc # Operation
    /\ queue' = [queue EXCEPT ![g] = Tail(@)]
    /\ \/ /\ signal.pc = Operation
          /\ handled' = Append(handled, signal.num)
          /\ \/ upd' = [upd EXCEPT ![g] = signal] /\ UNCHANGED client
             \/ client' = Answered(signal.num) /\ UNCHANGED upd
          /\ UNCHANGED snapshot
       \/ /\ signal.pc = Plunger
          /\ snapshot' = Pressed(signal.num)
          /\ UNCHANGED <<upd, handled, client>>
       \/ /\ signal.pc \in {Stop, Nop}
          /\ upd' = [upd EXCEPT ![g] = signal]
          /\ UNCHANGED <<handled, client, snapshot>>
    /\ UNCHANGED <<sender, closed, written, via, behind, updater, opt, signals, flush, tasks>>

\* update_worker_fn takes a signal.  An operation is handled at once; if it fails
\* the client is told, else the optimization worker is told first.
UpdateReceive(g) ==
    LET signal == Head(queue[g]) IN
    /\ upd[g].pc = "recv"
    /\ queue[g] # <<>>
    /\ queue' = [queue EXCEPT ![g] = Tail(@)]
    /\ \/ /\ signal.pc = Operation
          /\ handled' = Append(handled, signal.num)
          /\ \/ upd' = [upd EXCEPT ![g] = signal] /\ UNCHANGED client
             \/ client' = Answered(signal.num) /\ UNCHANGED upd
          /\ UNCHANGED snapshot
       \/ /\ signal.pc = Plunger
          /\ snapshot' = Pressed(signal.num)
          /\ UNCHANGED <<upd, handled, client>>
       \/ /\ signal.pc \in {Stop, Nop}
          /\ upd' = [upd EXCEPT ![g] = signal]
          /\ UNCHANGED <<handled, client, snapshot>>
    /\ UNCHANGED <<sender, closed, written, via, behind, updater, opt, signals, flush, tasks>>

\* A slip: the worker waits for an optimization worker that is gone.
AnnouncedToTheLiving(g, signal) ==
    /\ opt[g] = "recv"
    /\ Len(signals[g]) < QueueSize
    /\ signals' = [signals EXCEPT ![g] = Append(@, signal)]

\* optimize_sender.send(...).await succeeds, or fails because the optimization
\* worker is gone.
Announced(g, signal) ==
    \/ /\ opt[g] = "recv"
       /\ Len(signals[g]) < QueueSize
       /\ signals' = [signals EXCEPT ![g] = Append(@, signal)]
    \/ /\ opt[g] = "done"
       /\ UNCHANGED signals

Announce(g) ==
    /\ upd[g].pc \in {Operation, Nop}
    /\ Announced(g, upd[g].pc)
    /\ upd' = [upd EXCEPT ![g] = Listening]
    /\ client' = IF upd[g].pc = Operation THEN Answered(upd[g].num) ELSE client
    /\ UNCHANGED <<queues, log, snapshot, updater, opt, flush, tasks>>

\* Stop is announced before the loop is left and again after it; then the
\* receiver is dropped.
AnnounceStop(g) ==
    /\ upd[g].pc = Stop
    /\ Announced(g, Stop)
    /\ upd' = [upd EXCEPT ![g].pc = "left"]
    /\ UNCHANGED <<queues, log, client, snapshot, updater, opt, flush, tasks>>

UpdateExit(g) ==
    /\ upd[g].pc = "left"
    /\ Announced(g, Stop)
    /\ upd' = [upd EXCEPT ![g].pc = "done"]
    /\ Dropped(g)
    /\ UNCHANGED <<sender, log, client, snapshot, updater, opt, flush, tasks>>

\* optimization_worker_fn: stop, or prune the list of handles when it is full,
\* or go on when try_recover fails, or start what the optimizers ask for.
OptReceive(g) ==
    LET signal == Head(signals[g])
        listed == tasks.running + tasks.finished + tasks.panicked
        full == signal = Operation /\ listed >= MaxHandles
    IN
    /\ opt[g] = "recv"
    /\ signals[g] # <<>>
    /\ \/ /\ signal = Stop
          /\ opt' = [opt EXCEPT ![g] = "done"]
          /\ signals' = [signals EXCEPT ![g] = <<>>]
          /\ UNCHANGED tasks
       \/ /\ signal # Stop
          /\ signals' = [signals EXCEPT ![g] = Tail(@)]
          /\ \/ ~ full /\ UNCHANGED tasks
             \/ \E k \in IF full THEN {0} ELSE 0 .. MaxTasks - tasks.started :
                   tasks' = [tasks EXCEPT !.running = @ + k, !.started = @ + k, !.finished = 0]
          /\ UNCHANGED opt
    /\ UNCHANGED <<queues, log, client, snapshot, updater, upd, flush>>

\* An optimization ends, by itself or because it is told to stop, and its
\* callback tries to announce a Nop; or it panics and never counts as finished.
TaskEnds(g) ==
    /\ tasks.running > 0
    /\ opt[g] # "none"
    /\ opt[g] = "done" => g = MaxGen \/ opt[g + 1] = "none"
    /\ \/ /\ tasks' = [tasks EXCEPT !.running = @ - 1, !.finished = @ + 1]
          /\ signals' = IF opt[g] = "recv" /\ Len(signals[g]) < QueueSize
                        THEN [signals EXCEPT ![g] = Append(@, Nop)]
                        ELSE signals
       \/ /\ tasks' = [tasks EXCEPT !.running = @ - 1, !.panicked = @ + 1]
          /\ UNCHANGED signals
    /\ UNCHANGED <<queues, log, client, snapshot, updater, upd, opt, flush>>

\* flush_worker notices the stop signal between two flushes.
FlushExit(g) ==
    /\ flush[g] = "stopping"
    /\ flush' = [flush EXCEPT ![g] = "done"]
    /\ UNCHANGED <<queues, log, client, snapshot, updater, upd, opt, signals, tasks>>

-----------------------------------------------------------------------------
(* LocalShard::on_optimizer_config_update                                  *)

\* With the lock of the update handler: a new queue takes the place of the old.
SwapSender(u) ==
    /\ \A v \in Updaters : updater[v].pc = "idle"
    /\ sender < MaxGen
    /\ sender' = sender + 1
    /\ updater' = [updater EXCEPT ![u] = At("send_stop", sender, NoOp)]
    /\ UNCHANGED <<queue, closed, log, client, snapshot, workers>>

\* Stop goes to the old queue as soon as there is room, and then the flush
\* worker is told to stop.  If the old queue is gone, so is the new one.
SendStop(u) ==
    LET g == updater[u].gen IN
    /\ updater[u].pc = "send_stop"
    /\ \/ /\ g \notin closed
          /\ HasRoom(g)
          /\ queue' = Sent(g, Signal(Stop, NoOp))
          /\ flush' = [flush EXCEPT ![g] = "stopping"]
          /\ updater' = [updater EXCEPT ![u].pc = "wait"]
          /\ UNCHANGED closed
       \/ /\ g \in closed
          /\ Dropped(sender)
          /\ updater' = [updater EXCEPT ![u] = Home]
          /\ UNCHANGED flush
    /\ UNCHANGED <<sender, log, client, snapshot, upd, opt, signals, tasks>>

\* A slip: the flush worker is not waited for.
WorkersDoneButFlush(g) == upd[g].pc = "done" /\ opt[g] = "done"

WorkersDone(g) == upd[g].pc = "done" /\ opt[g] = "done" /\ flush[g] = "done"

\* wait_workers_stops succeeds when the workers and all optimizations are over;
\* run_workers starts new ones on the new queue.
Restart(u) ==
    /\ updater[u].pc = "wait"
    /\ WorkersDone(updater[u].gen)
    /\ tasks.running = 0 /\ tasks.panicked = 0
    /\ tasks' = [tasks EXCEPT !.finished = 0]
    /\ upd' = [upd EXCEPT ![sender] = Listening]
    /\ opt' = [opt EXCEPT ![sender] = "recv"]
    /\ flush' = [flush EXCEPT ![sender] = "sleep"]
    /\ updater' = [updater EXCEPT ![u].pc = "send_nop"]
    /\ UNCHANGED <<queues, log, client, snapshot, signals>>

\* ... and fails when it comes to an optimization that has panicked.
RestartFails(u) ==
    /\ updater[u].pc = "wait"
    /\ WorkersDone(updater[u].gen)
    /\ tasks.panicked > 0
    /\ tasks' = [tasks EXCEPT !.finished = 0, !.panicked = 0]
    /\ Dropped(sender)
    /\ updater' = [updater EXCEPT ![u] = Home]
    /\ UNCHANGED <<sender, log, client, snapshot, upd, opt, signals, flush>>

SendNop(u) ==
    /\ updater[u].pc = "send_nop"
    /\ HasRoom(sender)
    /\ queue' = Sent(sender, Signal(Nop, NoOp))
    /\ updater' = [updater EXCEPT ![u] = Home]
    /\ UNCHANGED <<sender, closed, log, client, snapshot, workers>>

-----------------------------------------------------------------------------
ClientStep(c) ==
    \/ Reserve(c)
    \/ \E wait \in BOOLEAN : WriteAndSend(c, wait)
    \/ ResultLost(c)

SnapshotStep(s) == SendPlunger(s) \/ PlungerLost(s) \/ SnapshotEnd(s)

UpdateWorker(g) ==
    \/ UpdateReceive(g)
    \/ Announce(g)
    \/ AnnounceStop(g)
    \/ UpdateExit(g)

ConfigStep(u) == SendStop(u) \/ Restart(u) \/ RestartFails(u) \/ SendNop(u)

Next ==
    \/ \E c \in Clients : LoadSender(c) \/ ClientStep(c)
    \/ \E s \in Snapshotters : SnapshotStart(s) \/ SnapshotStep(s)
    \/ \E g \in Gens : UpdateWorker(g) \/ OptReceive(g) \/ TaskEnds(g) \/ FlushExit(g)
    \/ \E u \in Updaters : SwapSender(u) \/ ConfigStep(u)

Spec == Init /\ [][Next]_vars

\* Every task of the runtime that can go on does; nobody has to call update,
\* create_snapshot or on_optimizer_config_update.
Fairness ==
    /\ \A c \in Clients : WF_vars(ClientStep(c))
    /\ \A s \in Snapshotters : WF_vars(SnapshotStep(s))
    /\ \A g \in Gens : /\ WF_vars(UpdateWorker(g)) /\ WF_vars(OptReceive(g))
                       /\ WF_vars(TaskEnds(g)) /\ WF_vars(FlushExit(g))
    /\ \A u \in Updaters : WF_vars(ConfigStep(u))

FairSpec == Spec /\ Fairness

-----------------------------------------------------------------------------
(* Properties                                                              *)

\* The types of the variables.
TypeOK ==
    /\ sender \in Gens /\ closed \subseteq Gens /\ written \in 0 .. MaxOps
    /\ queue \in [Gens -> Seq([pc : {Operation, Stop, Nop}, num : 0 .. MaxOps]
                              \cup [pc : {Plunger}, num : Snapshotters])]
    /\ handled \in Seq(OpNums)
    /\ via \in [OpNums -> 0 .. MaxGen]
    /\ behind \subseteq OpNums
    /\ client \in [Clients -> [pc : {"idle", "loaded", "reserved", "waiting"},
                               gen : 0 .. MaxGen, num : 0 .. MaxOps]]
    /\ snapshot \in [Snapshotters -> [pc : {"idle", "loaded", "waiting", "copying"},
                                      gen : 0 .. MaxGen, num : 0 .. MaxOps]]
    /\ updater \in [Updaters -> [pc : {"idle", "send_stop", "wait", "send_nop"},
                                 gen : 0 .. MaxGen, num : {NoOp}]]
    /\ upd \in [Gens -> [pc : {"none", "recv", Operation, Nop, Stop, "left", "done"},
                         num : 0 .. MaxOps]]
    /\ opt \in [Gens -> {"none", "recv", "done"}]
    /\ signals \in [Gens -> Seq({Operation, Nop, Stop})]
    /\ flush \in [Gens -> {"none", "sleep", "stopping", "done"}]
    /\ tasks \in [running : 0 .. MaxTasks, finished : 0 .. MaxTasks,
                  panicked : 0 .. MaxTasks, started : 0 .. MaxTasks]

Alive(g) == \/ upd[g].pc \notin {"none", "done"}
            \/ opt[g] = "recv"
            \/ flush[g] \in {"sleep", "stopping"}

\* wait_workers_stops lets on_optimizer_config_update start new workers only
\* when those of the old queue are gone, whatever waits in the queues: two
\* update workers never touch the segments, and two flush workers never
\* acknowledge, at the same time.
WorkersTakeTurns == \A g, h \in Gens : Alive(g) /\ Alive(h) => g = h

\* Operations leave one queue in the order in which the WAL numbers them,
\* because update writes and sends under the lock of the WAL.
OrderWithinQueue ==
    \A i, j \in DOMAIN handled :
        i < j /\ via[handled[i]] = via[handled[j]] => handled[i] < handled[j]

\* A snapshot without the WAL is copied only when every operation that was sent
\* to the plunger's queue, or to an older one and not behind its Stop, before the
\* plunger has been handled.
PlungerCoversQueue ==
    \A s \in Snapshotters : \A n \in OpNums :
        /\ snapshot[s].pc = "copying"
        /\ n <= snapshot[s].num /\ via[n] <= snapshot[s].gen /\ n \notin behind
        => Handled(n)

\* The workers of one generation at a time run, the operations of a queue are handled
\* in the order of the log, and a plunger is answered after everything sent before it
\* (UpdateHandler::update_worker_fn, LocalShard::create_snapshot).
QueueInOrder == WorkersTakeTurns /\ OrderWithinQueue /\ PlungerCoversQueue

\* on_optimizer_config_update "makes sure that the Stop signal is the last one
\* in this channel".
StopIsLast ==
    \A g \in Gens : \A i \in DOMAIN queue[g] : queue[g][i].pc = Stop => i = Len(queue[g])

\* create_snapshot uses the plunger "to make sure that all submitted by this
\* point updates have made it to the segments".
PlungerCoversAll ==
    \A s \in Snapshotters : \A n \in OpNums :
        snapshot[s].pc = "copying" /\ n <= snapshot[s].num => Handled(n)

\* A client of update that waits for a slot or for its result gets it or learns
\* that the queue is gone, also while the queues are replaced.
ClientsAnswered ==
    \A c \in Clients : /\ client[c].pc = "waiting" ~> client[c].pc = "idle"
                       /\ client[c].pc = "loaded" ~> client[c].pc # "loaded" \/ written = MaxOps

\* on_optimizer_config_update returns: Stop finds room in a full queue, the
\* workers do not wait for each other in a circle, and Nop is accepted.
ConfigUpdateEnds == \A u \in Updaters : updater[u].pc # "idle" ~> updater[u].pc = "idle"

\* An operation written to the WAL and not sent behind a Stop is handled, however
\* the configuration changes, unless a change of it failed and left the shard
\* without workers.
WrittenIsHandled ==
    \A n \in OpNums : written >= n /\ n \notin behind ~> Handled(n) \/ sender \in closed
=============================================================================
