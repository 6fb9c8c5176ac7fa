------------------------- MODULE UpdateQueue_lemmas --------------------------
(***************************************************************************)
(* The inductive invariant of the queue in front of a local shard, what    *)
(* the queues' operators do, and the parts of the invariant about types    *)
(* and about which generation of workers runs.                             *)
(***************************************************************************)
EXTENDS UpdateQueue, FiniteSetTheorems, TLAPS

USE DEF Stop, Nop, Operation, Plunger, NoGen, NoOp

-----------------------------------------------------------------------------
(* The invariant                                                           *)

Signals == [pc : {Operation, Stop, Nop}, num : 0 .. MaxOps] \cup [pc : {Plunger}, num : Snapshotters]

\* The types of the variables that the proof is about.
QueueType ==
    /\ sender \in Gens /\ closed \subseteq Gens /\ written \in 0 .. MaxOps
    /\ queue \in [Gens -> Seq(Signals)]
    /\ handled \in Seq(OpNums)
    /\ via \in [OpNums -> 0 .. MaxGen]
    /\ client \in [Clients -> [pc : {"idle", "loaded", "reserved", "waiting"},
                               gen : 0 .. MaxGen, num : 0 .. MaxOps]]
    /\ snapshot \in [Snapshotters -> [pc : {"idle", "loaded", "waiting", "copying"},
                                      gen : 0 .. MaxGen, num : 0 .. MaxOps]]
    /\ updater \in [Updaters -> [pc : {"idle", "send_stop", "wait", "send_nop"},
                                 gen : 0 .. MaxGen, num : {NoOp}]]
    /\ upd \in [Gens -> [pc : {"none", "recv", Operation, Nop, Stop, "left", "done"},
                         num : 0 .. MaxOps]]
    /\ opt \in [Gens -> {"none", "recv", "done"}]
    /\ flush \in [Gens -> {"none", "sleep", "stopping", "done"}]

\* The clients that hold a slot.
Holding == {d \in Clients : client[d].pc = "reserved"}

\* Whoever has loaded the sender knows a generation, and there is a number for
\* every operation that has a slot.
CallerInv ==
    /\ written + Cardinality(Holding) <= MaxOps
    /\ \A c \in Clients : client[c].pc # "idle" => client[c].gen \in Gens
    /\ \A s \in Snapshotters : snapshot[s].pc # "idle" => snapshot[s].gen \in Gens

\* The generation whose workers may be running: the old one until they are gone.
Replacing == \E u \in Updaters : updater[u].pc \in {"send_stop", "wait"}
Acting == IF Replacing THEN sender - 1 ELSE sender

ToStop == {"stopping", "done"}
Leaving == {Stop, "left", "done"}

\* One updater at a time replaces the queue; the workers of a queue start
\* together, and stop only when they are told to.
TurnInv ==
    /\ \A u, v \in Updaters : updater[u].pc # "idle" /\ updater[v].pc # "idle" => u = v
    /\ \A u \in Updaters :
          /\ updater[u].pc \in {"send_stop", "wait"} => updater[u].gen = sender - 1 /\ sender > 1
          /\ updater[u].pc # "idle" => sender \notin closed
    /\ \A g \in closed : g <= sender /\ upd[g].pc \in {"none", "done"}
    /\ \A g \in Gens :
          /\ (upd[g].pc = "none") <=> (opt[g] = "none")
          /\ (upd[g].pc = "none") <=> (flush[g] = "none")
          /\ Alive(g) => g = Acting
          /\ g > Acting => upd[g].pc = "none"
          /\ g <= Acting /\ upd[g].pc = "none" => g \in closed
          /\ upd[g].pc \in Leaving => flush[g] \in ToStop
          /\ flush[g] \in ToStop => /\ g < sender
                                    /\ \A u \in Updaters : updater[u].pc = "send_stop" => g # updater[u].gen
    /\ \A g, h \in Gens : upd[g].pc = "none" /\ g < h => upd[h].pc = "none"

\* Stop is in a queue only when the flush worker is told to stop as well.
StopInv ==
    \A g \in Gens :
        /\ g \in closed => queue[g] = <<>>
        /\ \A i \in 1 .. Len(queue[g]) : queue[g][i].pc = Stop => flush[g] \in ToStop

\* The operations of a queue are in the order of the WAL, behind those that were
\* taken from it.
OpInv ==
    /\ \A n \in 1 .. written : via[n] \in Gens
    /\ \A k \in 1 .. Len(handled) : handled[k] \in 1 .. written
    /\ \A g \in Gens : \A i \in 1 .. Len(queue[g]) : queue[g][i].pc = Operation =>
          /\ queue[g][i].num \in 1 .. written /\ via[queue[g][i].num] = g
          /\ \A k \in 1 .. Len(handled) : via[handled[k]] = g => handled[k] < queue[g][i].num
          /\ \A j \in 1 .. Len(queue[g]) :
                i < j /\ queue[g][j].pc = Operation => queue[g][i].num < queue[g][j].num
    /\ OrderWithinQueue

\* Where an operation is that has not been handled: in front of any Stop, or lost
\* with a queue that has no workers and after which none will have any.
Waits(n) ==
    /\ upd[via[n]].pc \notin Leaving
    /\ \E k \in 1 .. Len(queue[via[n]]) :
          /\ queue[via[n]][k] = Signal(Operation, n)
          /\ \A j \in 1 .. (k - 1) : queue[via[n]][j].pc # Stop
Lost(n) == via[n] \in closed /\ \A g \in Gens : g >= via[n] => upd[g].pc = "none"
OwedInv == \A n \in 1 .. written : n \notin behind /\ ~ Handled(n) => Waits(n) \/ Lost(n)

\* A plunger in a queue has a snapshotter that waits for it, and the operations
\* behind it were written later.
PlungersWait ==
    \A g \in Gens : \A i \in 1 .. Len(queue[g]) : queue[g][i].pc = Plunger =>
        /\ queue[g][i].num \in Snapshotters
        /\ snapshot[queue[g][i].num].pc = "waiting" /\ snapshot[queue[g][i].num].gen = g
        /\ \A j \in 1 .. Len(queue[g]) :
              /\ i # j /\ queue[g][j].pc = Plunger => queue[g][j].num # queue[g][i].num
              /\ i < j /\ queue[g][j].pc = Operation =>
                    snapshot[queue[g][i].num].num < queue[g][j].num
PlungerInv ==
    /\ PlungersWait
    /\ \A s \in Snapshotters : snapshot[s].pc \in {"waiting", "copying"} => snapshot[s].num <= written
    /\ PlungerCoversQueue

QueueInv == QueueType /\ CallerInv /\ TurnInv /\ StopInv /\ OpInv /\ OwedInv /\ PlungerInv
-----------------------------------------------------------------------------
(* The queues                                                              *)

\* A signal goes to the end of its queue.
LEMMA SentQueue ==
    ASSUME QueueType, NEW g \in Gens, NEW x \in Signals, queue' = Sent(g, x)
    PROVE  /\ queue' \in [Gens -> Seq(Signals)]
           /\ \A h \in Gens : h # g => queue'[h] = queue[h]
           /\ g \in closed => queue' = queue
           /\ g \notin closed =>
                 /\ Len(queue'[g]) = Len(queue[g]) + 1 /\ queue'[g][Len(queue[g]) + 1] = x
                 /\ \A i \in 1 .. Len(queue[g]) : queue'[g][i] = queue[g][i]
<1>1. queue \in [Gens -> Seq(Signals)] /\ queue[g] \in Seq(Signals)
  BY Zenon DEF QueueType
<1>2. CASE g \in closed
  BY <1>1, <1>2, Zenon DEF Sent
<1>3. CASE g \notin closed
  <2> DEFINE q == Append(queue[g], x)
  <2>1. /\ q \in Seq(Signals) /\ Len(q) = Len(queue[g]) + 1 /\ q[Len(queue[g]) + 1] = x
        /\ \A i \in 1 .. Len(queue[g]) : q[i] = queue[g][i]
    BY <1>1
  <2> HIDE DEF q
  <2>2. queue' = [queue EXCEPT ![g] = q]
    BY <1>3, Zenon DEF Sent, q
  <2> QED BY <1>1, <1>3, <2>1, <2>2, Zenon
<1> QED BY <1>2, <1>3, Zenon

\* The worker takes the first signal.
LEMMA TakenQueue ==
    ASSUME QueueType, NEW g \in Gens, queue[g] # <<>>, queue' = [queue EXCEPT ![g] = Tail(@)]
    PROVE  /\ queue' \in [Gens -> Seq(Signals)]
           /\ \A h \in Gens : h # g => queue'[h] = queue[h]
           /\ Head(queue[g]) = queue[g][1] /\ queue[g][1] \in Signals
           /\ Len(queue[g]) \in Nat /\ Len(queue[g]) >= 1 /\ Len(queue'[g]) = Len(queue[g]) - 1
           /\ \A i \in 1 .. Len(queue'[g]) : i + 1 \in 1 .. Len(queue[g]) /\ queue'[g][i] = queue[g][i + 1]
<1>1. queue \in [Gens -> Seq(Signals)] /\ queue[g] \in Seq(Signals)
  BY Zenon DEF QueueType
<1> DEFINE q == queue[g]
           t == Tail(q)
<1>2. /\ Head(q) = q[1] /\ q[1] \in Signals /\ Len(q) \in Nat /\ Len(q) >= 1
      /\ t \in Seq(Signals) /\ Len(t) = Len(q) - 1
      /\ \A i \in 1 .. Len(t) : i + 1 \in 1 .. Len(q) /\ t[i] = q[i + 1]
  BY <1>1
<1>3. queue' = [queue EXCEPT ![g] = t]
  BY Zenon
<1> HIDE DEF t
<1>4. queue'[g] = t /\ queue' \in [Gens -> Seq(Signals)] /\ \A h \in Gens : h # g => queue'[h] = queue[h]
  BY <1>1, <1>2, <1>3, Zenon
<1> QED BY <1>2, <1>4, Zenon

\* A queue is dropped.
LEMMA DroppedQueue ==
    ASSUME QueueType, NEW g \in Gens, Dropped(g)
    PROVE  /\ queue' \in [Gens -> Seq(Signals)] /\ closed' = closed \cup {g} /\ closed' \subseteq Gens
           /\ \A h \in Gens : h # g => queue'[h] = queue[h]
           /\ queue'[g] = <<>> /\ Len(queue'[g]) = 0
BY DEF QueueType, Dropped

\* Operations and plungers in the queues are where they were, or one place further.
Shifted ==
    \A h \in Gens : \E d \in {0, 1} : \A i \in 1 .. Len(queue'[h]) :
        queue'[h][i].pc \in {Operation, Plunger} =>
            i + d \in 1 .. Len(queue[h]) /\ queue'[h][i] = queue[h][i + d]

LEMMA SentIsShifted ==
    ASSUME QueueType, NEW g \in Gens, NEW x \in Signals, x.pc \in {Stop, Nop}, queue' = Sent(g, x)
    PROVE  Shifted
<1>1. ASSUME NEW h \in Gens, NEW i \in 1 .. Len(queue'[h]), queue'[h][i].pc \in {Operation, Plunger}
      PROVE  i + 0 \in 1 .. Len(queue[h]) /\ queue'[h][i] = queue[h][i + 0]
  <2>1. Len(queue[h]) \in Nat
    BY DEF QueueType
  <2>2. CASE h # g \/ g \in closed
    BY <2>1, <2>2, <1>1, SentQueue
  <2>3. CASE h = g /\ g \notin closed
    <3>1. i # Len(queue[g]) + 1
      BY <1>1, <2>3, SentQueue
    <3>2. i \in 1 .. Len(queue[h])
      BY <1>1, <2>1, <2>3, <3>1, SentQueue
    <3> QED BY <2>3, <3>2, SentQueue
  <2> QED BY <2>2, <2>3, Zenon
<1> QED BY <1>1, Zenon DEF Shifted

LEMMA TakenIsShifted ==
    ASSUME QueueType, NEW g \in Gens, queue[g] # <<>>, queue' = [queue EXCEPT ![g] = Tail(@)]
    PROVE  Shifted
<1>1. ASSUME NEW h \in Gens
      PROVE  \E d \in {0, 1} : \A i \in 1 .. Len(queue'[h]) :
                 i + d \in 1 .. Len(queue[h]) /\ queue'[h][i] = queue[h][i + d]
  <2>1. CASE h = g
    <3>1. \A i \in 1 .. Len(queue'[h]) : i + 1 \in 1 .. Len(queue[h]) /\ queue'[h][i] = queue[h][i + 1]
      BY <2>1, TakenQueue, Zenon
    <3> QED BY <3>1, Zenon
  <2>2. CASE h # g
    <3>1. queue'[h] = queue[h]
      BY <2>2, TakenQueue, Zenon
    <3>2. ASSUME NEW i \in 1 .. Len(queue'[h])
          PROVE  i + 0 \in 1 .. Len(queue[h]) /\ queue'[h][i] = queue[h][i + 0]
      <4>1. i + 0 = i /\ i \in 1 .. Len(queue[h])
        BY <3>1, <3>2
      <4> QED BY <3>1, <4>1, Zenon
    <3> QED BY <3>2, Zenon
  <2> QED BY <2>1, <2>2, Zenon
<1> QED BY <1>1, Zenon DEF Shifted

LEMMA DroppedIsShifted == ASSUME QueueType, NEW g \in Gens, Dropped(g) PROVE Shifted
<1>1. ASSUME NEW h \in Gens, NEW i \in 1 .. Len(queue'[h])
      PROVE  i + 0 \in 1 .. Len(queue[h]) /\ queue'[h][i] = queue[h][i + 0]
  <2>1. h # g /\ queue'[h] = queue[h]
    BY <1>1, DroppedQueue
  <2> QED BY <2>1
<1> QED BY <1>1, Zenon DEF Shifted

LEMMA SameIsShifted == ASSUME queue' = queue PROVE Shifted
<1>1. ASSUME NEW h \in Gens, NEW i \in 1 .. Len(queue'[h])
      PROVE  i + 0 \in 1 .. Len(queue[h]) /\ queue'[h][i] = queue[h][i + 0]
  OBVIOUS
<1> QED BY <1>1, Zenon DEF Shifted

-----------------------------------------------------------------------------
(* What such a change of the queues keeps                                  *)

LEMMA OpKept ==
    ASSUME QueueType, OpInv, Shifted, UNCHANGED <<written, handled, via>>
    PROVE  OpInv'
<1>1. OrderWithinQueue'
  BY Zenon DEF OpInv, OrderWithinQueue
<1>2. ASSUME NEW g \in Gens, NEW i \in 1 .. Len(queue'[g]), queue'[g][i].pc = Operation
      PROVE  /\ queue'[g][i].num \in 1 .. written /\ via[queue'[g][i].num] = g
             /\ \A k \in 1 .. Len(handled) : via[handled[k]] = g => handled[k] < queue'[g][i].num
             /\ \A j \in 1 .. Len(queue'[g]) :
                   i < j /\ queue'[g][j].pc = Operation => queue'[g][i].num < queue'[g][j].num
  <2>1. PICK d \in {0, 1} : \A k \in 1 .. Len(queue'[g]) :
            queue'[g][k].pc \in {Operation, Plunger} =>
                k + d \in 1 .. Len(queue[g]) /\ queue'[g][k] = queue[g][k + d]
    BY Zenon DEF Shifted
  <2>2. i + d \in 1 .. Len(queue[g]) /\ queue'[g][i] = queue[g][i + d]
    BY <1>2, <2>1, Zenon
  <2>3. ASSUME NEW j \in 1 .. Len(queue'[g]), i < j, queue'[g][j].pc = Operation
        PROVE  queue'[g][i].num < queue'[g][j].num
    <3>1. j + d \in 1 .. Len(queue[g]) /\ queue'[g][j] = queue[g][j + d] /\ i + d < j + d
      BY <2>1, <2>3
    <3> QED BY <1>2, <2>2, <2>3, <3>1 DEF OpInv
  <2> QED BY <1>2, <2>2, <2>3 DEF OpInv
<1> QED BY <1>1, <1>2, Zenon DEF OpInv

\* ... while the snapshotters whose plungers are in the queues wait.
LEMMA PlungersMoved ==
    ASSUME QueueType, PlungersWait, Shifted,
           \A g \in Gens : \A i \in 1 .. Len(queue'[g]) : queue'[g][i].pc = Plunger =>
               snapshot'[queue'[g][i].num] = snapshot[queue'[g][i].num]
    PROVE  PlungersWait'
<1> SUFFICES ASSUME NEW g \in Gens, NEW i \in 1 .. Len(queue'[g]), queue'[g][i].pc = Plunger
             PROVE  /\ queue'[g][i].num \in Snapshotters
                    /\ snapshot'[queue'[g][i].num].pc = "waiting" /\ snapshot'[queue'[g][i].num].gen = g
                    /\ \A j \in 1 .. Len(queue'[g]) :
                          /\ i # j /\ queue'[g][j].pc = Plunger => queue'[g][j].num # queue'[g][i].num
                          /\ i < j /\ queue'[g][j].pc = Operation =>
                                snapshot'[queue'[g][i].num].num < queue'[g][j].num
  BY Zenon DEF PlungersWait
<1>1. PICK d \in {0, 1} : \A k \in 1 .. Len(queue'[g]) :
          queue'[g][k].pc \in {Operation, Plunger} =>
              k + d \in 1 .. Len(queue[g]) /\ queue'[g][k] = queue[g][k + d]
  BY Zenon DEF Shifted
<1> DEFINE s == queue'[g][i].num
<1>2. i + d \in 1 .. Len(queue[g]) /\ queue'[g][i] = queue[g][i + d]
  BY <1>1, Zenon
<1>3. s \in Snapshotters /\ snapshot[s].pc = "waiting" /\ snapshot[s].gen = g
  BY <1>2 DEF PlungersWait
<1>4. snapshot'[s] = snapshot[s]
  BY Zenon
<1>5. ASSUME NEW j \in 1 .. Len(queue'[g]), queue'[g][j].pc \in {Operation, Plunger}
      PROVE  /\ i # j /\ queue'[g][j].pc = Plunger => queue'[g][j].num # s
             /\ i < j /\ queue'[g][j].pc = Operation => snapshot[s].num < queue'[g][j].num
  <2>1. /\ j + d \in 1 .. Len(queue[g]) /\ queue'[g][j] = queue[g][j + d]
        /\ (i < j => i + d < j + d) /\ (i # j => i + d # j + d)
    BY <1>1, <1>5
  <2> QED BY <1>2, <2>1, SMTT(30) DEF PlungersWait
<1> QED BY <1>3, <1>4, <1>5, Zenon

\* ... while some snapshotters begin, end or give up.
LEMMA PlungerKept ==
    ASSUME QueueType, PlungerInv, Shifted, UNCHANGED <<written, via, behind>>,
           \A n \in OpNums : Handled(n) => Handled(n)',
           \A s \in Snapshotters :
               \/ snapshot'[s] = snapshot[s]
               \/ /\ snapshot'[s].pc \in {"idle", "loaded"}
                  /\ snapshot[s].pc = "waiting" => queue'[snapshot[s].gen] = <<>> /\ snapshot[s].gen \in Gens
    PROVE  PlungerInv'
<1>1. PlungerCoversQueue'
  <2> SUFFICES ASSUME NEW s \in Snapshotters, NEW n \in OpNums, snapshot'[s].pc = "copying",
                      n <= snapshot'[s].num, via[n] <= snapshot'[s].gen, n \notin behind
               PROVE  Handled(n)'
    BY Zenon DEF PlungerCoversQueue
  <2>1. snapshot'[s] = snapshot[s]
    BY Zenon
  <2> QED BY <2>1, Zenon DEF PlungerInv, PlungerCoversQueue
<1>2. \A s \in Snapshotters : snapshot'[s].pc \in {"waiting", "copying"} => snapshot'[s].num <= written
  BY Zenon DEF PlungerInv
<1>3. ASSUME NEW g \in Gens, NEW i \in 1 .. Len(queue'[g]), queue'[g][i].pc = Plunger
      PROVE  snapshot'[queue'[g][i].num] = snapshot[queue'[g][i].num]
  <2>1. PICK k \in 1 .. Len(queue[g]) : queue'[g][i] = queue[g][k]
    BY <1>3, Zenon DEF Shifted
  <2> DEFINE s == queue'[g][i].num
  <2>2. s \in Snapshotters /\ snapshot[s].pc = "waiting" /\ snapshot[s].gen = g
    BY <1>3, <2>1 DEF PlungerInv, PlungersWait
  <2>3. queue'[g] # <<>>
    BY <1>3
  <2> QED BY <2>2, <2>3, Zenon
<1>4. PlungersWait'
  BY <1>3, PlungersMoved, Zenon DEF PlungerInv
<1> QED BY <1>1, <1>2, <1>4, Zenon DEF PlungerInv
-----------------------------------------------------------------------------
(* Types, and numbers for all operations that have a slot                  *)

ClientState == [pc : {"idle", "loaded", "reserved", "waiting"}, gen : 0 .. MaxGen, num : 0 .. MaxOps]
SnapshotState == [pc : {"idle", "loaded", "waiting", "copying"}, gen : 0 .. MaxGen, num : 0 .. MaxOps]
UpdaterState == [pc : {"idle", "send_stop", "wait", "send_nop"}, gen : 0 .. MaxGen, num : {NoOp}]
WorkerState == [pc : {"none", "recv", Operation, Nop, Stop, "left", "done"}, num : 0 .. MaxOps]

LEMMA HoldingIsFinite ==
    Holding \subseteq Clients /\ IsFiniteSet(Holding) /\ Cardinality(Holding) \in Nat
BY QueueAssumption, FS_Subset, FS_CardinalityType, Zenon DEF Holding

\* A step of one client that neither takes nor uses a slot.
LEMMA ClientMoves ==
    ASSUME QueueType, CallerInv, NEW c \in Clients, client[c].pc # "reserved",
           NEW r \in ClientState, r.pc # "reserved", r.pc # "idle" => r.gen \in Gens,
           client' = [client EXCEPT ![c] = r],
           UNCHANGED <<queues, written, handled, via, snapshot, updater, upd, opt, flush>>
    PROVE  QueueType' /\ CallerInv'
<1>1. client \in [Clients -> ClientState]
  BY Zenon DEF QueueType, ClientState
<1>2. client' \in [Clients -> ClientState] /\ \A d \in Clients : client'[d] = IF d = c THEN r ELSE client[d]
  BY <1>1, Zenon
<1>3. QueueType'
  BY <1>2, Zenon DEF QueueType, ClientState, queues
<1>4. Holding' = Holding
  BY <1>2, Zenon DEF Holding
<1> QED BY <1>2, <1>3, <1>4, Zenon DEF CallerInv

LEMMA LoadSenderType == ASSUME QueueInv, NEW c \in Clients, LoadSender(c) PROVE QueueType' /\ CallerInv'
<1>1. /\ client' = [client EXCEPT ![c] = At("loaded", sender, NoOp)] /\ client[c].pc = "idle"
      /\ UNCHANGED <<queues, written, handled, via, snapshot, updater, upd, opt, flush>>
      /\ sender \in Gens
  BY Zenon DEF LoadSender, log, workers, QueueInv, QueueType
<1>2. /\ At("loaded", sender, NoOp) \in ClientState
      /\ At("loaded", sender, NoOp).pc = "loaded" /\ At("loaded", sender, NoOp).gen = sender
  BY <1>1, QueueAssumption DEF At, ClientState, Gens
<1> QED BY <1>1, <1>2, ClientMoves, Zenon DEF QueueInv

LEMMA HomeIsState ==
    /\ Home \in ClientState /\ Home \in SnapshotState /\ Home \in UpdaterState
    /\ Home.pc = "idle"
BY QueueAssumption DEF Home, At, ClientState, SnapshotState, UpdaterState

LEMMA ReserveType == ASSUME QueueInv, NEW c \in Clients, Reserve(c) PROVE QueueType' /\ CallerInv'
<1>1. /\ client[c].pc = "loaded"
      /\ UNCHANGED <<queues, written, handled, via, snapshot, updater, upd, opt, flush>>
  BY Zenon DEF Reserve, log, workers
<1>2. CASE client' = [client EXCEPT ![c] = Home]
  BY <1>1, <1>2, HomeIsState, ClientMoves, Zenon DEF QueueInv
<1>3. CASE /\ written + Cardinality(Holding) < MaxOps
           /\ client' = [client EXCEPT ![c].pc = "reserved"]
  <2>1. client \in [Clients -> ClientState]
    BY Zenon DEF QueueInv, QueueType, ClientState
  <2>2. /\ client' \in [Clients -> ClientState] /\ client'[c].pc = "reserved"
        /\ client'[c].gen = client[c].gen
        /\ \A d \in Clients : d # c => client'[d] = client[d]
    BY <1>3, <2>1, Zenon DEF ClientState
  <2>3. QueueType'
    BY <1>1, <2>2, Zenon DEF QueueInv, QueueType, ClientState, queues
  <2>4. Holding' = Holding \cup {c} /\ c \notin Holding
    BY <1>1, <2>2, Zenon DEF Holding
  <2>5. Cardinality(Holding') = Cardinality(Holding) + 1
    BY <2>4, HoldingIsFinite, FS_AddElement, Zenon
  <2>6. written' + Cardinality(Holding') <= MaxOps
    BY <1>1, <1>3, <2>5, HoldingIsFinite, QueueAssumption DEF QueueInv, QueueType
  <2> QED BY <1>1, <2>2, <2>3, <2>6, Zenon DEF QueueInv, CallerInv
<1> QED BY <1>2, <1>3, Zenon DEF Reserve, Holding

\* The number of the next operation.
LEMMA NextNumber ==
    ASSUME QueueInv, NEW c \in Clients, client[c].pc = "reserved"
    PROVE  written + 1 \in OpNums /\ written + 1 \in 0 .. MaxOps /\ client[c].gen \in Gens
<1>1. c \in Holding /\ client[c].gen \in Gens
  BY Zenon DEF Holding, QueueInv, CallerInv
<1>2. Cardinality(Holding) >= 1
  <2>1. Cardinality(Holding \ {c}) = Cardinality(Holding) - 1 /\ IsFiniteSet(Holding \ {c})
    BY <1>1, HoldingIsFinite, FS_RemoveElement, Zenon
  <2>2. Cardinality(Holding \ {c}) \in Nat
    BY <2>1, FS_CardinalityType, Zenon
  <2> QED BY <2>1, <2>2, HoldingIsFinite
<1> QED BY <1>1, <1>2, HoldingIsFinite, QueueAssumption DEF QueueInv, QueueType, CallerInv, OpNums

LEMMA WriteAndSendType ==
    ASSUME QueueInv, NEW c \in Clients, NEW wait \in BOOLEAN, WriteAndSend(c, wait)
    PROVE  QueueType' /\ CallerInv'
<1> DEFINE n == written + 1
           g == client[c].gen
           r == IF wait THEN At("waiting", g, n) ELSE Home
<1>1. /\ client[c].pc = "reserved" /\ written' = n /\ via' = [via EXCEPT ![n] = g]
      /\ queue' = Sent(g, Signal(Operation, n)) /\ client' = [client EXCEPT ![c] = r]
      /\ UNCHANGED <<sender, closed, handled, snapshot, updater, upd, opt, flush>>
  BY Zenon DEF WriteAndSend, workers
<1>2. n \in OpNums /\ n \in 0 .. MaxOps /\ g \in Gens /\ n \in Nat /\ written \in Nat
  BY <1>1, NextNumber DEF QueueInv, QueueType
<1>3. Signal(Operation, n) \in Signals
  BY <1>2, Zenon DEF Signal, Signals
<1>4. r \in ClientState /\ r.pc # "reserved" /\ (r.pc # "idle" => r.gen = g)
  <2>1. g \in 0 .. MaxGen
    BY <1>2, QueueAssumption DEF Gens
  <2>2. /\ At("waiting", g, n) \in ClientState /\ At("waiting", g, n).pc = "waiting"
        /\ At("waiting", g, n).gen = g
    BY <1>2, <2>1, Zenon DEF At, ClientState
  <2> QED BY <2>2, HomeIsState, Zenon
<1> HIDE DEF r, n, g
<1>5. client \in [Clients -> ClientState] /\ via \in [OpNums -> 0 .. MaxGen]
  BY Zenon DEF QueueInv, QueueType, ClientState
<1>6. client' \in [Clients -> ClientState] /\ \A d \in Clients : client'[d] = IF d = c THEN r ELSE client[d]
  BY <1>1, <1>4, <1>5, Zenon
<1>7. via' \in [OpNums -> 0 .. MaxGen]
  BY <1>1, <1>2, <1>5, QueueAssumption DEF Gens
<1>8. queue' \in [Gens -> Seq(Signals)]
  BY <1>1, <1>2, <1>3, SentQueue, Zenon DEF QueueInv
<1>9. QueueType'
  BY <1>1, <1>2, <1>6, <1>7, <1>8, Zenon DEF QueueInv, QueueType, ClientState
<1>10. Holding' = Holding \ {c} /\ c \in Holding
  BY <1>1, <1>4, <1>6, Zenon DEF Holding
<1>11. Cardinality(Holding') = Cardinality(Holding) - 1
  BY <1>10, HoldingIsFinite, FS_RemoveElement, Zenon
<1>12. written' + Cardinality(Holding') <= MaxOps
  BY <1>1, <1>2, <1>11, HoldingIsFinite, QueueAssumption DEF QueueInv, CallerInv, n
<1> QED BY <1>1, <1>2, <1>4, <1>6, <1>9, <1>12, Zenon DEF QueueInv, CallerInv

LEMMA ResultLostType == ASSUME QueueInv, NEW c \in Clients, ResultLost(c) PROVE QueueType' /\ CallerInv'
<1>1. /\ client' = [client EXCEPT ![c] = Home] /\ client[c].pc # "reserved"
      /\ UNCHANGED <<queues, written, handled, via, snapshot, updater, upd, opt, flush>>
  BY Zenon DEF ResultLost, log, workers
<1> QED BY <1>1, HomeIsState, ClientMoves, Zenon DEF QueueInv

\* Clients that wait for a result get it.
LEMMA AnsweredClients ==
    ASSUME QueueInv, NEW n, client' = Answered(n)
    PROVE  /\ client' \in [Clients -> ClientState] /\ Holding' = Holding
           /\ \A c \in Clients : client'[c].pc # "idle" => client'[c].gen \in Gens
<1>1. client \in [Clients -> ClientState]
  BY Zenon DEF QueueInv, QueueType, ClientState
<1>2. /\ client' \in [Clients -> ClientState]
      /\ \A c \in Clients : client'[c] = client[c] \/ (client[c].pc = "waiting" /\ client'[c] = Home)
  BY <1>1, HomeIsState, Zenon DEF Answered
<1> QED BY <1>2, HomeIsState, Zenon DEF Holding, QueueInv, CallerInv

\* Steps of the snapshotters.
LEMMA SnapshotType ==
    ASSUME QueueInv, NEW s \in Snapshotters, SnapshotStart(s) \/ SnapshotStep(s)
    PROVE  QueueType' /\ CallerInv'
<1>1. /\ UNCHANGED <<sender, closed, written, handled, via, client, updater, upd, opt, flush>>
      /\ sender \in Gens /\ snapshot \in [Snapshotters -> SnapshotState]
      /\ written \in 0 .. MaxOps /\ snapshot[s].gen \in 0 .. MaxGen
  BY Zenon DEF SnapshotStart, SnapshotStep, SendPlunger, PlungerLost, SnapshotEnd, log, workers, queues,
         QueueInv, QueueType, SnapshotState
<1>2. PICK r \in SnapshotState : /\ snapshot' = [snapshot EXCEPT ![s] = r]
                                 /\ r.pc # "idle" => r.gen \in Gens
  <2>1. \A g \in Gens : g \in 0 .. MaxGen
    BY QueueAssumption DEF Gens
  <2>2. CASE SnapshotStart(s)
    <3>1. At("loaded", sender, NoOp) \in SnapshotState /\ At("loaded", sender, NoOp).gen = sender
      BY <1>1, <2>1, QueueAssumption DEF At, SnapshotState
    <3> QED BY <1>1, <2>2, <3>1, Zenon DEF SnapshotStart
  <2>3. CASE SendPlunger(s)
    <3>1. snapshot[s].gen \in Gens
      BY <2>3, Zenon DEF SendPlunger, QueueInv, CallerInv
    <3>2. /\ At("waiting", snapshot[s].gen, written) \in SnapshotState
          /\ At("waiting", snapshot[s].gen, written).gen = snapshot[s].gen
      BY <1>1, Zenon DEF At, SnapshotState
    <3> QED BY <2>3, <3>1, <3>2, HomeIsState, Zenon DEF SendPlunger
  <2>4. CASE PlungerLost(s) \/ SnapshotEnd(s)
    BY <2>4, HomeIsState, Zenon DEF PlungerLost, SnapshotEnd
  <2> QED BY <2>2, <2>3, <2>4, Zenon DEF SnapshotStep
<1>3. /\ snapshot' \in [Snapshotters -> SnapshotState]
      /\ \A t \in Snapshotters : snapshot'[t] = IF t = s THEN r ELSE snapshot[t]
  BY <1>1, <1>2, Zenon
<1>4. queue' \in [Gens -> Seq(Signals)]
  <2>1. CASE queue' = queue
    BY <2>1, Zenon DEF QueueInv, QueueType
  <2>2. CASE SendPlunger(s) /\ queue' = Sent(snapshot[s].gen, Signal(Plunger, s))
    <3>1. snapshot[s].gen \in Gens /\ Signal(Plunger, s) \in Signals
      BY <2>2, Zenon DEF SendPlunger, QueueInv, CallerInv, Signal, Signals
    <3> QED BY <2>2, <3>1, SentQueue, Zenon DEF QueueInv
  <2> QED BY <2>1, <2>2, Zenon DEF SnapshotStart, SnapshotStep, SendPlunger, PlungerLost, SnapshotEnd, queues
<1>5. QueueType'
  BY <1>1, <1>3, <1>4, Zenon DEF QueueInv, QueueType, SnapshotState
<1> QED BY <1>1, <1>2, <1>3, <1>5, Zenon DEF QueueInv, CallerInv, Holding

\* What update_worker_fn does with the signal x that it takes.
Taken(g, x) ==
    \/ /\ x.pc = Operation /\ x.num \in OpNums /\ handled' = Append(handled, x.num) /\ snapshot' = snapshot
       /\ \/ upd' = [upd EXCEPT ![g] = x] /\ client' = client
          \/ client' = Answered(x.num) /\ upd' = upd
    \/ /\ x.pc = Plunger /\ x.num \in Snapshotters /\ snapshot' = Pressed(x.num)
       /\ UNCHANGED <<upd, handled, client>>
    \/ /\ x.pc \in {Stop, Nop} /\ upd' = [upd EXCEPT ![g] = x]
       /\ UNCHANGED <<handled, client, snapshot>>

LEMMA Received ==
    ASSUME QueueInv, NEW g \in Gens, UpdateReceive(g)
    PROVE  /\ upd[g].pc = "recv" /\ queue[g] # <<>> /\ queue' = [queue EXCEPT ![g] = Tail(@)]
           /\ UNCHANGED <<sender, closed, written, via, behind, updater, opt, flush>>
           /\ queue' \in [Gens -> Seq(Signals)] /\ queue[g][1] \in Signals /\ 1 \in 1 .. Len(queue[g])
           /\ Taken(g, queue[g][1])
<1>1. /\ upd[g].pc = "recv" /\ queue[g] # <<>> /\ queue' = [queue EXCEPT ![g] = Tail(@)]
      /\ UNCHANGED <<sender, closed, written, via, behind, updater, opt, flush>>
  BY Zenon DEF UpdateReceive
<1>2. /\ queue' \in [Gens -> Seq(Signals)] /\ queue[g][1] \in Signals /\ Head(queue[g]) = queue[g][1]
      /\ Len(queue[g]) \in Nat /\ Len(queue[g]) >= 1
  BY <1>1, TakenQueue, Zenon DEF QueueInv
<1>3. 1 \in 1 .. Len(queue[g])
  BY <1>2
<1> DEFINE x == queue[g][1]
<1>4. x.pc = Operation => x.num \in 1 .. written
  BY <1>3, Zenon DEF QueueInv, OpInv
<1>5. x.pc = Operation => x.num \in OpNums
  BY <1>4, QueueAssumption, SMTT(30) DEF QueueInv, QueueType, OpNums
<1>6. x.pc = Plunger => x.num \in Snapshotters
  BY <1>3, Zenon DEF QueueInv, PlungerInv, PlungersWait
<1>7. Head(queue[g]) = x
  BY <1>2, Zenon
<1> HIDE DEF x
<1>8. Taken(g, x)
  BY <1>5, <1>6, <1>7, Zenon DEF UpdateReceive, Taken
<1> QED BY <1>1, <1>2, <1>3, <1>8, Zenon DEF x

\* Steps of the workers.
LEMMA WorkerType ==
    ASSUME QueueInv, NEW g \in Gens,
           UpdateWorker(g) \/ OptReceive(g) \/ TaskEnds(g) \/ FlushExit(g)
    PROVE  QueueType' /\ CallerInv'
<1>1. /\ UNCHANGED <<sender, written, via, updater>>
      /\ upd \in [Gens -> WorkerState] /\ opt \in [Gens -> {"none", "recv", "done"}]
      /\ flush \in [Gens -> {"none", "sleep", "stopping", "done"}]
      /\ snapshot \in [Snapshotters -> SnapshotState] /\ handled \in Seq(OpNums)
      /\ closed \subseteq Gens /\ queue \in [Gens -> Seq(Signals)] /\ client \in [Clients -> ClientState]
  BY Zenon DEF UpdateWorker, UpdateReceive, Announce, AnnounceStop, UpdateExit, OptReceive, TaskEnds, FlushExit,
         queues, log, QueueInv, QueueType, WorkerState, SnapshotState, ClientState
<1>2. Listening \in WorkerState
  BY QueueAssumption DEF Listening, Signal, WorkerState
<1>3. CASE UpdateReceive(g)
  <2> DEFINE x == queue[g][1]
  <2>1. /\ x \in Signals /\ queue' \in [Gens -> Seq(Signals)] /\ 1 \in 1 .. Len(queue[g])
        /\ UNCHANGED <<closed, opt, flush>> /\ Taken(g, x)
    BY <1>3, Received, Zenon
  <2>4. x.pc # Plunger => x \in WorkerState
    BY <2>1, Zenon DEF Signals, WorkerState
  <2> HIDE DEF x
  <2>5. handled' \in Seq(OpNums)
    <3>1. handled' = handled \/ (x.num \in OpNums /\ handled' = Append(handled, x.num))
      BY <2>1, Zenon DEF Taken
    <3>2. ASSUME NEW n \in OpNums PROVE Append(handled, n) \in Seq(OpNums)
      BY <1>1
    <3> QED BY <1>1, <3>1, <3>2, Zenon
  <2>6. upd' \in [Gens -> WorkerState]
    BY <1>1, <2>1, <2>4, Zenon DEF Taken
  <2>7. /\ snapshot' \in [Snapshotters -> SnapshotState]
        /\ \A s \in Snapshotters : snapshot'[s].gen = snapshot[s].gen /\ (snapshot'[s].pc # "idle" => snapshot[s].pc # "idle")
    <3>1. CASE snapshot' = snapshot
      BY <1>1, <3>1, Zenon
    <3>2. CASE x.pc = Plunger /\ snapshot' = Pressed(x.num)
      <4>1. snapshot[x.num].pc # "idle"
        BY <2>1, <3>2, Zenon DEF QueueInv, PlungerInv, PlungersWait, x
      <4>2. x.num \in Snapshotters
        BY <2>1, <3>2, Zenon DEF Taken
      <4> QED BY <1>1, <3>2, <4>1, <4>2, Zenon DEF Pressed, SnapshotState
    <3> QED BY <2>1, <3>1, <3>2, Zenon DEF Taken
  <2>8. /\ client' \in [Clients -> ClientState] /\ Holding' = Holding
        /\ \A c \in Clients : client'[c].pc # "idle" => client'[c].gen \in Gens
    <3>1. CASE client' = client
      BY <1>1, <3>1, Zenon DEF Holding, QueueInv, CallerInv
    <3>2. CASE client' = Answered(x.num)
      BY <3>2, AnsweredClients, Zenon
    <3> QED BY <2>1, <3>1, <3>2, Zenon DEF Taken
  <2>9. QueueType'
    BY <1>1, <2>1, <2>5, <2>6, <2>7, <2>8, Zenon
    DEF QueueInv, QueueType, WorkerState, SnapshotState, ClientState
  <2> QED BY <1>1, <2>7, <2>8, <2>9, Zenon DEF QueueInv, CallerInv
<1>4. CASE Announce(g)
  <2>1. upd' = [upd EXCEPT ![g] = Listening] /\ UNCHANGED <<queues, handled, snapshot, opt, flush>>
    BY <1>4, Zenon DEF Announce, log
  <2>2. upd' \in [Gens -> WorkerState]
    BY <1>1, <1>2, <2>1, Zenon
  <2>3. /\ client' \in [Clients -> ClientState] /\ Holding' = Holding
        /\ \A c \in Clients : client'[c].pc # "idle" => client'[c].gen \in Gens
    <3>1. CASE client' = client
      BY <1>1, <3>1, Zenon DEF Holding, QueueInv, CallerInv
    <3>2. CASE client' = Answered(upd[g].num)
      BY <3>2, AnsweredClients, Zenon
    <3> QED BY <1>4, <3>1, <3>2, Zenon DEF Announce
  <2>4. QueueType'
    BY <1>1, <2>1, <2>2, <2>3, Zenon DEF QueueInv, QueueType, queues, WorkerState, ClientState
  <2> QED BY <1>1, <2>1, <2>3, <2>4, Zenon DEF QueueInv, CallerInv
<1>5. CASE AnnounceStop(g) \/ UpdateExit(g)
  <2>1. /\ upd' \in [Gens -> WorkerState] /\ UNCHANGED <<handled, client, snapshot, opt, flush>>
    BY <1>1, <1>5, ZenonT(30) DEF AnnounceStop, UpdateExit, log, WorkerState
  <2>2. queue' \in [Gens -> Seq(Signals)] /\ closed' \subseteq Gens
    BY <1>1, <1>5, DroppedQueue, Zenon DEF AnnounceStop, UpdateExit, queues, QueueInv
  <2>3. QueueType'
    BY <1>1, <2>1, <2>2, Zenon DEF QueueInv, QueueType, WorkerState
  <2> QED BY <1>1, <2>1, <2>3, Zenon DEF QueueInv, CallerInv, Holding
<1>6. CASE OptReceive(g) \/ TaskEnds(g) \/ FlushExit(g)
  <2>1. UNCHANGED <<queues, handled, client, snapshot, upd>>
    BY <1>6, Zenon DEF OptReceive, TaskEnds, FlushExit, log
  <2>2. opt' \in [Gens -> {"none", "recv", "done"}] /\ flush' \in [Gens -> {"none", "sleep", "stopping", "done"}]
    BY <1>1, <1>6, Zenon DEF OptReceive, TaskEnds, FlushExit
  <2>3. QueueType'
    BY <1>1, <2>1, <2>2, Zenon DEF QueueInv, QueueType, queues
  <2> QED BY <1>1, <2>1, <2>3, Zenon DEF QueueInv, CallerInv, Holding
<1> QED BY <1>3, <1>4, <1>5, <1>6, Zenon DEF UpdateWorker

\* Steps of the updaters.
LEMMA UpdaterType ==
    ASSUME QueueInv, NEW u \in Updaters, SwapSender(u) \/ ConfigStep(u)
    PROVE  QueueType' /\ CallerInv'
<1>1. /\ UNCHANGED <<written, handled, via, client, snapshot>>
      /\ sender \in Gens /\ updater \in [Updaters -> UpdaterState] /\ upd \in [Gens -> WorkerState]
      /\ opt \in [Gens -> {"none", "recv", "done"}] /\ closed \subseteq Gens
      /\ flush \in [Gens -> {"none", "sleep", "stopping", "done"}] /\ queue \in [Gens -> Seq(Signals)]
  BY Zenon DEF SwapSender, ConfigStep, SendStop, Restart, RestartFails, SendNop, log,
         QueueInv, QueueType, WorkerState, UpdaterState
<1>2. CallerInv'
  BY <1>1, Zenon DEF QueueInv, CallerInv, Holding
<1>3. Signal(Stop, NoOp) \in Signals /\ Signal(Nop, NoOp) \in Signals /\ Listening \in WorkerState
  BY QueueAssumption DEF Signal, Signals, Listening, WorkerState
<1>4. CASE SwapSender(u)
  <2>1. /\ sender < MaxGen /\ sender' = sender + 1 /\ updater' = [updater EXCEPT ![u] = At("send_stop", sender, NoOp)]
        /\ UNCHANGED <<queue, closed, upd, opt, flush>>
    BY <1>4, Zenon DEF SwapSender, workers
  <2>2. sender' \in Gens /\ At("send_stop", sender, NoOp) \in UpdaterState
    BY <1>1, <2>1, QueueAssumption DEF Gens, At, UpdaterState
  <2>3. updater' \in [Updaters -> UpdaterState]
    BY <1>1, <2>1, <2>2, Zenon
  <2> QED BY <1>1, <1>2, <2>1, <2>2, <2>3, Zenon DEF QueueInv, QueueType, UpdaterState
<1>5. CASE ConfigStep(u)
  <2>1. sender' = sender
    BY <1>5, Zenon DEF ConfigStep, SendStop, Restart, RestartFails, SendNop, queues
  <2>2. updater' \in [Updaters -> UpdaterState]
    <3>1. PICK r \in {"wait", "send_nop"} : \/ updater' = [updater EXCEPT ![u].pc = r]
                                            \/ updater' = [updater EXCEPT ![u] = Home]
      BY <1>5, Zenon DEF ConfigStep, SendStop, Restart, RestartFails, SendNop
    <3>2. CASE updater' = [updater EXCEPT ![u].pc = r]
      BY <1>1, <3>2, Zenon DEF UpdaterState
    <3>3. CASE updater' = [updater EXCEPT ![u] = Home]
      BY <1>1, <3>3, HomeIsState, Zenon
    <3> QED BY <3>1, <3>2, <3>3, Zenon
  <2>3. queue' \in [Gens -> Seq(Signals)] /\ closed' \subseteq Gens
    <3>1. CASE SendStop(u)
      <4>1. updater[u].gen \in Gens
        BY <1>1, <3>1, QueueAssumption DEF SendStop, QueueInv, TurnInv, Gens
      <4> QED BY <1>1, <1>3, <3>1, <4>1, SentQueue, DroppedQueue, Zenon DEF SendStop, QueueInv
    <3>2. CASE Restart(u)
      BY <1>1, <3>2, Zenon DEF Restart, queues
    <3>3. CASE RestartFails(u)
      BY <1>1, <3>3, DroppedQueue, Zenon DEF RestartFails, QueueInv
    <3>4. CASE SendNop(u)
      BY <1>1, <1>3, <3>4, SentQueue, Zenon DEF SendNop, QueueInv
    <3> QED BY <1>5, <3>1, <3>2, <3>3, <3>4, Zenon DEF ConfigStep
  <2>4. /\ upd' \in [Gens -> WorkerState] /\ opt' \in [Gens -> {"none", "recv", "done"}]
        /\ flush' \in [Gens -> {"none", "sleep", "stopping", "done"}]
    <3>1. CASE Restart(u)
      BY <1>1, <1>3, <3>1, Zenon DEF Restart
    <3>2. CASE SendStop(u)
      BY <1>1, <3>2, Zenon DEF SendStop
    <3>3. CASE RestartFails(u) \/ SendNop(u)
      BY <1>1, <3>3, Zenon DEF RestartFails, SendNop, workers
    <3> QED BY <1>5, <3>1, <3>2, <3>3, Zenon DEF ConfigStep
  <2> QED BY <1>1, <1>2, <2>1, <2>2, <2>3, <2>4, Zenon DEF QueueInv, QueueType, UpdaterState, WorkerState
<1> QED BY <1>4, <1>5, Zenon

-----------------------------------------------------------------------------
(* The workers take turns                                                  *)

LEMMA TurnSame ==
    ASSUME TurnInv, UNCHANGED <<sender, updater, closed, upd, opt, flush>>
    PROVE  TurnInv'
BY SMTT(30) DEF TurnInv, Acting, Replacing, Alive

\* A step of the workers of one generation that starts none of them.
LEMMA TurnWorker ==
    ASSUME QueueType, TurnInv, UNCHANGED <<sender, updater>>, NEW g \in Gens,
           \A h \in Gens \ {g} : upd'[h] = upd[h] /\ opt'[h] = opt[h] /\ flush'[h] = flush[h],
           Alive(g)' => Alive(g),
           (upd'[g].pc = "none") <=> (upd[g].pc = "none"),
           (opt'[g] = "none") <=> (opt[g] = "none"),
           (flush'[g] = "none") <=> (flush[g] = "none"),
           upd'[g].pc \in Leaving => flush'[g] \in ToStop,
           flush'[g] \in ToStop => flush[g] \in ToStop,
           closed \subseteq closed', closed' \subseteq closed \cup {g},
           g \in closed' => upd'[g].pc \in {"none", "done"} /\ (g \in closed \/ g < sender)
    PROVE  TurnInv'
<1>1. Acting' = Acting /\ \A h \in Gens \ {g} : Alive(h)' = Alive(h)
  BY Zenon DEF Acting, Replacing, Alive
<1>2. sender \in Nat /\ closed \subseteq Gens /\ g \in Nat
  BY DEF QueueType, Gens
<1>3. \A u, v \in Updaters : updater'[u].pc # "idle" /\ updater'[v].pc # "idle" => u = v
  BY DEF TurnInv
<1>4. \A u \in Updaters :
          /\ updater'[u].pc \in {"send_stop", "wait"} => updater'[u].gen = sender' - 1 /\ sender' > 1
          /\ updater'[u].pc # "idle" => sender' \notin closed'
  BY <1>2 DEF TurnInv
<1>5. \A h \in closed' : h <= sender' /\ upd'[h].pc \in {"none", "done"}
  BY <1>2 DEF TurnInv
<1>6. \A h \in Gens :
          /\ (upd'[h].pc = "none") <=> (opt'[h] = "none")
          /\ (upd'[h].pc = "none") <=> (flush'[h] = "none")
          /\ h > Acting' => upd'[h].pc = "none"
          /\ h <= Acting' /\ upd'[h].pc = "none" => h \in closed'
  BY <1>1 DEF TurnInv
<1>7. \A h \in Gens :
          /\ Alive(h)' => h = Acting'
          /\ upd'[h].pc \in Leaving => flush'[h] \in ToStop
          /\ flush'[h] \in ToStop => /\ h < sender'
                                     /\ \A u \in Updaters : updater'[u].pc = "send_stop" => h # updater'[u].gen
  BY <1>1, SMTT(30) DEF TurnInv
<1>8. \A k, h \in Gens : upd'[k].pc = "none" /\ k < h => upd'[h].pc = "none"
  <2>1. \A h \in Gens : (upd'[h].pc = "none") <=> (upd[h].pc = "none")
    BY Zenon
  <2> QED BY <2>1, Zenon DEF TurnInv
<1> QED BY <1>3, <1>4, <1>5, <1>6, <1>7, <1>8, Zenon DEF TurnInv

LEMMA WorkerTurn ==
    ASSUME QueueInv, NEW g \in Gens,
           UpdateWorker(g) \/ OptReceive(g) \/ TaskEnds(g) \/ FlushExit(g)
    PROVE  TurnInv'
<1>1. /\ UNCHANGED <<sender, updater>> /\ QueueType /\ TurnInv /\ StopInv
      /\ upd \in [Gens -> WorkerState] /\ opt \in [Gens -> {"none", "recv", "done"}]
      /\ flush \in [Gens -> {"none", "sleep", "stopping", "done"}]
  BY Zenon DEF UpdateWorker, UpdateReceive, Announce, AnnounceStop, UpdateExit, OptReceive, TaskEnds, FlushExit,
         queues, QueueInv, QueueType, WorkerState
<1>2. Listening.pc = "recv"
  BY Zenon DEF Listening, Signal
<1>3. CASE UpdateReceive(g)
  <2> DEFINE x == queue[g][1]
  <2>1. /\ x \in Signals /\ 1 \in 1 .. Len(queue[g]) /\ Taken(g, x)
        /\ upd[g].pc = "recv" /\ UNCHANGED <<closed, opt, flush>>
    BY <1>3, Received, Zenon
  <2>2. x.pc = Stop => flush[g] \in ToStop
    BY <1>1, <2>1, Zenon DEF StopInv
  <2> HIDE DEF x
  <2>3. /\ upd[g].pc = "recv" /\ UNCHANGED <<closed, opt, flush>>
        /\ \/ upd' = upd
           \/ upd' = [upd EXCEPT ![g] = x] /\ x.pc \in {Operation, Stop, Nop}
    BY <2>1, Zenon DEF Taken
  <2>4. /\ \A h \in Gens \ {g} : upd'[h] = upd[h]
        /\ upd'[g].pc \in {"recv", Operation, Stop, Nop} /\ (upd'[g].pc = Stop => x.pc = Stop)
    BY <1>1, <2>3, Zenon
  <2>5. upd'[g].pc \in Leaving => flush[g] \in ToStop
    BY <2>2, <2>4, Zenon DEF Leaving
  <2>6. g \notin closed
    BY <1>1, <2>3, Zenon DEF TurnInv
  <2> QED BY <1>1, <2>3, <2>4, <2>5, <2>6, TurnWorker, Zenon DEF Alive
<1>4. CASE Announce(g)
  <2>1. /\ upd[g].pc \in {Operation, Nop} /\ upd' = [upd EXCEPT ![g] = Listening]
        /\ UNCHANGED <<closed, opt, flush>>
    BY <1>4, Zenon DEF Announce, queues
  <2>2. (\A h \in Gens \ {g} : upd'[h] = upd[h]) /\ upd'[g].pc = "recv"
    BY <1>1, <1>2, <2>1, Zenon
  <2>3. g \notin closed
    BY <1>1, <2>1, Zenon DEF TurnInv
  <2> QED BY <1>1, <2>1, <2>2, <2>3, TurnWorker, Zenon DEF Alive, Leaving
<1>5. CASE AnnounceStop(g) \/ UpdateExit(g)
  <2>1. /\ upd[g].pc \in {Stop, "left"} /\ UNCHANGED <<opt, flush>>
        /\ \/ upd' = [upd EXCEPT ![g].pc = "left"] /\ closed' = closed
           \/ upd' = [upd EXCEPT ![g].pc = "done"] /\ closed' = closed \cup {g}
    BY <1>5, Zenon DEF AnnounceStop, UpdateExit, Dropped, queues
  <2>2. /\ \A h \in Gens \ {g} : upd'[h] = upd[h]
        /\ upd'[g].pc \in {"left", "done"} /\ (upd'[g].pc = "left" => closed' = closed)
    BY <1>1, <2>1, Zenon DEF WorkerState
  <2>3. flush[g] \in ToStop /\ g < sender /\ g \notin closed
    BY <1>1, <2>1, Zenon DEF TurnInv, Leaving
  <2> QED BY <1>1, <2>1, <2>2, <2>3, TurnWorker, Zenon DEF Alive
<1>6. CASE OptReceive(g) \/ TaskEnds(g)
  <2>1. /\ UNCHANGED <<closed, upd, flush>>
        /\ opt' = opt \/ (opt[g] = "recv" /\ opt' = [opt EXCEPT ![g] = "done"])
    BY <1>6, Zenon DEF OptReceive, TaskEnds, queues
  <2>2. /\ \A h \in Gens \ {g} : opt'[h] = opt[h]
        /\ opt'[g] = opt[g] \/ (opt[g] = "recv" /\ opt'[g] = "done")
    BY <1>1, <2>1, Zenon
  <2>3. /\ upd[g].pc \in Leaving => flush[g] \in ToStop
        /\ g \in closed => upd[g].pc \in {"none", "done"}
    BY <1>1, Zenon DEF TurnInv
  <2> QED BY <1>1, <2>1, <2>2, <2>3, TurnWorker, Zenon DEF Alive
<1>7. CASE FlushExit(g)
  <2>1. UNCHANGED <<closed, upd, opt>> /\ flush[g] = "stopping" /\ flush' = [flush EXCEPT ![g] = "done"]
    BY <1>7, Zenon DEF FlushExit, queues
  <2>2. (\A h \in Gens \ {g} : flush'[h] = flush[h]) /\ flush'[g] = "done"
    BY <1>1, <2>1, Zenon
  <2>3. g \in closed => upd[g].pc \in {"none", "done"}
    BY <1>1, Zenon DEF TurnInv
  <2> QED BY <1>1, <2>1, <2>2, <2>3, TurnWorker, Zenon DEF Alive, ToStop
<1> QED BY <1>3, <1>4, <1>5, <1>6, <1>7, Zenon DEF UpdateWorker

LEMMA SwapSenderTurn == ASSUME QueueInv, NEW u \in Updaters, SwapSender(u) PROVE TurnInv'
<1>1. /\ \A v \in Updaters : updater[v].pc = "idle"
      /\ sender' = sender + 1 /\ UNCHANGED <<closed, upd, opt, flush>>
      /\ updater' = [updater EXCEPT ![u] = At("send_stop", sender, NoOp)]
      /\ updater \in [Updaters -> UpdaterState] /\ sender \in Gens /\ sender \in Nat /\ sender >= 1
      /\ closed \subseteq Gens /\ TurnInv
  BY DEF SwapSender, workers, QueueInv, QueueType, UpdaterState, Gens
<1>2. /\ updater'[u].pc = "send_stop" /\ updater'[u].gen = sender
      /\ \A v \in Updaters \ {u} : updater'[v].pc = "idle"
  BY <1>1, Zenon DEF At
<1>3. Acting = sender /\ Acting' = sender
  BY <1>1, <1>2, SMTT(30) DEF Acting, Replacing
<1>4. sender' \notin closed
  BY <1>1, SMTT(30) DEF TurnInv
<1>5. \A g \in Gens : Alive(g)' = Alive(g) /\ g \in Nat
  BY <1>1, SMTT(30) DEF Alive, Gens
<1>6. \A g \in Gens : flush[g] \in ToStop => g < sender
  BY <1>1, Zenon DEF TurnInv
<1>7. \A g \in Gens : flush[g] \in ToStop => g < sender' /\ g # sender
  BY <1>1, <1>5, <1>6, SMTT(30)
<1>8. \A g \in closed : g <= sender' /\ upd[g].pc \in {"none", "done"}
  <2>1. \A g \in closed : g \in Nat /\ g <= sender /\ upd[g].pc \in {"none", "done"}
    BY <1>1, <1>5, Zenon DEF TurnInv
  <2> QED BY <1>1, <2>1
<1>9. \A g \in Gens : /\ (upd[g].pc = "none") <=> (opt[g] = "none")
                      /\ (upd[g].pc = "none") <=> (flush[g] = "none")
                      /\ Alive(g) => g = Acting'
                      /\ g > Acting' => upd[g].pc = "none"
                      /\ g <= Acting' /\ upd[g].pc = "none" => g \in closed
                      /\ upd[g].pc \in Leaving => flush[g] \in ToStop
  BY <1>1, <1>3, Zenon DEF TurnInv
<1>10. \A g, h \in Gens : upd[g].pc = "none" /\ g < h => upd[h].pc = "none"
  BY <1>1, Zenon DEF TurnInv
<1>11. \A v \in Updaters : /\ updater'[v].pc \in {"send_stop", "wait"} => updater'[v].gen = sender' - 1 /\ sender' > 1
                           /\ updater'[v].pc # "idle" => v = u
  BY <1>1, <1>2
<1> QED BY <1>1, <1>2, <1>4, <1>5, <1>7, <1>8, <1>9, <1>10, <1>11, SMTT(30) DEF TurnInv

\* The one updater that is not idle.
LEMMA OneUpdater ==
    ASSUME QueueInv, NEW u \in Updaters, updater[u].pc \in {"send_stop", "wait"}
    PROVE  /\ updater[u].gen = sender - 1 /\ sender > 1 /\ sender \in Nat /\ sender \in Gens
           /\ updater[u].gen \in Gens /\ sender \notin closed
           /\ Acting = sender - 1 /\ \A v \in Updaters \ {u} : updater[v].pc = "idle"
           /\ \A g \in Gens : g \in Nat
<1>1. /\ updater[u].gen = sender - 1 /\ sender > 1 /\ sender \in Gens /\ sender \notin closed
      /\ \A v \in Updaters \ {u} : updater[v].pc = "idle"
  BY DEF QueueInv, QueueType, TurnInv
<1>2. sender \in Nat /\ sender - 1 \in Gens /\ \A g \in Gens : g \in Nat
  BY <1>1, QueueAssumption DEF Gens
<1>3. Acting = sender - 1
  BY Zenon DEF Acting, Replacing
<1> QED BY <1>1, <1>2, <1>3, Zenon

\* The old workers are told to stop.
LEMMA SendStopTurn ==
    ASSUME QueueInv, NEW u \in Updaters, updater[u].pc = "send_stop", updater[u].gen \notin closed,
           flush' = [flush EXCEPT ![updater[u].gen] = "stopping"],
           updater' = [updater EXCEPT ![u].pc = "wait"],
           UNCHANGED <<sender, closed, upd, opt>>
    PROVE  TurnInv'
<1> DEFINE g == updater[u].gen
<1>1. /\ g = sender - 1 /\ sender > 1 /\ sender \in Nat /\ g \in Gens /\ sender \notin closed
      /\ Acting = g /\ \A v \in Updaters \ {u} : updater[v].pc = "idle"
      /\ \A h \in Gens : h \in Nat
  BY OneUpdater, Zenon
<1>2. /\ updater \in [Updaters -> UpdaterState] /\ flush \in [Gens -> {"none", "sleep", "stopping", "done"}]
      /\ TurnInv
  BY Zenon DEF QueueInv, QueueType, UpdaterState
<1>3. /\ updater'[u].pc = "wait" /\ updater'[u].gen = g
      /\ \A v \in Updaters \ {u} : updater'[v] = updater[v]
  BY <1>2, Zenon DEF UpdaterState
<1>4. flush'[g] = "stopping" /\ \A h \in Gens \ {g} : flush'[h] = flush[h]
  BY <1>1, <1>2, Zenon
<1>5. Acting' = g
  BY <1>1, <1>3, Zenon DEF Acting, Replacing
<1> HIDE DEF g
<1>6. upd[g].pc # "none"
  <2>1. g <= Acting /\ g \notin closed
    BY <1>1 DEF g
  <2> QED BY <1>1, <1>2, <2>1, Zenon DEF TurnInv
<1>7. \A h \in Gens :
          /\ (upd[h].pc = "none") <=> (opt[h] = "none")
          /\ (upd[h].pc = "none") <=> (flush'[h] = "none")
          /\ h > Acting' => upd[h].pc = "none"
          /\ h <= Acting' /\ upd[h].pc = "none" => h \in closed
          /\ upd[h].pc \in Leaving => flush'[h] \in ToStop
  BY <1>1, <1>2, <1>4, <1>5, <1>6 DEF TurnInv, ToStop
<1>8. \A h \in Gens : Alive(h)' => h = Acting'
  <2> SUFFICES ASSUME NEW h \in Gens, Alive(h)', h # g PROVE FALSE
    BY <1>5, Zenon
  <2>1. Alive(h)
    BY <1>4, Zenon DEF Alive
  <2> QED BY <1>1, <1>2, <2>1, Zenon DEF TurnInv
<1>9. \A h \in Gens : flush'[h] \in ToStop => h < sender
  BY <1>1, <1>2, <1>4 DEF TurnInv
<1>10. \A v \in Updaters : updater'[v].pc # "send_stop" /\ (updater'[v].pc # "idle" => v = u)
  BY <1>1, <1>3
<1>11. /\ \A h \in closed : h <= sender /\ upd[h].pc \in {"none", "done"}
       /\ \A k, h \in Gens : upd[k].pc = "none" /\ k < h => upd[h].pc = "none"
  BY <1>2, Zenon DEF TurnInv
<1> QED BY <1>1, <1>3, <1>7, <1>8, <1>9, <1>10, <1>11 DEF TurnInv

\* The new queue is dropped because the old workers are not replaced.
LEMMA DropSenderTurn ==
    ASSUME QueueInv, NEW u \in Updaters, updater[u].pc \in {"send_stop", "wait"}, ~ Alive(updater[u].gen),
           closed' = closed \cup {sender}, updater' = [updater EXCEPT ![u] = Home],
           UNCHANGED <<sender, upd, opt, flush>>
    PROVE  TurnInv'
<1>1. /\ updater[u].gen = sender - 1 /\ sender > 1 /\ sender \in Nat /\ sender \in Gens
      /\ Acting = sender - 1 /\ \A v \in Updaters \ {u} : updater[v].pc = "idle"
      /\ \A h \in Gens : h \in Nat
  BY OneUpdater, Zenon
<1>2. updater \in [Updaters -> UpdaterState] /\ TurnInv
  BY Zenon DEF QueueInv, QueueType, UpdaterState
<1>3. \A v \in Updaters : updater'[v].pc = "idle"
  BY <1>1, <1>2, HomeIsState, Zenon
<1>4. Acting' = sender
  BY <1>3, Zenon DEF Acting, Replacing
<1>5. \A h \in Gens : ~ Alive(h)'
  BY <1>1, <1>2 DEF TurnInv, Alive
<1>6. upd[sender].pc = "none"
  BY <1>1, <1>2 DEF TurnInv
<1>7. \A h \in Gens :
          /\ (upd[h].pc = "none") <=> (opt[h] = "none")
          /\ (upd[h].pc = "none") <=> (flush[h] = "none")
          /\ upd[h].pc \in Leaving => flush[h] \in ToStop
          /\ flush[h] \in ToStop => h < sender
  BY <1>2, Zenon DEF TurnInv
<1>8. \A h \in Gens : /\ h > sender => upd[h].pc = "none"
                      /\ h <= sender /\ upd[h].pc = "none" => h \in closed'
  <2> SUFFICES ASSUME NEW h \in Gens
               PROVE  /\ h > sender => upd[h].pc = "none"
                      /\ h <= sender /\ upd[h].pc = "none" => h \in closed'
    BY Zenon
  <2>1. (h > sender => h > Acting) /\ (h <= sender => h <= Acting \/ h = sender)
    BY <1>1
  <2> QED BY <1>2, <2>1, Zenon DEF TurnInv
<1>9. /\ \A h \in closed' : h <= sender /\ upd[h].pc \in {"none", "done"}
      /\ \A k, h \in Gens : upd[k].pc = "none" /\ k < h => upd[h].pc = "none"
  BY <1>1, <1>2, <1>6 DEF TurnInv
<1> QED BY <1>3, <1>4, <1>5, <1>7, <1>8, <1>9, Zenon DEF TurnInv

\* The new workers start when the old ones are gone.
LEMMA RestartTurn == ASSUME QueueInv, NEW u \in Updaters, Restart(u) PROVE TurnInv'
<1> DEFINE g == updater[u].gen
<1>1. /\ updater[u].pc = "wait" /\ WorkersDone(g) /\ UNCHANGED <<sender, closed>>
      /\ upd' = [upd EXCEPT ![sender] = Listening] /\ opt' = [opt EXCEPT ![sender] = "recv"]
      /\ flush' = [flush EXCEPT ![sender] = "sleep"] /\ updater' = [updater EXCEPT ![u].pc = "send_nop"]
  BY Zenon DEF Restart, queues
<1>2. /\ g = sender - 1 /\ sender > 1 /\ sender \in Nat /\ sender \in Gens /\ sender \notin closed
      /\ g \in Gens /\ Acting = g /\ \A v \in Updaters \ {u} : updater[v].pc = "idle"
      /\ \A h \in Gens : h \in Nat
  BY <1>1, OneUpdater, Zenon
<1>3. /\ updater \in [Updaters -> UpdaterState] /\ flush \in [Gens -> {"none", "sleep", "stopping", "done"}]
      /\ upd \in [Gens -> WorkerState] /\ opt \in [Gens -> {"none", "recv", "done"}] /\ TurnInv
  BY Zenon DEF QueueInv, QueueType, UpdaterState, WorkerState
<1>4. updater'[u].pc = "send_nop" /\ \A v \in Updaters \ {u} : updater'[v].pc = "idle"
  BY <1>1, <1>2, <1>3, Zenon DEF UpdaterState
<1>5. /\ upd'[sender].pc = "recv" /\ opt'[sender] = "recv" /\ flush'[sender] = "sleep"
      /\ \A h \in Gens \ {sender} : upd'[h] = upd[h] /\ opt'[h] = opt[h] /\ flush'[h] = flush[h]
  BY <1>1, <1>2, <1>3, Zenon DEF Listening, Signal
<1>6. Acting' = sender
  BY <1>1, <1>4, Zenon DEF Acting, Replacing
<1>7. upd[g].pc = "done" /\ ~ Alive(g)
  BY <1>1, Zenon DEF WorkersDone, Alive
<1> HIDE DEF g
<1>8. \A h \in Gens :
          /\ (upd'[h].pc = "none") <=> (opt'[h] = "none")
          /\ (upd'[h].pc = "none") <=> (flush'[h] = "none")
          /\ upd'[h].pc \in Leaving => flush'[h] \in ToStop
          /\ flush'[h] \in ToStop => h < sender
  BY <1>3, <1>5 DEF TurnInv, Leaving, ToStop
<1>9. \A h \in Gens : Alive(h)' => h = sender
  <2> SUFFICES ASSUME NEW h \in Gens, Alive(h)', h # sender PROVE FALSE
    BY Zenon
  <2>1. Alive(h)
    BY <1>5, Zenon DEF Alive
  <2> QED BY <1>2, <1>3, <1>7, <2>1, Zenon DEF TurnInv
<1>10. ASSUME NEW h \in Gens
       PROVE  /\ h > sender => upd'[h].pc = "none"
              /\ h <= sender /\ upd'[h].pc = "none" => h \in closed
  <2>1. (h > sender => h > Acting) /\ (h <= sender => h <= Acting \/ h = sender)
    BY <1>2
  <2>2. (h > Acting => upd[h].pc = "none") /\ (h <= Acting /\ upd[h].pc = "none" => h \in closed)
    BY <1>3, Zenon DEF TurnInv
  <2>3. CASE h = sender
    <3>1. ~ (h > sender)
      BY <1>2, <2>3
    <3> QED BY <1>5, <2>3, <3>1, Zenon
  <2>4. CASE h # sender
    BY <1>5, <2>1, <2>2, <2>4, Zenon
  <2> QED BY <2>3, <2>4, Zenon
<1>11. \A h \in closed : h <= sender /\ upd'[h].pc \in {"none", "done"}
  <2>1. \A h \in closed : h \in Gens \ {sender}
    BY <1>2, Zenon DEF QueueInv, QueueType
  <2> QED BY <1>3, <1>5, <2>1, Zenon DEF TurnInv
<1>12. ASSUME NEW k \in Gens, NEW h \in Gens, upd'[k].pc = "none", k < h
       PROVE  upd'[h].pc = "none"
  <2>1. k # sender /\ upd[k].pc = "none"
    BY <1>5, <1>12, Zenon
  <2>2. ~ (k <= g)
    BY <1>2, <1>3, <1>7, <2>1 DEF TurnInv
  <2>3. h # sender
    BY <1>2, <1>12, <2>2
  <2> QED BY <1>3, <1>5, <1>12, <2>1, <2>3, SMTT(30) DEF TurnInv
<1> QED BY <1>1, <1>2, <1>4, <1>6, <1>8, <1>9, <1>10, <1>11, <1>12, SMTT(30) DEF TurnInv

\* Steps of the updaters.
LEMMA UpdaterTurn == ASSUME QueueInv, NEW u \in Updaters, SwapSender(u) \/ ConfigStep(u) PROVE TurnInv'
<1>1. CASE SwapSender(u)
  BY <1>1, SwapSenderTurn, Zenon
<1>2. CASE SendStop(u)
  <2>1. CASE updater[u].gen \notin closed
    BY <1>2, <2>1, SendStopTurn, Zenon DEF SendStop
  <2>2. CASE updater[u].gen \in closed
    <3>1. /\ updater[u].pc = "send_stop" /\ closed' = closed \cup {sender}
          /\ updater' = [updater EXCEPT ![u] = Home] /\ UNCHANGED <<sender, upd, opt, flush>>
      BY <1>2, <2>2, Zenon DEF SendStop, Dropped
    <3>2. ~ Alive(updater[u].gen)
      <4>1. updater[u].gen \in Gens
        BY <3>1, OneUpdater, Zenon
      <4>2. flush[updater[u].gen] \notin ToStop
        BY <3>1, <4>1, Zenon DEF QueueInv, TurnInv
      <4>3. upd[updater[u].gen].pc = "none"
        BY <2>2, <4>1, <4>2, Zenon DEF QueueInv, TurnInv, Leaving
      <4> QED BY <4>1, <4>3, Zenon DEF QueueInv, TurnInv, Alive
    <3> QED BY <3>1, <3>2, DropSenderTurn, Zenon
  <2> QED BY <2>1, <2>2, Zenon
<1>3. CASE Restart(u)
  BY <1>3, RestartTurn, Zenon
<1>4. CASE RestartFails(u)
  <2>1. /\ updater[u].pc = "wait" /\ closed' = closed \cup {sender} /\ ~ Alive(updater[u].gen)
        /\ updater' = [updater EXCEPT ![u] = Home] /\ UNCHANGED <<sender, upd, opt, flush>>
    BY <1>4, Zenon DEF RestartFails, Dropped, WorkersDone, Alive
  <2> QED BY <2>1, DropSenderTurn, Zenon
<1>5. CASE SendNop(u)
  <2>1. /\ updater[u].pc = "send_nop" /\ UNCHANGED <<sender, closed, upd, opt, flush>>
        /\ updater' = [updater EXCEPT ![u] = Home] /\ TurnInv
        /\ updater \in [Updaters -> UpdaterState]
    BY <1>5, Zenon DEF SendNop, workers, QueueInv, QueueType, UpdaterState
  <2>2. \A v \in Updaters : updater[v].pc # "idle" => v = u
    BY <2>1, Zenon DEF TurnInv
  <2>3. \A v \in Updaters : updater'[v].pc = "idle"
    BY <2>1, <2>2, HomeIsState, Zenon
  <2>4. Acting = sender /\ Acting' = sender
    BY <2>1, <2>2, <2>3, Zenon DEF Acting, Replacing
  <2>5. \A g \in Gens : Alive(g)' = Alive(g)
    BY <2>1, Zenon DEF Alive
  <2> QED BY <2>1, <2>3, <2>4, <2>5, Zenon DEF TurnInv
<1> QED BY <1>1, <1>2, <1>3, <1>4, <1>5, Zenon DEF ConfigStep

-----------------------------------------------------------------------------
(* Nothing is in a queue that is gone, and Stop is in no queue too early   *)

LEMMA StopSame ==
    ASSUME StopInv, UNCHANGED <<queue, closed>>, \A h \in Gens : flush[h] \in ToStop => flush'[h] \in ToStop
    PROVE  StopInv'
BY Zenon DEF StopInv

LEMMA StopSent ==
    ASSUME QueueType, StopInv, UNCHANGED closed, NEW g \in Gens, NEW x \in Signals, queue' = Sent(g, x),
           x.pc = Stop => flush'[g] \in ToStop,
           \A h \in Gens : flush[h] \in ToStop => flush'[h] \in ToStop
    PROVE  StopInv'
<1> SUFFICES ASSUME NEW h \in Gens
             PROVE  /\ h \in closed => queue'[h] = <<>>
                    /\ \A i \in 1 .. Len(queue'[h]) : queue'[h][i].pc = Stop => flush'[h] \in ToStop
  BY Zenon DEF StopInv
<1>1. CASE h # g \/ g \in closed
  <2>1. queue'[h] = queue[h]
    BY <1>1, SentQueue, Zenon
  <2> QED BY <2>1, Zenon DEF StopInv
<1>2. CASE h = g /\ g \notin closed
  <2>1. Len(queue[g]) \in Nat
    BY DEF QueueType
  <2>2. \A i \in 1 .. Len(queue'[g]) : i \in 1 .. Len(queue[g]) \/ i = Len(queue[g]) + 1
    BY <1>2, <2>1, SentQueue
  <2> QED BY <1>2, <2>2, SentQueue DEF StopInv
<1> QED BY <1>1, <1>2, Zenon

LEMMA StopDropped ==
    ASSUME QueueType, StopInv, NEW g \in Gens, Dropped(g), UNCHANGED flush
    PROVE  StopInv'
<1> SUFFICES ASSUME NEW h \in Gens
             PROVE  /\ h \in closed' => queue'[h] = <<>>
                    /\ \A i \in 1 .. Len(queue'[h]) : queue'[h][i].pc = Stop => flush'[h] \in ToStop
  BY Zenon DEF StopInv
<1>1. CASE h = g
  BY <1>1, DroppedQueue
<1>2. CASE h # g
  BY <1>2, DroppedQueue, Zenon DEF StopInv
<1> QED BY <1>1, <1>2, Zenon

LEMMA StopTaken ==
    ASSUME QueueType, StopInv, NEW g \in Gens, queue[g] # <<>>, queue' = [queue EXCEPT ![g] = Tail(@)],
           UNCHANGED <<closed, flush>>
    PROVE  StopInv'
<1> SUFFICES ASSUME NEW h \in Gens
             PROVE  /\ h \in closed => queue'[h] = <<>>
                    /\ \A i \in 1 .. Len(queue'[h]) : queue'[h][i].pc = Stop => flush[h] \in ToStop
  BY Zenon DEF StopInv
<1>1. CASE h = g
  <2>1. g \notin closed
    BY Zenon DEF StopInv
  <2>2. ASSUME NEW i \in 1 .. Len(queue'[g]), queue'[g][i].pc = Stop PROVE flush[g] \in ToStop
    <3>1. i + 1 \in 1 .. Len(queue[g]) /\ queue'[g][i] = queue[g][i + 1]
      BY TakenQueue, Zenon
    <3> QED BY <2>2, <3>1, Zenon DEF StopInv
  <2> QED BY <1>1, <2>1, <2>2, Zenon
<1>2. CASE h # g
  <2>1. queue'[h] = queue[h]
    BY <1>2, TakenQueue, Zenon
  <2> QED BY <2>1, Zenon DEF StopInv
<1> QED BY <1>1, <1>2, Zenon

\* Steps of the workers and of the updaters.
LEMMA WorkerStop ==
    ASSUME QueueInv, NEW g \in Gens,
           UpdateWorker(g) \/ OptReceive(g) \/ TaskEnds(g) \/ FlushExit(g)
    PROVE  StopInv'
<1>1. CASE UpdateReceive(g)
  BY <1>1, Received, StopTaken, Zenon DEF QueueInv
<1>2. CASE UpdateExit(g)
  BY <1>2, StopDropped, Zenon DEF UpdateExit, QueueInv
<1>3. CASE FlushExit(g)
  <2>1. UNCHANGED <<queue, closed>> /\ flush' = [flush EXCEPT ![g] = "done"]
    BY <1>3, Zenon DEF FlushExit, queues
  <2>2. \A h \in Gens : flush[h] \in ToStop => flush'[h] \in ToStop
    BY <2>1, Zenon DEF QueueInv, QueueType, ToStop
  <2> QED BY <2>1, <2>2, StopSame, Zenon DEF QueueInv
<1>4. CASE Announce(g) \/ AnnounceStop(g) \/ OptReceive(g) \/ TaskEnds(g)
  <2>1. UNCHANGED <<queue, closed, flush>>
    BY <1>4, Zenon DEF Announce, AnnounceStop, OptReceive, TaskEnds, queues
  <2> QED BY <2>1, StopSame, Zenon DEF QueueInv
<1> QED BY <1>1, <1>2, <1>3, <1>4, Zenon DEF UpdateWorker

LEMMA UpdaterStop == ASSUME QueueInv, NEW u \in Updaters, SwapSender(u) \/ ConfigStep(u) PROVE StopInv'
<1>1. sender \in Gens /\ QueueType /\ StopInv /\ flush \in [Gens -> {"none", "sleep", "stopping", "done"}]
  BY Zenon DEF QueueInv, QueueType
<1>2. /\ Signal(Stop, NoOp) \in Signals /\ Signal(Nop, NoOp) \in Signals /\ Signal(Nop, NoOp).pc # Stop
  BY QueueAssumption DEF Signal, Signals
<1>3. CASE SwapSender(u)
  <2>1. UNCHANGED <<queue, closed, flush>>
    BY <1>3, Zenon DEF SwapSender, workers
  <2> QED BY <1>1, <2>1, StopSame, Zenon
<1>4. CASE SendStop(u)
  <2>1. updater[u].gen \in Gens
    BY <1>4, OneUpdater, Zenon DEF SendStop
  <2>2. CASE updater[u].gen \notin closed
    <3>1. /\ queue' = Sent(updater[u].gen, Signal(Stop, NoOp)) /\ UNCHANGED closed
          /\ flush' = [flush EXCEPT ![updater[u].gen] = "stopping"]
      BY <1>4, <2>2, Zenon DEF SendStop
    <3>2. /\ flush'[updater[u].gen] \in ToStop
          /\ \A h \in Gens : flush[h] \in ToStop => flush'[h] \in ToStop
      BY <1>1, <2>1, <3>1, Zenon DEF ToStop
    <3> QED BY <1>1, <1>2, <2>1, <3>1, <3>2, StopSent, Zenon
  <2>3. CASE updater[u].gen \in closed
    <3>1. Dropped(sender) /\ UNCHANGED flush
      BY <1>4, <2>3, Zenon DEF SendStop
    <3> QED BY <1>1, <3>1, StopDropped, Zenon
  <2> QED BY <2>2, <2>3, Zenon
<1>5. CASE Restart(u)
  <2>1. UNCHANGED <<queue, closed>> /\ flush' = [flush EXCEPT ![sender] = "sleep"]
    BY <1>5, Zenon DEF Restart, queues
  <2>2. flush[sender] \notin ToStop
    BY <1>1 DEF QueueInv, TurnInv, Gens
  <2>3. \A h \in Gens : flush[h] \in ToStop => flush'[h] \in ToStop
    BY <1>1, <2>1, <2>2, Zenon
  <2> QED BY <1>1, <2>1, <2>3, StopSame, Zenon
<1>6. CASE RestartFails(u)
  BY <1>1, <1>6, StopDropped, Zenon DEF RestartFails
<1>7. CASE SendNop(u)
  <2>1. queue' = Sent(sender, Signal(Nop, NoOp)) /\ UNCHANGED <<closed, flush>>
    BY <1>7, Zenon DEF SendNop, workers
  <2> QED BY <1>1, <1>2, <2>1, StopSent, Zenon
<1> QED BY <1>3, <1>4, <1>5, <1>6, <1>7, Zenon DEF ConfigStep
=============================================================================
