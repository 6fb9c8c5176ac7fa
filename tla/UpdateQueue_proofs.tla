------------------------- MODULE UpdateQueue_proofs --------------------------
(***************************************************************************)
(* A proof of QueueInOrder for any number of clients, snapshotters,        *)
(* updaters, operations and generations: the workers of two queues never   *)
(* run at the same time, a queue is handled in the order of the WAL, and a *)
(* plunger is answered after everything that was sent before it.           *)
(***************************************************************************)
EXTENDS UpdateQueue_lemmas

USE DEF Stop, Nop, Operation, Plunger, NoGen, NoOp

-----------------------------------------------------------------------------
(* Operations are handled in order                                         *)

\* What WriteAndSend changes, with the number it gives to the operation.
LEMMA Writes ==
    ASSUME QueueInv, NEW c \in Clients, NEW wait \in BOOLEAN, WriteAndSend(c, wait)
    PROVE  /\ written + 1 \in OpNums /\ client[c].gen \in Gens /\ written \in Nat /\ written' = written + 1
           /\ via'[written + 1] = client[c].gen
           /\ \A m \in 1 .. written : m \in OpNums /\ via'[m] = via[m] /\ m < written + 1
           /\ \A m \in OpNums : m # written + 1 => via'[m] = via[m]
           /\ \A m \in 1 .. written' : m \in 1 .. written \/ m = written + 1
           /\ Signal(Operation, written + 1) \in Signals /\ Signal(Operation, written + 1).pc = Operation
           /\ Signal(Operation, written + 1).num = written + 1
           /\ queue' = Sent(client[c].gen, Signal(Operation, written + 1))
           /\ behind' = IF ToldToStop(client[c].gen) THEN behind \cup {written + 1} ELSE behind
           /\ UNCHANGED <<sender, closed, handled, snapshot, updater, upd, opt, flush>>
<1>1. /\ client[c].pc = "reserved" /\ written' = written + 1
      /\ via' = [via EXCEPT ![written + 1] = client[c].gen]
      /\ queue' = Sent(client[c].gen, Signal(Operation, written + 1))
      /\ behind' = IF ToldToStop(client[c].gen) THEN behind \cup {written + 1} ELSE behind
      /\ UNCHANGED <<sender, closed, handled, snapshot, updater, upd, opt, flush>>
  BY Zenon DEF WriteAndSend, workers
<1>2. /\ written + 1 \in OpNums /\ client[c].gen \in Gens /\ written \in Nat /\ written + 1 \in 0 .. MaxOps
      /\ via \in [OpNums -> 0 .. MaxGen]
  BY <1>1, NextNumber DEF QueueInv, QueueType
<1>3. \A m \in 1 .. written : m \in OpNums /\ m < written + 1
  BY <1>2, QueueAssumption DEF OpNums
<1>4. via'[written + 1] = client[c].gen /\ \A m \in OpNums : m # written + 1 => via'[m] = via[m]
  BY <1>1, <1>2, Zenon
<1>5. \A m \in 1 .. written : m # written + 1
  BY <1>2
<1>6. \A m \in 1 .. written' : m \in 1 .. written \/ m = written + 1
  BY <1>1, <1>2
<1>7. /\ Signal(Operation, written + 1) \in Signals /\ Signal(Operation, written + 1).pc = Operation
      /\ Signal(Operation, written + 1).num = written + 1
  BY <1>2, Zenon DEF Signal, Signals
<1> QED BY <1>1, <1>2, <1>3, <1>4, <1>5, <1>6, <1>7, Zenon

LEMMA WriteAndSendOps ==
    ASSUME QueueInv, NEW c \in Clients, NEW wait \in BOOLEAN, WriteAndSend(c, wait)
    PROVE  OpInv'
<1> DEFINE n == written + 1
           g == client[c].gen
           x == Signal(Operation, n)
<1>1. /\ n \in OpNums /\ g \in Gens /\ written \in Nat /\ written' = n /\ via'[n] = g
      /\ \A m \in 1 .. written : m \in OpNums /\ via'[m] = via[m] /\ m < n
      /\ \A m \in 1 .. written' : m \in 1 .. written \/ m = n
      /\ x \in Signals /\ x.pc = Operation /\ x.num = n /\ queue' = Sent(g, x)
      /\ UNCHANGED <<closed, handled>>
  BY Writes, Zenon
<1>2. QueueType /\ OpInv /\ handled \in Seq(OpNums)
  BY Zenon DEF QueueInv, QueueType
<1>3. \A m \in 1 .. written : m \in 1 .. written'
  BY <1>1
<1>4. n \in 1 .. written'
  BY <1>1
<1>5. \A m \in 1 .. written' : via'[m] \in Gens
  BY <1>1, <1>2, Zenon DEF OpInv
<1>6. \A k \in 1 .. Len(handled) : handled[k] \in 1 .. written
  BY <1>2, Zenon DEF OpInv
<1>7. OrderWithinQueue'
  <2>1. \A k \in DOMAIN handled : via'[handled[k]] = via[handled[k]]
    BY <1>1, <1>2, <1>6
  <2> QED BY <1>1, <1>2, <2>1 DEF OpInv, OrderWithinQueue
<1> HIDE DEF n, g, x
<1>8. ASSUME NEW h \in Gens, NEW i \in 1 .. Len(queue'[h]), queue'[h][i].pc = Operation,
             ~ (h = g /\ i = Len(queue[g]) + 1 /\ g \notin closed)
      PROVE  i \in 1 .. Len(queue[h]) /\ queue'[h][i] = queue[h][i]
  <2>1. Len(queue[h]) \in Nat
    BY <1>2 DEF QueueType
  <2>2. CASE h # g \/ g \in closed
    BY <1>1, <1>2, <2>2, SentQueue
  <2>3. CASE h = g /\ g \notin closed
    <3>1. i \in 1 .. Len(queue[h])
      BY <1>1, <1>2, <1>8, <2>1, <2>3, SentQueue
    <3> QED BY <1>1, <1>2, <2>3, <3>1, SentQueue
  <2> QED BY <2>2, <2>3, Zenon
<1>9. g \notin closed => queue'[g][Len(queue[g]) + 1] = x
  BY <1>1, <1>2, SentQueue, Zenon
<1>10. ASSUME NEW h \in Gens, NEW i \in 1 .. Len(queue'[h]), queue'[h][i].pc = Operation
       PROVE  /\ queue'[h][i].num \in 1 .. written' /\ via'[queue'[h][i].num] = h
              /\ \A k \in 1 .. Len(handled) : via'[handled[k]] = h => handled[k] < queue'[h][i].num
              /\ \A j \in 1 .. Len(queue'[h]) :
                    i < j /\ queue'[h][j].pc = Operation => queue'[h][i].num < queue'[h][j].num
  <2>1. CASE h = g /\ i = Len(queue[g]) + 1 /\ g \notin closed
    <3>1. queue'[h][i].num = n
      BY <1>1, <1>9, <2>1, Zenon
    <3>2. \A k \in 1 .. Len(handled) : handled[k] < n
      BY <1>1, <1>6, Zenon
    <3>3. \A j \in 1 .. Len(queue'[h]) : ~ (i < j)
      <4>1. Len(queue[g]) \in Nat /\ Len(queue'[g]) = Len(queue[g]) + 1
        BY <1>1, <1>2, <2>1, SentQueue, SMTT(30) DEF QueueType
      <4> QED BY <2>1, <4>1
    <3> QED BY <1>1, <1>4, <2>1, <3>1, <3>2, <3>3, Zenon
  <2>2. CASE ~ (h = g /\ i = Len(queue[g]) + 1 /\ g \notin closed)
    <3>1. i \in 1 .. Len(queue[h]) /\ queue'[h][i] = queue[h][i]
      BY <1>8, <1>10, <2>2, Zenon
    <3>2. /\ queue[h][i].num \in 1 .. written /\ via[queue[h][i].num] = h
          /\ \A k \in 1 .. Len(handled) : via[handled[k]] = h => handled[k] < queue[h][i].num
          /\ \A j \in 1 .. Len(queue[h]) :
                i < j /\ queue[h][j].pc = Operation => queue[h][i].num < queue[h][j].num
      BY <1>2, <1>10, <3>1, Zenon DEF OpInv
    <3>3. \A k \in 1 .. Len(handled) : via'[handled[k]] = h => handled[k] < queue'[h][i].num
      BY <1>1, <1>6, <3>1, <3>2, Zenon
    <3>4. ASSUME NEW j \in 1 .. Len(queue'[h]), i < j, queue'[h][j].pc = Operation
          PROVE  queue'[h][i].num < queue'[h][j].num
      <4>1. CASE h = g /\ j = Len(queue[g]) + 1 /\ g \notin closed
        BY <1>1, <1>9, <3>1, <3>2, <4>1, Zenon
      <4>2. CASE ~ (h = g /\ j = Len(queue[g]) + 1 /\ g \notin closed)
        <5>1. j \in 1 .. Len(queue[h]) /\ queue'[h][j] = queue[h][j]
          BY <1>8, <3>4, <4>2, Zenon
        <5> QED BY <3>1, <3>2, <3>4, <5>1, Zenon
      <4> QED BY <4>1, <4>2, Zenon
    <3> QED BY <1>1, <1>3, <3>1, <3>2, <3>3, <3>4, Zenon
  <2> QED BY <2>1, <2>2, Zenon
<1> QED BY <1>1, <1>3, <1>5, <1>6, <1>7, <1>10 DEF OpInv

LEMMA ReceiveOps == ASSUME QueueInv, NEW g \in Gens, UpdateReceive(g) PROVE OpInv'
<1> DEFINE x == queue[g][1]
<1>1. /\ queue[g] # <<>> /\ queue' = [queue EXCEPT ![g] = Tail(@)] /\ UNCHANGED <<written, via>>
      /\ 1 \in 1 .. Len(queue[g]) /\ Taken(g, x)
  BY Received, Zenon
<1>2. QueueType /\ OpInv /\ handled \in Seq(OpNums) /\ Len(handled) \in Nat
  BY DEF QueueInv, QueueType
<1>3. CASE handled' = handled
  BY <1>1, <1>2, <1>3, TakenIsShifted, OpKept, Zenon
<1>4. CASE x.pc = Operation /\ x.num \in OpNums /\ handled' = Append(handled, x.num)
  <2> DEFINE m == x.num
  <2>1. /\ m \in 1 .. written /\ via[m] = g
        /\ \A k \in 1 .. Len(handled) : via[handled[k]] = g => handled[k] < m
        /\ \A j \in 1 .. Len(queue[g]) : 1 < j /\ queue[g][j].pc = Operation => m < queue[g][j].num
    BY <1>1, <1>2, <1>4, Zenon DEF OpInv
  <2>2. /\ handled' \in Seq(OpNums) /\ Len(handled') = Len(handled) + 1 /\ handled'[Len(handled) + 1] = m
        /\ \A k \in 1 .. Len(handled) : handled'[k] = handled[k]
    BY <1>2, <1>4
  <2> HIDE DEF m, x
  <2>3. \A k \in 1 .. Len(handled') : k \in 1 .. Len(handled) \/ k = Len(handled) + 1
    BY <1>2, <2>2
  <2>4. \A k \in 1 .. Len(handled') : handled'[k] \in 1 .. written
    BY <1>2, <2>1, <2>2, <2>3, Zenon DEF OpInv
  <2>5. OrderWithinQueue'
    <3> SUFFICES ASSUME NEW i \in 1 .. Len(handled'), NEW j \in 1 .. Len(handled'), i < j,
                        via[handled'[i]] = via[handled'[j]]
                 PROVE  handled'[i] < handled'[j]
      BY <1>1, <2>2 DEF OrderWithinQueue
    <3>1. i \in 1 .. Len(handled) /\ handled'[i] = handled[i]
      BY <1>2, <2>2, <2>3
    <3>2. CASE j \in 1 .. Len(handled)
      BY <1>2, <2>2, <3>1, <3>2, SMTT(30) DEF OpInv, OrderWithinQueue
    <3>3. CASE j = Len(handled) + 1
      BY <2>1, <2>2, <3>1, <3>3, Zenon
    <3> QED BY <2>3, <3>2, <3>3, Zenon
  <2>6. ASSUME NEW h \in Gens, NEW i \in 1 .. Len(queue'[h]), queue'[h][i].pc = Operation
        PROVE  /\ queue'[h][i].num \in 1 .. written /\ via[queue'[h][i].num] = h
               /\ \A k \in 1 .. Len(handled') : via[handled'[k]] = h => handled'[k] < queue'[h][i].num
               /\ \A j \in 1 .. Len(queue'[h]) :
                     i < j /\ queue'[h][j].pc = Operation => queue'[h][i].num < queue'[h][j].num
    <3>1. CASE h # g
      <4>1. queue'[h] = queue[h]
        BY <1>1, <1>2, <3>1, TakenQueue, Zenon
      <4>2. /\ queue[h][i].num \in 1 .. written /\ via[queue[h][i].num] = h
            /\ \A k \in 1 .. Len(handled) : via[handled[k]] = h => handled[k] < queue[h][i].num
            /\ \A j \in 1 .. Len(queue[h]) :
                  i < j /\ queue[h][j].pc = Operation => queue[h][i].num < queue[h][j].num
        BY <1>2, <2>6, <4>1, Zenon DEF OpInv
      <4>3. \A k \in 1 .. Len(handled') : via[handled'[k]] = h => handled'[k] < queue[h][i].num
        BY <2>1, <2>2, <2>3, <3>1, <4>2, Zenon
      <4> QED BY <4>1, <4>2, <4>3, Zenon
    <3>2. CASE h = g
      <4>1. \A j \in 1 .. Len(queue'[g]) : j + 1 \in 1 .. Len(queue[g]) /\ queue'[g][j] = queue[g][j + 1]
        BY <1>1, <1>2, TakenQueue, Zenon
      <4>2. i + 1 \in 1 .. Len(queue[g]) /\ queue'[g][i] = queue[g][i + 1] /\ 1 < i + 1
        BY <3>2, <4>1
      <4>3. /\ queue[g][i + 1].num \in 1 .. written /\ via[queue[g][i + 1].num] = g
            /\ \A k \in 1 .. Len(handled) : via[handled[k]] = g => handled[k] < queue[g][i + 1].num
            /\ \A j \in 1 .. Len(queue[g]) :
                  i + 1 < j /\ queue[g][j].pc = Operation => queue[g][i + 1].num < queue[g][j].num
        BY <1>2, <2>6, <3>2, <4>2, Zenon DEF OpInv
      <4>4. m < queue[g][i + 1].num
        BY <2>1, <2>6, <3>2, <4>2, Zenon
      <4>5. \A k \in 1 .. Len(handled') : via[handled'[k]] = g => handled'[k] < queue[g][i + 1].num
        BY <2>2, <2>3, <4>3, <4>4, Zenon
      <4>6. ASSUME NEW j \in 1 .. Len(queue'[g]), i < j, queue'[g][j].pc = Operation
            PROVE  queue'[g][i].num < queue'[g][j].num
        <5>1. j + 1 \in 1 .. Len(queue[g]) /\ queue'[g][j] = queue[g][j + 1] /\ i + 1 < j + 1
          BY <3>2, <4>1, <4>6, SMTT(30)
        <5> QED BY <4>2, <4>3, <4>6, <5>1, Zenon
      <4> QED BY <3>2, <4>2, <4>3, <4>5, <4>6, Zenon
    <3> QED BY <3>1, <3>2, Zenon
  <2> QED BY <1>1, <1>2, <2>4, <2>5, <2>6, Zenon DEF OpInv
<1> QED BY <1>1, <1>3, <1>4, Zenon DEF Taken

-----------------------------------------------------------------------------
(* No operation is forgotten                                               *)

LEMMA WaitsStep ==
    ASSUME NEW n, via'[n] = via[n], Waits(n), upd'[via[n]].pc \notin Leaving,
           \A i \in 1 .. Len(queue[via[n]]) :
               i \in 1 .. Len(queue'[via[n]]) /\ queue'[via[n]][i] = queue[via[n]][i]
    PROVE  Waits(n)'
<1>1. PICK k \in 1 .. Len(queue[via[n]]) :
          /\ queue[via[n]][k] = Signal(Operation, n)
          /\ \A j \in 1 .. (k - 1) : queue[via[n]][j].pc # Stop
  BY Zenon DEF Waits
<1>2. k \in 1 .. Len(queue'[via[n]]) /\ queue'[via[n]][k] = Signal(Operation, n)
  BY <1>1, Zenon
<1>3. ASSUME NEW j \in 1 .. (k - 1) PROVE queue'[via[n]][j].pc # Stop
  <2>1. j \in 1 .. Len(queue[via[n]])
    BY <1>1
  <2> QED BY <1>1, <2>1, Zenon
<1> QED BY <1>2, <1>3, Zenon DEF Waits, Signal

LEMMA LostStep ==
    ASSUME NEW n, via'[n] = via[n], Lost(n), closed \subseteq closed',
           \A h \in Gens : upd[h].pc = "none" => upd'[h].pc = "none"
    PROVE  Lost(n)'
BY Zenon DEF Lost

LEMMA OwedKept ==
    ASSUME QueueInv, UNCHANGED <<written, via, behind>>, closed \subseteq closed',
           \A n \in 1 .. written : Handled(n) => Handled(n)',
           \A h \in Gens : upd[h].pc = "none" => upd'[h].pc = "none",
           \A n \in 1 .. written : ~ Handled(n)' /\ Waits(n) => Waits(n)' \/ Lost(n)'
    PROVE  OwedInv'
<1> SUFFICES ASSUME NEW n \in 1 .. written, n \notin behind, ~ Handled(n)' PROVE Waits(n)' \/ Lost(n)'
  BY Zenon DEF OwedInv
<1>1. Waits(n) \/ Lost(n)
  BY Zenon DEF QueueInv, OwedInv
<1>2. CASE Lost(n)
  BY <1>2, LostStep, Zenon
<1> QED BY <1>1, <1>2, Zenon

\* Steps that only add to the queues whose worker is not leaving.
LEMMA OwedGrows ==
    ASSUME QueueInv, UNCHANGED <<written, via, behind, handled>>, closed \subseteq closed',
           \A h \in Gens : upd[h].pc = "none" => upd'[h].pc = "none",
           \A h \in Gens : upd[h].pc \notin Leaving =>
               /\ upd'[h].pc \notin Leaving
               /\ \A i \in 1 .. Len(queue[h]) : i \in 1 .. Len(queue'[h]) /\ queue'[h][i] = queue[h][i]
    PROVE  OwedInv'
<1>1. ASSUME NEW n \in 1 .. written, Waits(n) PROVE Waits(n)'
  <2>1. via[n] \in Gens /\ upd[via[n]].pc \notin Leaving
    BY <1>1, Zenon DEF QueueInv, OpInv, Waits
  <2> QED BY <1>1, <2>1, WaitsStep, Zenon
<1>2. \A n \in 1 .. written : Handled(n) => Handled(n)'
  BY Zenon DEF Handled
<1> QED BY <1>1, <1>2, OwedKept, Zenon

\* A queue that only grows.
LEMMA SentGrows ==
    ASSUME QueueType, NEW g \in Gens, NEW x \in Signals, queue' = Sent(g, x), NEW h \in Gens
    PROVE  \A i \in 1 .. Len(queue[h]) : i \in 1 .. Len(queue'[h]) /\ queue'[h][i] = queue[h][i]
<1>1. Len(queue[h]) \in Nat
  BY DEF QueueType
<1>2. CASE h # g \/ g \in closed
  <2>1. queue'[h] = queue[h]
    BY <1>2, SentQueue, Zenon
  <2> QED BY <2>1, Zenon
<1>3. CASE h = g /\ g \notin closed
  BY <1>1, <1>3, SentQueue
<1> QED BY <1>2, <1>3, Zenon

LEMMA WriteAndSendOwed ==
    ASSUME QueueInv, NEW c \in Clients, NEW wait \in BOOLEAN, WriteAndSend(c, wait)
    PROVE  OwedInv'
<1>0. PICK n : n = written + 1
  BY Zenon
<1> DEFINE g == client[c].gen
           x == Signal(Operation, n)
<1>1. /\ n \in OpNums /\ g \in Gens /\ written \in Nat /\ via'[n] = g
      /\ \A m \in 1 .. written : via'[m] = via[m] /\ m < n
      /\ \A m \in 1 .. written' : m \in 1 .. written \/ m = n
      /\ x \in Signals /\ queue' = Sent(g, x)
      /\ behind' = IF ToldToStop(g) THEN behind \cup {n} ELSE behind
      /\ UNCHANGED <<closed, handled, upd>>
  BY <1>0, Writes, Zenon
<1>2. QueueType /\ Len(queue[g]) \in Nat
  BY <1>1, SMTT(30) DEF QueueInv, QueueType
<1> HIDE DEF g
<1>3. ASSUME NEW m \in 1 .. written, m \notin behind', ~ Handled(m)' PROVE Waits(m)' \/ Lost(m)'
  <2>1. m \notin behind /\ ~ Handled(m) /\ via'[m] = via[m] /\ via[m] \in Gens
    BY <1>1, <1>3, Zenon DEF Handled, QueueInv, OpInv
  <2>2. Waits(m) \/ Lost(m)
    BY <2>1, Zenon DEF QueueInv, OwedInv
  <2>3. CASE Waits(m)
    <3>1. upd'[via[m]].pc \notin Leaving
      BY <1>1, <2>3, Zenon DEF Waits
    <3>2. \A i \in 1 .. Len(queue[via[m]]) :
              i \in 1 .. Len(queue'[via[m]]) /\ queue'[via[m]][i] = queue[via[m]][i]
      BY <1>1, <1>2, <2>1, SentGrows, Zenon
    <3> QED BY <2>1, <2>3, <3>1, <3>2, WaitsStep, Zenon
  <2>4. CASE Lost(m)
    BY <1>1, <2>1, <2>4, LostStep, Zenon
  <2> QED BY <2>2, <2>3, <2>4, Zenon
<1>4. ASSUME n \notin behind' PROVE Waits(n)'
  <2>1. flush[g] \notin ToStop /\ g \notin closed
    BY <1>1, <1>4, Zenon DEF ToldToStop, ToStop
  <2>2. upd[g].pc \notin Leaving
    BY <1>1, <2>1, Zenon DEF QueueInv, TurnInv
  <2>3. \A j \in 1 .. Len(queue[g]) : queue[g][j].pc # Stop
    BY <1>1, <2>1, Zenon DEF QueueInv, StopInv
  <2>4. /\ Len(queue'[g]) = Len(queue[g]) + 1 /\ queue'[g][Len(queue[g]) + 1] = x
        /\ \A i \in 1 .. Len(queue[g]) : queue'[g][i] = queue[g][i]
    BY <1>1, <1>2, <2>1, SentQueue, Zenon
  <2> DEFINE k == Len(queue[g]) + 1
  <2>5. k \in 1 .. Len(queue'[g]) /\ \A j \in 1 .. (k - 1) : j \in 1 .. Len(queue[g])
    BY <1>2, <2>4
  <2>6. queue'[g][k] = Signal(Operation, n) /\ \A j \in 1 .. (k - 1) : queue'[g][j].pc # Stop
    BY <2>3, <2>4, <2>5, Zenon
  <2> HIDE DEF k
  <2>7. \E i \in 1 .. Len(queue'[g]) : /\ queue'[g][i] = Signal(Operation, n)
                                        /\ \A j \in 1 .. (i - 1) : queue'[g][j].pc # Stop
    BY <2>5, <2>6, Zenon
  <2> QED BY <1>1, <2>2, <2>7, Zenon DEF Waits, Signal
<1> QED BY <1>1, <1>3, <1>4, Zenon DEF OwedInv

LEMMA ReceiveOwed == ASSUME QueueInv, NEW g \in Gens, UpdateReceive(g) PROVE OwedInv'
<1> DEFINE x == queue[g][1]
<1>1. /\ upd[g].pc = "recv" /\ queue[g] # <<>> /\ queue' = [queue EXCEPT ![g] = Tail(@)]
      /\ UNCHANGED <<closed, written, via, behind>> /\ 1 \in 1 .. Len(queue[g]) /\ Taken(g, x)
  BY Received, Zenon
<1>2. QueueType /\ handled \in Seq(OpNums) /\ Len(handled) \in Nat /\ upd \in [Gens -> WorkerState]
  BY DEF QueueInv, QueueType, WorkerState
<1> HIDE DEF x
<1>3. \A h \in Gens \ {g} : upd'[h] = upd[h]
  BY <1>1, <1>2, Zenon DEF Taken
<1>4. x.pc # Stop => upd'[g].pc \notin Leaving
  BY <1>1, <1>2, Zenon DEF Taken, Leaving
<1>5. \A n \in 1 .. written : Handled(n) => Handled(n)'
  <2>1. handled' = handled \/ (x.num \in OpNums /\ handled' = Append(handled, x.num))
    BY <1>1, Zenon DEF Taken
  <2> QED BY <1>2, <2>1 DEF Handled
<1>6. x.pc = Operation => \E i \in DOMAIN handled' : handled'[i] = x.num
  <2> SUFFICES ASSUME x.pc = Operation PROVE \E i \in DOMAIN handled' : handled'[i] = x.num
    BY Zenon
  <2>1. x.num \in OpNums /\ handled' = Append(handled, x.num)
    BY <1>1, Zenon DEF Taken
  <2>2. Len(handled) + 1 \in DOMAIN handled' /\ handled'[Len(handled) + 1] = x.num
    BY <1>2, <2>1
  <2> QED BY <2>2, Zenon
<1>7. ASSUME NEW n \in 1 .. written, ~ Handled(n)', Waits(n) PROVE Waits(n)'
  <2>1. via[n] \in Gens /\ upd[via[n]].pc \notin Leaving /\ via'[n] = via[n]
    BY <1>1, <1>7, Zenon DEF QueueInv, OpInv, Waits
  <2>2. CASE via[n] # g
    <3>1. queue'[via[n]] = queue[via[n]] /\ upd'[via[n]] = upd[via[n]]
      BY <1>1, <1>2, <1>3, <2>1, <2>2, TakenQueue, Zenon
    <3> QED BY <1>7, <2>1, <3>1, WaitsStep, Zenon
  <2>3. CASE via[n] = g
    <3>1. PICK k \in 1 .. Len(queue[g]) : /\ queue[g][k] = Signal(Operation, n)
                                          /\ \A j \in 1 .. (k - 1) : queue[g][j].pc # Stop
      BY <1>7, <2>3, Zenon DEF Waits
    <3>2. k # 1
      <4> SUFFICES ASSUME k = 1 PROVE FALSE
        BY Zenon
      <4>1. x.pc = Operation /\ x.num = n
        BY <3>1 DEF Signal, x
      <4> QED BY <1>6, <1>7, <4>1, Zenon DEF Handled
    <3>3. x.pc # Stop
      BY <3>1, <3>2 DEF x
    <3>4. /\ Len(queue[g]) \in Nat /\ Len(queue'[g]) = Len(queue[g]) - 1
          /\ \A i \in 1 .. Len(queue'[g]) : i + 1 \in 1 .. Len(queue[g]) /\ queue'[g][i] = queue[g][i + 1]
      BY <1>1, <1>2, TakenQueue, Zenon
    <3>5. k - 1 \in 1 .. Len(queue'[g]) /\ (k - 1) + 1 = k
      BY <3>1, <3>2, <3>4
    <3>6. queue'[g][k - 1] = Signal(Operation, n)
      BY <3>1, <3>4, <3>5, Zenon
    <3>7. ASSUME NEW j \in 1 .. ((k - 1) - 1) PROVE queue'[g][j].pc # Stop
      <4>1. j \in 1 .. Len(queue'[g]) /\ j + 1 \in 1 .. (k - 1)
        BY <3>1, <3>4, <3>5
      <4> QED BY <3>1, <3>4, <4>1, Zenon
    <3>8. \E i \in 1 .. Len(queue'[g]) : /\ queue'[g][i] = Signal(Operation, n)
                                          /\ \A j \in 1 .. (i - 1) : queue'[g][j].pc # Stop
      BY <3>5, <3>6, <3>7, Zenon
    <3> QED BY <1>4, <2>1, <2>3, <3>3, <3>8, Zenon DEF Waits, Signal
  <2> QED BY <2>2, <2>3, Zenon
<1>8. \A h \in Gens : upd[h].pc = "none" => upd'[h].pc = "none"
  BY <1>1, <1>3, Zenon
<1> QED BY <1>1, <1>5, <1>7, <1>8, OwedKept, Zenon

LEMMA WorkerOwed ==
    ASSUME QueueInv, NEW g \in Gens,
           UpdateWorker(g) \/ OptReceive(g) \/ TaskEnds(g) \/ FlushExit(g)
    PROVE  OwedInv'
<1>1. QueueType /\ upd \in [Gens -> WorkerState]
  BY Zenon DEF QueueInv, QueueType, WorkerState
<1>2. CASE UpdateReceive(g)
  BY <1>2, ReceiveOwed, Zenon
<1>3. CASE Announce(g)
  <2>1. /\ UNCHANGED <<queue, closed, written, via, behind, handled>> /\ upd[g].pc \in {Operation, Nop}
        /\ upd' = [upd EXCEPT ![g] = Listening]
    BY <1>3, Zenon DEF Announce, queues, log
  <2>2. \A h \in Gens : /\ upd[h].pc = "none" => upd'[h].pc = "none"
                        /\ upd[h].pc \notin Leaving => upd'[h].pc \notin Leaving
    BY <1>1, <2>1, Zenon DEF Listening, Signal, Leaving
  <2> QED BY <2>1, <2>2, OwedGrows, Zenon
<1>4. CASE AnnounceStop(g)
  <2>1. /\ UNCHANGED <<queue, closed, written, via, behind, handled>> /\ upd[g].pc = Stop
        /\ upd' = [upd EXCEPT ![g].pc = "left"]
    BY <1>4, Zenon DEF AnnounceStop, queues, log
  <2>2. \A h \in Gens : /\ upd[h].pc = "none" => upd'[h].pc = "none"
                        /\ upd[h].pc \notin Leaving => upd'[h].pc \notin Leaving
    BY <1>1, <2>1, Zenon DEF Leaving
  <2> QED BY <2>1, <2>2, OwedGrows, Zenon
<1>5. CASE UpdateExit(g)
  <2>1. /\ UNCHANGED <<written, via, behind, handled>> /\ upd[g].pc = "left" /\ Dropped(g)
        /\ upd' = [upd EXCEPT ![g].pc = "done"]
    BY <1>5, Zenon DEF UpdateExit, log
  <2>2. closed \subseteq closed' /\ \A h \in Gens : h # g => queue'[h] = queue[h]
    BY <1>1, <2>1, DroppedQueue, Zenon
  <2>3. \A h \in Gens : /\ upd[h].pc = "none" => upd'[h].pc = "none"
                        /\ upd[h].pc \notin Leaving => h # g /\ upd'[h].pc \notin Leaving
    BY <1>1, <2>1, Zenon DEF Leaving
  <2> QED BY <2>1, <2>2, <2>3, OwedGrows, Zenon
<1>6. CASE OptReceive(g) \/ TaskEnds(g) \/ FlushExit(g)
  <2>1. UNCHANGED <<queue, closed, written, via, behind, handled, upd>>
    BY <1>6, Zenon DEF OptReceive, TaskEnds, FlushExit, queues, log
  <2> QED BY <2>1, OwedGrows, Zenon
<1> QED BY <1>2, <1>3, <1>4, <1>5, <1>6, Zenon DEF UpdateWorker

LEMMA DropSenderOwed ==
    ASSUME QueueInv, NEW u \in Updaters, updater[u].pc \in {"send_stop", "wait"},
           Dropped(sender), UNCHANGED <<written, via, behind, handled, upd>>
    PROVE  OwedInv'
<1>1. sender \in Gens /\ sender \in Nat /\ Acting = sender - 1 /\ \A h \in Gens : h \in Nat
  BY OneUpdater, Zenon
<1>2. /\ closed' = closed \cup {sender} /\ closed \subseteq closed'
      /\ \A h \in Gens : h # sender => queue'[h] = queue[h]
  BY <1>1, DroppedQueue, Zenon DEF QueueInv
<1>3. ASSUME NEW n \in 1 .. written, Waits(n) PROVE Waits(n)' \/ Lost(n)'
  <2>1. via[n] \in Gens /\ upd[via[n]].pc \notin Leaving
    BY <1>3, Zenon DEF QueueInv, OpInv, Waits
  <2>2. CASE via[n] = sender
    <3>1. \A h \in Gens : h >= sender => upd[h].pc = "none"
      BY <1>1 DEF QueueInv, TurnInv
    <3> QED BY <1>2, <2>2, <3>1, Zenon DEF Lost
  <2>3. CASE via[n] # sender
    BY <1>2, <1>3, <2>1, <2>3, WaitsStep, Zenon
  <2> QED BY <2>2, <2>3, Zenon
<1>4. \A n \in 1 .. written : Handled(n) => Handled(n)'
  BY Zenon DEF Handled
<1> QED BY <1>2, <1>3, <1>4, OwedKept, Zenon

LEMMA RestartOwed == ASSUME QueueInv, NEW u \in Updaters, Restart(u) PROVE OwedInv'
<1>1. /\ UNCHANGED <<queue, closed, written, via, behind, handled>> /\ updater[u].pc = "wait"
      /\ upd[updater[u].gen].pc = "done" /\ upd' = [upd EXCEPT ![sender] = Listening]
  BY Zenon DEF Restart, WorkersDone, queues, log
<1>2. /\ updater[u].gen = sender - 1 /\ sender \in Gens /\ sender \in Nat /\ updater[u].gen \in Gens
      /\ sender \notin closed /\ \A h \in Gens : h \in Nat
  BY <1>1, OneUpdater, Zenon
<1>3. upd \in [Gens -> WorkerState]
  BY Zenon DEF QueueInv, QueueType, WorkerState
<1>4. ASSUME NEW n \in 1 .. written, n \notin behind, ~ Handled(n) PROVE Waits(n)'
  <2>1. via[n] \in Gens
    BY <1>4, Zenon DEF QueueInv, OpInv
  <2>2. ~ Lost(n)
    <3> SUFFICES ASSUME Lost(n) PROVE FALSE
      BY Zenon
    <3>1. via[n] \in closed /\ ~ (sender - 1 >= via[n])
      BY <1>1, <1>2, Zenon DEF Lost
    <3>2. via[n] <= sender
      BY <3>1, Zenon DEF QueueInv, TurnInv
    <3>3. via[n] \in Nat /\ sender \in Nat
      BY <1>2, <2>1, Zenon
    <3>4. via[n] = sender
      BY <3>1, <3>2, <3>3
    <3> QED BY <1>2, <3>1, <3>4, Zenon
  <2>3. Waits(n)
    BY <1>4, <2>2, Zenon DEF QueueInv, OwedInv
  <2>4. upd'[via[n]].pc \notin Leaving
    BY <1>1, <1>2, <1>3, <2>1, <2>3, Zenon DEF Waits, Listening, Signal, Leaving
  <2> QED BY <1>1, <2>3, <2>4, WaitsStep, Zenon
<1> QED BY <1>1, <1>4, Zenon DEF OwedInv, Handled

LEMMA UpdaterOwed == ASSUME QueueInv, NEW u \in Updaters, SwapSender(u) \/ ConfigStep(u) PROVE OwedInv'
<1>1. sender \in Gens /\ QueueType
  BY Zenon DEF QueueInv, QueueType
<1>2. Signal(Stop, NoOp) \in Signals /\ Signal(Nop, NoOp) \in Signals
  BY QueueAssumption DEF Signal, Signals
<1>3. CASE SwapSender(u)
  <2>1. UNCHANGED <<queue, closed, written, via, behind, handled, upd>>
    BY <1>3, Zenon DEF SwapSender, workers, log
  <2> QED BY <2>1, OwedGrows, Zenon
<1>4. CASE SendStop(u)
  <2>1. updater[u].gen \in Gens /\ updater[u].pc = "send_stop" /\ UNCHANGED <<written, via, behind, handled, upd>>
    BY <1>4, OneUpdater, Zenon DEF SendStop, log
  <2>2. CASE updater[u].gen \notin closed
    <3>1. queue' = Sent(updater[u].gen, Signal(Stop, NoOp)) /\ UNCHANGED closed
      BY <1>4, <2>2, Zenon DEF SendStop
    <3>2. \A h \in Gens : \A i \in 1 .. Len(queue[h]) :
              i \in 1 .. Len(queue'[h]) /\ queue'[h][i] = queue[h][i]
      BY <1>1, <1>2, <2>1, <3>1, SentGrows, Zenon
    <3> QED BY <2>1, <3>1, <3>2, OwedGrows, Zenon
  <2>3. CASE updater[u].gen \in closed
    <3>1. Dropped(sender)
      BY <1>4, <2>3, Zenon DEF SendStop
    <3> QED BY <2>1, <3>1, DropSenderOwed, Zenon
  <2> QED BY <2>2, <2>3, Zenon
<1>5. CASE Restart(u)
  BY <1>5, RestartOwed, Zenon
<1>6. CASE RestartFails(u)
  BY <1>6, DropSenderOwed, Zenon DEF RestartFails, log
<1>7. CASE SendNop(u)
  <2>1. queue' = Sent(sender, Signal(Nop, NoOp)) /\ UNCHANGED <<closed, written, via, behind, handled, upd>>
    BY <1>7, Zenon DEF SendNop, workers, log
  <2>2. \A h \in Gens : \A i \in 1 .. Len(queue[h]) :
            i \in 1 .. Len(queue'[h]) /\ queue'[h][i] = queue[h][i]
    BY <1>1, <1>2, <2>1, SentGrows, Zenon
  <2> QED BY <2>1, <2>2, OwedGrows, Zenon
<1> QED BY <1>3, <1>4, <1>5, <1>6, <1>7, Zenon DEF ConfigStep

-----------------------------------------------------------------------------
(* A plunger is answered after everything sent before it                   *)

\* Where a signal of a queue comes from when x is sent to g.
LEMMA SentPlace ==
    ASSUME QueueType, NEW g \in Gens, NEW x \in Signals, queue' = Sent(g, x), g \notin closed,
           NEW h \in Gens, NEW i \in 1 .. Len(queue'[h])
    PROVE  \/ h = g /\ i = Len(queue[g]) + 1 /\ queue'[h][i] = x
           \/ i \in 1 .. Len(queue[h]) /\ queue'[h][i] = queue[h][i]
<1>1. Len(queue[h]) \in Nat
  BY DEF QueueType
<1>2. CASE h # g
  BY <1>2, SentQueue, Zenon
<1>3. CASE h = g
  <2>1. Len(queue'[g]) = Len(queue[g]) + 1 /\ queue'[g][Len(queue[g]) + 1] = x
    BY SentQueue, Zenon
  <2>2. i = Len(queue[g]) + 1 \/ i \in 1 .. Len(queue[g])
    BY <1>1, <1>3, <2>1, SMTT(30)
  <2> QED BY <1>3, <2>1, <2>2, SentQueue, Zenon
<1> QED BY <1>2, <1>3, Zenon

LEMMA PlungersSent ==
    ASSUME QueueType, PlungersWait, NEW g \in Gens, NEW x \in Signals, queue' = Sent(g, x), g \notin closed,
           \A h \in Gens : \A i \in 1 .. Len(queue[h]) : queue[h][i].pc = Plunger =>
               snapshot'[queue[h][i].num] = snapshot[queue[h][i].num],
           x.pc = Operation => \A i \in 1 .. Len(queue[g]) : queue[g][i].pc = Plunger =>
               snapshot[queue[g][i].num].num < x.num,
           x.pc = Plunger =>
               /\ x.num \in Snapshotters /\ snapshot'[x.num].pc = "waiting" /\ snapshot'[x.num].gen = g
               /\ \A i \in 1 .. Len(queue[g]) : queue[g][i].pc = Plunger => queue[g][i].num # x.num
    PROVE  PlungersWait'
<1> SUFFICES ASSUME NEW h \in Gens, NEW i \in 1 .. Len(queue'[h]), queue'[h][i].pc = Plunger
             PROVE  /\ queue'[h][i].num \in Snapshotters
                    /\ snapshot'[queue'[h][i].num].pc = "waiting" /\ snapshot'[queue'[h][i].num].gen = h
                    /\ \A j \in 1 .. Len(queue'[h]) :
                          /\ i # j /\ queue'[h][j].pc = Plunger => queue'[h][j].num # queue'[h][i].num
                          /\ i < j /\ queue'[h][j].pc = Operation =>
                                snapshot'[queue'[h][i].num].num < queue'[h][j].num
  BY Zenon DEF PlungersWait
<1>1. Len(queue[h]) \in Nat
  BY SMTT(30) DEF QueueType
<1>2. CASE h = g /\ i = Len(queue[g]) + 1 /\ queue'[h][i] = x
  <2>1. \A j \in 1 .. Len(queue'[h]) : i = j \/ (j \in 1 .. Len(queue[h]) /\ queue'[h][j] = queue[h][j])
    BY <1>2, SentPlace
  <2>2. \A j \in 1 .. Len(queue'[h]) : ~ (i < j)
    BY <1>1, <1>2, <2>1, SMTT(30)
  <2> QED BY <1>2, <2>1, <2>2, SMTT(60)
<1>3. CASE i \in 1 .. Len(queue[h]) /\ queue'[h][i] = queue[h][i]
  <2> DEFINE s == queue'[h][i].num
  <2>1. s \in Snapshotters /\ snapshot[s].pc = "waiting" /\ snapshot[s].gen = h /\ snapshot'[s] = snapshot[s]
    BY <1>3, SMTT(30) DEF PlungersWait
  <2>2. ASSUME NEW j \in 1 .. Len(queue'[h])
        PROVE  /\ i # j /\ queue'[h][j].pc = Plunger => queue'[h][j].num # s
               /\ i < j /\ queue'[h][j].pc = Operation => snapshot[s].num < queue'[h][j].num
    <3>1. CASE h = g /\ queue'[h][j] = x
      BY <1>3, <3>1, Zenon
    <3>2. CASE j \in 1 .. Len(queue[h]) /\ queue'[h][j] = queue[h][j]
      BY <1>3, <3>2 DEF PlungersWait
    <3> QED BY <3>1, <3>2, SentPlace, SMTT(30)
  <2> QED BY <2>1, <2>2, Zenon
<1> QED BY <1>2, <1>3, SentPlace, SMTT(30)

LEMMA WriteAndSendPlungers ==
    ASSUME QueueInv, NEW c \in Clients, NEW wait \in BOOLEAN, WriteAndSend(c, wait)
    PROVE  PlungerInv'
<1> DEFINE n == written + 1
           g == client[c].gen
           x == Signal(Operation, n)
<1>1. /\ n \in OpNums /\ g \in Gens /\ written \in Nat /\ written' = n
      /\ \A m \in OpNums : m # n => via'[m] = via[m]
      /\ x \in Signals /\ x.pc = Operation /\ x.num = n /\ queue' = Sent(g, x)
      /\ behind' = IF ToldToStop(g) THEN behind \cup {n} ELSE behind
      /\ UNCHANGED <<closed, handled, snapshot>>
  BY Writes, Zenon
<1>2. QueueType /\ PlungerInv /\ PlungersWait /\ snapshot \in [Snapshotters -> SnapshotState]
  BY Zenon DEF QueueInv, QueueType, PlungerInv, SnapshotState
<1>3. \A s \in Snapshotters :
          snapshot[s].num \in Nat /\ (snapshot[s].pc \in {"waiting", "copying"} => snapshot[s].num <= written)
  BY <1>2, QueueAssumption DEF PlungerInv, SnapshotState
<1> HIDE DEF n, g, x
<1>4. written < n /\ n \in Nat
  BY <1>1 DEF n
<1>5. PlungersWait'
  <2>1. CASE g \in closed
    <3>1. queue' = queue
      BY <1>1, <1>2, <2>1, SentQueue, Zenon
    <3> QED BY <1>1, <1>2, <3>1 DEF PlungersWait
  <2>2. CASE g \notin closed
    <3>1. ASSUME NEW i \in 1 .. Len(queue[g]), queue[g][i].pc = Plunger
          PROVE  snapshot[queue[g][i].num].num < x.num
      <4>1. queue[g][i].num \in Snapshotters /\ snapshot[queue[g][i].num].pc = "waiting"
        BY <1>1, <1>2, <3>1, SMTT(30) DEF PlungersWait
      <4> QED BY <1>1, <1>3, <1>4, <4>1, SMTT(30)
    <3> QED BY <1>1, <1>2, <2>2, <3>1, PlungersSent, Zenon
  <2> QED BY <2>1, <2>2, Zenon
<1>6. \A s \in Snapshotters : snapshot'[s].pc \in {"waiting", "copying"} => snapshot'[s].num <= written'
  BY <1>1, <1>3, <1>4
<1>7. PlungerCoversQueue'
  <2> SUFFICES ASSUME NEW s \in Snapshotters, NEW m \in OpNums, snapshot'[s].pc = "copying",
                      m <= snapshot'[s].num, via'[m] <= snapshot'[s].gen, m \notin behind'
               PROVE  Handled(m)'
    BY Zenon DEF PlungerCoversQueue
  <2>1. m # n /\ m \notin behind
    BY <1>1, <1>3, <1>4
  <2>2. Handled(m)
    BY <1>1, <1>2, <2>1, Zenon DEF PlungerInv, PlungerCoversQueue
  <2> QED BY <1>1, <2>2, Zenon DEF Handled
<1> QED BY <1>5, <1>6, <1>7, Zenon DEF PlungerInv

LEMMA SnapshotPlungers ==
    ASSUME QueueInv, NEW s \in Snapshotters, SnapshotStart(s) \/ SnapshotStep(s)
    PROVE  PlungerInv'
<1>1. /\ QueueType /\ PlungerInv /\ PlungersWait /\ snapshot \in [Snapshotters -> SnapshotState]
      /\ snapshot[s].pc # "idle" => snapshot[s].gen \in Gens
  BY Zenon DEF QueueInv, QueueType, PlungerInv, SnapshotState, CallerInv
<1>2. UNCHANGED <<closed, written, handled, via, behind>>
  BY Zenon DEF SnapshotStart, SnapshotStep, SendPlunger, PlungerLost, SnapshotEnd, log, queues
<1>3. \A n \in OpNums : Handled(n) => Handled(n)'
  BY <1>2, Zenon DEF Handled
<1>4. ASSUME queue' = queue, snapshot'[s].pc \in {"idle", "loaded"},
             \A t \in Snapshotters : t # s => snapshot'[t] = snapshot[t],
             snapshot[s].pc = "waiting" => snapshot[s].gen \in closed
      PROVE  PlungerInv'
  <2>1. snapshot[s].pc = "waiting" => queue'[snapshot[s].gen] = <<>> /\ snapshot[s].gen \in Gens
    BY <1>1, <1>4, Zenon DEF QueueInv, StopInv
  <2> QED BY <1>1, <1>2, <1>3, <1>4, <2>1, SameIsShifted, PlungerKept, Zenon
<1>5. Home.pc = "idle" /\ At("loaded", sender, NoOp).pc = "loaded"
  BY Zenon DEF Home, At
<1>6. CASE SnapshotStart(s)
  <2>1. snapshot' = [snapshot EXCEPT ![s] = At("loaded", sender, NoOp)] /\ queue' = queue /\ snapshot[s].pc = "idle"
    BY <1>6, Zenon DEF SnapshotStart, queues
  <2>2. /\ snapshot'[s].pc \in {"idle", "loaded"}
        /\ \A t \in Snapshotters : t # s => snapshot'[t] = snapshot[t]
    BY <1>1, <1>5, <2>1, Zenon
  <2> QED BY <1>4, <2>1, <2>2, Zenon
<1>7. CASE PlungerLost(s) \/ SnapshotEnd(s) \/ (SendPlunger(s) /\ snapshot[s].gen \in closed)
  <2>1. /\ snapshot' = [snapshot EXCEPT ![s] = Home] /\ queue' = queue
        /\ snapshot[s].pc = "waiting" => snapshot[s].gen \in closed
    BY <1>7, Zenon DEF PlungerLost, SnapshotEnd, SendPlunger, queues
  <2>2. /\ snapshot'[s].pc \in {"idle", "loaded"}
        /\ \A t \in Snapshotters : t # s => snapshot'[t] = snapshot[t]
    BY <1>1, <1>5, <2>1, Zenon
  <2> QED BY <1>4, <2>1, <2>2, Zenon
<1>8. CASE SendPlunger(s) /\ snapshot[s].gen \notin closed
  <2> DEFINE g == snapshot[s].gen
             x == Signal(Plunger, s)
             r == At("waiting", g, written)
  <2>1. /\ snapshot[s].pc = "loaded" /\ g \in Gens /\ g \notin closed
        /\ queue' = Sent(g, x) /\ snapshot' = [snapshot EXCEPT ![s] = r]
    BY <1>1, <1>8, Zenon DEF SendPlunger
  <2>2. /\ x \in Signals /\ x.pc = Plunger /\ x.num = s
        /\ r.pc = "waiting" /\ r.gen = g /\ r.num = written
    BY Zenon DEF Signal, Signals, At
  <2> HIDE DEF x, r
  <2>3. snapshot'[s] = r /\ \A t \in Snapshotters : t # s => snapshot'[t] = snapshot[t]
    BY <1>1, <2>1, Zenon
  <2> HIDE DEF g
  <2>4. \A h \in Gens : \A i \in 1 .. Len(queue[h]) : queue[h][i].pc = Plunger =>
            queue[h][i].num \in Snapshotters /\ queue[h][i].num # s
    BY <1>1, <2>1, SMTT(30) DEF PlungersWait
  <2>5. PlungersWait'
    BY <1>1, <2>1, <2>2, <2>3, <2>4, PlungersSent, SMTT(30)
  <2>6. \A t \in Snapshotters : snapshot'[t].pc \in {"waiting", "copying"} => snapshot'[t].num <= written'
    <3>1. written \in Nat
      BY <1>1, QueueAssumption DEF QueueType
    <3> QED BY <1>1, <1>2, <2>2, <2>3, <3>1, SMTT(30) DEF PlungerInv
  <2>7. PlungerCoversQueue'
    <3> SUFFICES ASSUME NEW t \in Snapshotters, NEW n \in OpNums, snapshot'[t].pc = "copying",
                        n <= snapshot'[t].num, via[n] <= snapshot'[t].gen, n \notin behind
                 PROVE  Handled(n)'
      BY <1>2, Zenon DEF PlungerCoversQueue
    <3>1. t # s /\ snapshot'[t] = snapshot[t]
      BY <2>2, <2>3, Zenon
    <3> QED BY <1>1, <1>3, <3>1, Zenon DEF PlungerInv, PlungerCoversQueue
  <2> QED BY <2>5, <2>6, <2>7, Zenon DEF PlungerInv
<1> QED BY <1>6, <1>7, <1>8, Zenon DEF SnapshotStep

\* A plunger at the head of a queue: what was sent before it has been handled.
LEMMA PlungerPressed ==
    ASSUME QueueInv, NEW g \in Gens, upd[g].pc = "recv", 1 \in 1 .. Len(queue[g]), queue[g][1].pc = Plunger,
           NEW n \in OpNums, n <= snapshot[queue[g][1].num].num, via[n] <= g, n \notin behind
    PROVE  Handled(n)
<1> DEFINE s == queue[g][1].num
<1>1. /\ s \in Snapshotters /\ snapshot[s].pc = "waiting"
      /\ \A j \in 1 .. Len(queue[g]) : 1 < j /\ queue[g][j].pc = Operation => snapshot[s].num < queue[g][j].num
  BY Zenon DEF QueueInv, PlungerInv, PlungersWait
<1>2. snapshot[s].num <= written /\ snapshot[s].num \in Nat /\ written \in Nat
  BY <1>1, QueueAssumption DEF QueueInv, PlungerInv, QueueType
<1> HIDE DEF s
<1>3. n \in 1 .. written /\ n \in Nat
  BY <1>2 DEF OpNums, s
<1>4. via[n] \in Gens
  BY <1>3, Zenon DEF QueueInv, OpInv
<1>5. ~ Lost(n)
  BY Zenon DEF Lost
<1>6. ASSUME Waits(n) PROVE FALSE
  <2>1. CASE via[n] = g
    <3>1. PICK k \in 1 .. Len(queue[g]) : queue[g][k] = Signal(Operation, n)
      BY <1>6, <2>1, Zenon DEF Waits
    <3>2. queue[g][k].pc = Operation /\ queue[g][k].num = n
      BY <3>1 DEF Signal
    <3>3. 1 < k
      BY <3>1, <3>2
    <3>4. snapshot[s].num < n
      BY <1>1, <3>1, <3>2, <3>3, Zenon
    <3> QED BY <1>2, <1>3, <3>4 DEF s
  <2>2. CASE via[n] # g
    <3>1. via[n] < g
      BY <1>4, <2>2, SMTT(30) DEF Gens
    <3>2. Alive(g) /\ g = Acting
      BY Zenon DEF Alive, QueueInv, TurnInv
    <3>3. ~ Alive(via[n])
      BY <1>4, <2>2, <3>2, Zenon DEF QueueInv, TurnInv
    <3>4. upd[via[n]].pc \in {"none", "done"}
      BY <3>3, Zenon DEF Alive
    <3>5. upd[via[n]].pc # "done"
      BY <1>6, Zenon DEF Waits, Leaving
    <3>6. upd[g].pc = "none"
      BY <1>4, <3>1, <3>4, <3>5, Zenon DEF QueueInv, TurnInv
    <3> QED BY <3>6, Zenon
  <2> QED BY <2>1, <2>2, Zenon
<1> QED BY <1>3, <1>5, <1>6, Zenon DEF QueueInv, OwedInv

LEMMA ReceivePlungers == ASSUME QueueInv, NEW g \in Gens, UpdateReceive(g) PROVE PlungerInv'
<1> DEFINE x == queue[g][1]
<1>1. /\ upd[g].pc = "recv" /\ queue[g] # <<>> /\ queue' = [queue EXCEPT ![g] = Tail(@)]
      /\ UNCHANGED <<closed, written, via, behind>> /\ 1 \in 1 .. Len(queue[g]) /\ Taken(g, x)
  BY Received, Zenon
<1>2. /\ QueueType /\ PlungerInv /\ PlungersWait /\ handled \in Seq(OpNums)
      /\ snapshot \in [Snapshotters -> SnapshotState]
  BY Zenon DEF QueueInv, QueueType, PlungerInv, SnapshotState
<1>3. Shifted
  BY <1>1, <1>2, TakenIsShifted, Zenon
<1>4. \A n \in OpNums : Handled(n) => Handled(n)'
  <2>1. handled' = handled \/ (x.num \in OpNums /\ handled' = Append(handled, x.num))
    BY <1>1, Zenon DEF Taken
  <2> QED BY <1>2, <2>1, SMTT(30) DEF Handled
<1>5. CASE x.pc # Plunger
  <2>1. snapshot' = snapshot
    BY <1>1, <1>5, Zenon DEF Taken
  <2> QED BY <1>1, <1>2, <1>3, <1>4, <2>1, PlungerKept, Zenon
<1>6. CASE x.pc = Plunger
  <2> DEFINE s == x.num
  <2>1. /\ s \in Snapshotters /\ snapshot' = [snapshot EXCEPT ![s].pc = "copying"]
        /\ snapshot[s].pc = "waiting" /\ snapshot[s].gen = g
    BY <1>1, <1>2, <1>6 DEF Taken, Pressed, PlungersWait
  <2>2. /\ snapshot'[s].pc = "copying" /\ snapshot'[s].gen = g /\ snapshot'[s].num = snapshot[s].num
        /\ \A t \in Snapshotters : t # s => snapshot'[t] = snapshot[t]
    BY <1>2, <2>1, Zenon DEF SnapshotState
  <2>3. ASSUME NEW h \in Gens, NEW i \in 1 .. Len(queue'[h]), queue'[h][i].pc = Plunger
        PROVE  snapshot'[queue'[h][i].num] = snapshot[queue'[h][i].num]
    <3>1. CASE h # g
      <4>1. queue'[h] = queue[h]
        BY <1>1, <1>2, <3>1, TakenQueue, Zenon
      <4>2. queue'[h][i].num \in Snapshotters /\ snapshot[queue'[h][i].num].gen = h
        BY <1>2, <2>3, <4>1, SMTT(30) DEF PlungersWait
      <4> QED BY <2>1, <2>2, <3>1, <4>2, Zenon
    <3>2. CASE h = g
      <4>1. i + 1 \in 1 .. Len(queue[g]) /\ queue'[g][i] = queue[g][i + 1]
        BY <1>1, <1>2, <3>2, TakenQueue, Zenon
      <4>2. i + 1 # 1
        BY SMTT(30)
      <4>3. queue[g][i + 1].num \in Snapshotters /\ queue[g][i + 1].num # s
        <5>1. queue[g][i + 1].pc = Plunger
          BY <2>3, <3>2, <4>1, Zenon
        <5>2. /\ queue[g][i + 1].num \in Snapshotters
              /\ \A j \in 1 .. Len(queue[g]) :
                    i + 1 # j /\ queue[g][j].pc = Plunger => queue[g][j].num # queue[g][i + 1].num
          BY <1>2, <4>1, <5>1, ZenonT(30) DEF PlungersWait
        <5> QED BY <1>1, <1>6, <4>2, <5>2, Zenon
      <4> QED BY <2>2, <3>2, <4>1, <4>3, Zenon
    <3> QED BY <3>1, <3>2, Zenon
  <2>4. PlungersWait'
    BY <1>2, <1>3, <2>3, PlungersMoved, Zenon
  <2>5. \A t \in Snapshotters : snapshot'[t].pc \in {"waiting", "copying"} => snapshot'[t].num <= written'
    BY <1>1, <1>2, <2>1, <2>2, Zenon DEF PlungerInv
  <2>6. PlungerCoversQueue'
    <3> SUFFICES ASSUME NEW t \in Snapshotters, NEW n \in OpNums, snapshot'[t].pc = "copying",
                        n <= snapshot'[t].num, via[n] <= snapshot'[t].gen, n \notin behind
                 PROVE  Handled(n)
      BY <1>1, <1>4, Zenon DEF PlungerCoversQueue
    <3>1. CASE t # s
      BY <1>2, <2>2, <3>1, Zenon DEF PlungerInv, PlungerCoversQueue
    <3>2. CASE t = s
      <4>1. n <= snapshot[s].num /\ via[n] <= g
        BY <2>2, <3>2, Zenon
      <4> QED BY <1>1, <1>6, <4>1, PlungerPressed, Zenon
    <3> QED BY <3>1, <3>2, Zenon
  <2> QED BY <2>4, <2>5, <2>6, Zenon DEF PlungerInv
<1> QED BY <1>5, <1>6, Zenon

-----------------------------------------------------------------------------
(* The invariant holds                                                     *)

\* Steps that leave the queues and the operations alone, but for a queue that is
\* dropped or that Stop or Nop is sent to.
LEMMA RestKept ==
    ASSUME QueueInv, Shifted, UNCHANGED <<written, handled, via, behind, snapshot>>
    PROVE  OpInv' /\ PlungerInv'
<1>1. OpInv'
  BY OpKept, Zenon DEF QueueInv
<1>2. PlungerInv'
  BY PlungerKept, Zenon DEF QueueInv, Handled
<1> QED BY <1>1, <1>2, Zenon

LEMMA WorkerRest ==
    ASSUME QueueInv, NEW g \in Gens,
           UpdateWorker(g) \/ OptReceive(g) \/ TaskEnds(g) \/ FlushExit(g)
    PROVE  OpInv' /\ PlungerInv'
<1>1. CASE UpdateReceive(g)
  BY <1>1, ReceiveOps, ReceivePlungers, Zenon
<1>2. CASE UpdateExit(g)
  <2>1. Dropped(g) /\ UNCHANGED <<written, handled, via, behind, snapshot>>
    BY <1>2, Zenon DEF UpdateExit, log
  <2> QED BY <2>1, DroppedIsShifted, RestKept, Zenon DEF QueueInv
<1>3. CASE Announce(g) \/ AnnounceStop(g) \/ OptReceive(g) \/ TaskEnds(g) \/ FlushExit(g)
  <2>1. UNCHANGED <<queue, written, handled, via, behind, snapshot>>
    BY <1>3, Zenon DEF Announce, AnnounceStop, OptReceive, TaskEnds, FlushExit, queues, log
  <2> QED BY <2>1, SameIsShifted, RestKept, Zenon
<1> QED BY <1>1, <1>2, <1>3, Zenon DEF UpdateWorker

LEMMA UpdaterRest ==
    ASSUME QueueInv, NEW u \in Updaters, SwapSender(u) \/ ConfigStep(u)
    PROVE  OpInv' /\ PlungerInv'
<1>1. sender \in Gens /\ QueueType
  BY Zenon DEF QueueInv, QueueType
<1>2. /\ Signal(Stop, NoOp) \in Signals /\ Signal(Stop, NoOp).pc = Stop
      /\ Signal(Nop, NoOp) \in Signals /\ Signal(Nop, NoOp).pc = Nop
  BY QueueAssumption DEF Signal, Signals
<1>3. UNCHANGED <<written, handled, via, behind, snapshot>>
  BY Zenon DEF SwapSender, ConfigStep, SendStop, Restart, RestartFails, SendNop, log
<1>4. CASE SwapSender(u) \/ Restart(u)
  <2>1. queue' = queue
    BY <1>4, Zenon DEF SwapSender, Restart, queues
  <2> QED BY <1>3, <2>1, SameIsShifted, RestKept, Zenon
<1>5. CASE SendStop(u)
  <2>1. updater[u].gen \in Gens
    BY <1>5, OneUpdater, Zenon DEF SendStop
  <2>2. CASE updater[u].gen \notin closed
    <3>1. queue' = Sent(updater[u].gen, Signal(Stop, NoOp))
      BY <1>5, <2>2, Zenon DEF SendStop
    <3>2. Shifted
      BY <1>1, <1>2, <2>1, <3>1, SentIsShifted, Zenon
    <3> QED BY <1>3, <3>2, RestKept, Zenon
  <2>3. CASE updater[u].gen \in closed
    <3>1. Dropped(sender)
      BY <1>5, <2>3, Zenon DEF SendStop
    <3> QED BY <1>1, <1>3, <3>1, DroppedIsShifted, RestKept, Zenon
  <2> QED BY <2>2, <2>3, Zenon
<1>6. CASE RestartFails(u)
  <2>1. Dropped(sender)
    BY <1>6, Zenon DEF RestartFails
  <2> QED BY <1>1, <1>3, <2>1, DroppedIsShifted, RestKept, Zenon
<1>7. CASE SendNop(u)
  <2>1. queue' = Sent(sender, Signal(Nop, NoOp))
    BY <1>7, Zenon DEF SendNop
  <2>2. Shifted
    BY <1>1, <1>2, <2>1, SentIsShifted, Zenon
  <2> QED BY <1>3, <2>2, RestKept, Zenon
<1> QED BY <1>4, <1>5, <1>6, <1>7, Zenon DEF ConfigStep

LEMMA ClientKeeps ==
    ASSUME QueueInv, NEW c \in Clients, LoadSender(c) \/ ClientStep(c)
    PROVE  QueueInv'
<1>1. CASE LoadSender(c) \/ Reserve(c) \/ ResultLost(c)
  <2>1. UNCHANGED <<sender, queue, closed, written, handled, via, behind, snapshot, updater, upd, opt, flush>>
    BY <1>1, Zenon DEF LoadSender, Reserve, ResultLost, queues, log, workers
  <2>2. QueueType' /\ CallerInv'
    BY <1>1, LoadSenderType, ReserveType, ResultLostType, Zenon
  <2>3. TurnInv' /\ StopInv'
    BY <2>1, TurnSame, StopSame, Zenon DEF QueueInv
  <2>4. OwedInv'
    BY <2>1, OwedGrows, Zenon
  <2>5. OpInv' /\ PlungerInv'
    BY <2>1, SameIsShifted, RestKept, Zenon
  <2> QED BY <2>2, <2>3, <2>4, <2>5, Zenon DEF QueueInv
<1>2. CASE \E wait \in BOOLEAN : WriteAndSend(c, wait)
  <2>1. PICK wait \in BOOLEAN : WriteAndSend(c, wait)
    BY <1>2, Zenon
  <2>2. QueueType' /\ CallerInv' /\ OpInv' /\ OwedInv' /\ PlungerInv'
    BY <2>1, WriteAndSendType, WriteAndSendOps, WriteAndSendOwed, WriteAndSendPlungers, Zenon
  <2> DEFINE x == Signal(Operation, written + 1)
  <2>3. /\ client[c].gen \in Gens /\ x \in Signals /\ x.pc = Operation /\ queue' = Sent(client[c].gen, x)
        /\ UNCHANGED <<sender, closed, updater, upd, opt, flush>>
    BY <2>1, Writes, Zenon
  <2> HIDE DEF x
  <2>4. TurnInv'
    BY <2>3, TurnSame, Zenon DEF QueueInv
  <2>5. StopInv'
    BY <2>3, StopSent, Zenon DEF QueueInv
  <2> QED BY <2>2, <2>4, <2>5, Zenon DEF QueueInv
<1> QED BY <1>1, <1>2, Zenon DEF ClientStep

LEMMA SnapshotKeeps ==
    ASSUME QueueInv, NEW s \in Snapshotters, SnapshotStart(s) \/ SnapshotStep(s)
    PROVE  QueueInv'
<1>1. QueueType' /\ CallerInv' /\ PlungerInv'
  BY SnapshotType, SnapshotPlungers, Zenon
<1>2. UNCHANGED <<sender, closed, written, handled, via, behind, updater, upd, opt, flush>>
  BY Zenon DEF SnapshotStart, SnapshotStep, SendPlunger, PlungerLost, SnapshotEnd, queues, log, workers
<1>3. TurnInv'
  BY <1>2, TurnSame, Zenon DEF QueueInv
<1>4. CASE queue' = queue
  <2>1. StopInv'
    BY <1>2, <1>4, StopSame, Zenon DEF QueueInv
  <2>2. OwedInv'
    BY <1>2, <1>4, OwedGrows, Zenon
  <2>3. OpInv'
    BY <1>2, <1>4, SameIsShifted, OpKept, Zenon DEF QueueInv
  <2> QED BY <1>1, <1>3, <2>1, <2>2, <2>3, Zenon DEF QueueInv
<1>5. CASE queue' # queue
  <2> DEFINE g == snapshot[s].gen
             x == Signal(Plunger, s)
  <2>1. snapshot[s].pc = "loaded" /\ g \notin closed /\ queue' = Sent(g, x)
    BY <1>5, Zenon DEF SnapshotStart, SnapshotStep, SendPlunger, PlungerLost, SnapshotEnd, queues
  <2>2. g \in Gens /\ QueueType /\ OpInv
    BY <2>1, Zenon DEF QueueInv, CallerInv
  <2>3. x \in Signals /\ x.pc = Plunger
    BY Zenon DEF Signal, Signals
  <2> HIDE DEF g, x
  <2>4. StopInv'
    BY <1>2, <2>1, <2>2, <2>3, StopSent, Zenon DEF QueueInv
  <2>5. OwedInv'
    <3>1. \A h \in Gens : \A i \in 1 .. Len(queue[h]) :
              i \in 1 .. Len(queue'[h]) /\ queue'[h][i] = queue[h][i]
      BY <2>1, <2>2, <2>3, SentGrows, Zenon
    <3> QED BY <1>2, <3>1, OwedGrows, Zenon
  <2>6. OpInv'
    <3>1. \A h \in Gens : \A i \in 1 .. Len(queue'[h]) : queue'[h][i].pc = Operation =>
              i \in 1 .. Len(queue[h]) /\ queue'[h][i] = queue[h][i]
      BY <2>1, <2>2, <2>3, SentPlace, ZenonT(30)
    <3>2. OrderWithinQueue'
      BY <1>2, <2>2, Zenon DEF OpInv, OrderWithinQueue
    <3>3. ASSUME NEW h \in Gens, NEW i \in 1 .. Len(queue'[h]), queue'[h][i].pc = Operation
          PROVE  /\ queue'[h][i].num \in 1 .. written' /\ via'[queue'[h][i].num] = h
                 /\ \A k \in 1 .. Len(handled') : via'[handled'[k]] = h => handled'[k] < queue'[h][i].num
                 /\ \A j \in 1 .. Len(queue'[h]) :
                       i < j /\ queue'[h][j].pc = Operation => queue'[h][i].num < queue'[h][j].num
      <4>1. i \in 1 .. Len(queue[h]) /\ queue'[h][i] = queue[h][i]
        BY <3>1, <3>3, Zenon
      <4>2. /\ queue[h][i].num \in 1 .. written /\ via[queue[h][i].num] = h
            /\ \A k \in 1 .. Len(handled) : via[handled[k]] = h => handled[k] < queue[h][i].num
            /\ \A j \in 1 .. Len(queue[h]) :
                  i < j /\ queue[h][j].pc = Operation => queue[h][i].num < queue[h][j].num
        BY <2>2, <3>3, <4>1, Zenon DEF OpInv
      <4>3. ASSUME NEW j \in 1 .. Len(queue'[h]), i < j, queue'[h][j].pc = Operation
            PROVE  queue'[h][i].num < queue'[h][j].num
        BY <3>1, <4>1, <4>2, <4>3, Zenon
      <4> QED BY <1>2, <4>1, <4>2, <4>3, Zenon
    <3> QED BY <1>2, <2>2, <3>2, <3>3, Zenon DEF OpInv
  <2> QED BY <1>1, <1>3, <2>4, <2>5, <2>6, Zenon DEF QueueInv
<1> QED BY <1>4, <1>5, Zenon

LEMMA QueueStep == QueueInv /\ [Next]_vars => QueueInv'
<1> SUFFICES ASSUME QueueInv, [Next]_vars PROVE QueueInv'
  BY Zenon
<1>1. CASE \E c \in Clients : LoadSender(c) \/ ClientStep(c)
  BY <1>1, ClientKeeps, Zenon
<1>2. CASE \E s \in Snapshotters : SnapshotStart(s) \/ SnapshotStep(s)
  BY <1>2, SnapshotKeeps, Zenon
<1>3. ASSUME NEW g \in Gens, UpdateWorker(g) \/ OptReceive(g) \/ TaskEnds(g) \/ FlushExit(g)
      PROVE  QueueInv'
  BY <1>3, WorkerType, WorkerTurn, WorkerStop, WorkerOwed, WorkerRest, Zenon DEF QueueInv
<1>4. ASSUME NEW u \in Updaters, SwapSender(u) \/ ConfigStep(u)
      PROVE  QueueInv'
  BY <1>4, UpdaterType, UpdaterTurn, UpdaterStop, UpdaterOwed, UpdaterRest, Zenon DEF QueueInv
<1>5. CASE UNCHANGED vars
  <2>1. /\ UNCHANGED <<sender, queue, closed, written, handled, via, behind>>
        /\ UNCHANGED <<client, snapshot, updater, upd, opt, flush>>
    BY <1>5, Zenon DEF vars, queues, log, workers
  <2>2. QueueType' /\ CallerInv'
    BY <2>1, Zenon DEF QueueInv, QueueType, CallerInv, Holding
  <2>3. TurnInv' /\ StopInv'
    BY <2>1, TurnSame, StopSame, Zenon DEF QueueInv
  <2>4. OwedInv'
    BY <2>1, OwedGrows, Zenon
  <2>5. OpInv' /\ PlungerInv'
    BY <2>1, SameIsShifted, RestKept, Zenon
  <2> QED BY <2>2, <2>3, <2>4, <2>5, Zenon DEF QueueInv
<1> QED BY <1>1, <1>2, <1>3, <1>4, <1>5, Zenon DEF Next

LEMMA QueueInit == Init => QueueInv
<1> SUFFICES ASSUME Init PROVE QueueInv
  BY Zenon
<1> USE QueueAssumption
<1>1. /\ sender = 1 /\ queue = [g \in Gens |-> <<>>] /\ closed = {} /\ written = 0 /\ handled = <<>>
      /\ via = [n \in OpNums |-> NoGen] /\ client = [c \in Clients |-> Home]
      /\ snapshot = [s \in Snapshotters |-> Home] /\ updater = [u \in Updaters |-> Home]
      /\ upd = [g \in Gens |-> IF g = 1 THEN Listening ELSE Absent]
      /\ opt = [g \in Gens |-> IF g = 1 THEN "recv" ELSE "none"]
      /\ flush = [g \in Gens |-> IF g = 1 THEN "sleep" ELSE "none"]
  BY Zenon DEF Init
<1>2. /\ Home \in ClientState /\ Home \in SnapshotState /\ Home \in UpdaterState /\ Home.pc = "idle"
      /\ Listening \in WorkerState /\ Absent \in WorkerState
      /\ Listening.pc = "recv" /\ Absent.pc = "none"
  BY HomeIsState DEF Listening, Absent, Signal, WorkerState
<1>3. 1 \in Gens /\ 0 \in 0 .. MaxGen /\ 0 \in 0 .. MaxOps /\ \A g \in Gens : g \in Nat /\ g >= 1
  BY DEF Gens
<1>4. QueueType
  <2>1. queue \in [Gens -> Seq(Signals)] /\ handled \in Seq(OpNums) /\ via \in [OpNums -> 0 .. MaxGen]
    BY <1>1, <1>3
  <2>2. /\ client \in [Clients -> ClientState] /\ snapshot \in [Snapshotters -> SnapshotState]
        /\ updater \in [Updaters -> UpdaterState]
    BY <1>1, <1>2, Zenon
  <2>3. /\ upd \in [Gens -> WorkerState] /\ opt \in [Gens -> {"none", "recv", "done"}]
        /\ flush \in [Gens -> {"none", "sleep", "stopping", "done"}]
    BY <1>1, <1>2, Zenon
  <2> QED BY <1>1, <1>3, <2>1, <2>2, <2>3, Zenon
          DEF QueueType, ClientState, SnapshotState, UpdaterState, WorkerState
<1>5. CallerInv
  <2>1. Holding = {}
    BY <1>1, <1>2, Zenon DEF Holding
  <2>2. Cardinality(Holding) = 0
    BY <2>1, FS_EmptySet, Zenon
  <2> QED BY <1>1, <1>2, <2>2 DEF CallerInv
<1>6. \A g \in Gens :
          /\ queue[g] = <<>> /\ Len(queue[g]) = 0
          /\ upd[g].pc = (IF g = 1 THEN "recv" ELSE "none")
          /\ opt[g] = (IF g = 1 THEN "recv" ELSE "none")
          /\ flush[g] = (IF g = 1 THEN "sleep" ELSE "none")
  BY <1>1, <1>2, Zenon
<1>7. TurnInv
  <2>1. \A u \in Updaters : updater[u].pc = "idle"
    BY <1>1, <1>2, Zenon
  <2>2. Acting = 1
    BY <1>1, <2>1, Zenon DEF Acting, Replacing
  <2> QED BY <1>1, <1>3, <1>6, <2>1, <2>2, SMTT(30) DEF TurnInv, Alive, Leaving, ToStop
<1>8. StopInv
  BY <1>6, SMTT(30) DEF StopInv
<1>9. OpInv /\ OwedInv
  BY <1>1, <1>6, SMTT(30) DEF OpInv, OrderWithinQueue, OwedInv
<1>10. PlungerInv
  <2>1. \A s \in Snapshotters : snapshot[s].pc = "idle"
    BY <1>1, <1>2, Zenon
  <2> QED BY <1>6, <2>1 DEF PlungerInv, PlungersWait, PlungerCoversQueue
<1> QED BY <1>4, <1>5, <1>7, <1>8, <1>9, <1>10, Zenon DEF QueueInv

\* The invariant holds of every behaviour of the queues, their workers and their callers.
THEOREM QueueInvariant == Spec => []QueueInv
BY QueueInit, QueueStep, PTL DEF Spec

\* However often on_optimizer_config_update replaces the queue while clients write and
\* snapshots are taken: new workers start only when the old ones are gone, update_worker_fn
\* handles the operations of a queue in the order of the WAL, and create_snapshot goes on
\* only when what was sent before its plunger has been handled.
THEOREM HandledInOrder == Spec => []QueueInOrder
<1>1. QueueInv => QueueInOrder
  <2> SUFFICES ASSUME QueueInv PROVE QueueInOrder
    BY Zenon
  <2>1. WorkersTakeTurns
    BY Zenon DEF QueueInv, TurnInv, WorkersTakeTurns
  <2> QED BY <2>1, Zenon DEF QueueInv, OpInv, PlungerInv, QueueInOrder
<1> QED BY <1>1, QueueInvariant, PTL
=============================================================================
