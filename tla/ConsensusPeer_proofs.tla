------------------------ MODULE ConsensusPeer_proofs -------------------------
(***************************************************************************)
(* Proofs about ConsensusPeer, for any operations, length of the log,      *)
(* number of terms, snapshots and crashes: the log on disk is the log that *)
(* raft believes in, and the peer can always be started again.  Both need  *)
(* that raft never replaces the last entry alone (append_entries appends   *)
(* it then) and that no crash comes between the two steps that clear the   *)
(* WAL and save the state of a snapshot.  Then two parts around the peer,  *)
(* each as an instance of its module: what the callers of the dispatcher   *)
(* are told (Proposals) and the file of the peer's state (SaveOnDisk).     *)
(***************************************************************************)
EXTENDS ConsensusPeer, Integers, TLAPS

Safe == scenario.rewrites # "any" /\ "restore" \notin scenario.crashAt

-----------------------------------------------------------------------------
(* The invariant                                                           *)

AllOps == UNION {s.ops : s \in Scenarios}
LogEntry == [term : Nat, op : AllOps]
Record == [index : Nat, term : Nat, op : AllOps]

\* Where the thread is: with a snapshot, before the log is appended to, after it.
Restoring == {"snapshot", "aliases", "clear", "restore"}
Steady == {"hard", "committed", "apply", "advance", "light", "apply_light", "idle", "recover", "stopped"}
Labels == Restoring \cup Steady \cup {"append", "down"}

\* The types.
PeerType ==
    /\ scenario \in Scenarios
    /\ log \in Seq(LogEntry)
    /\ wal \in Seq(Record)
    /\ ps \in [term : Nat, commit : Nat, snap : Nat, queue : [1..2 -> Nat]]
    /\ pc \in Labels
    /\ sub \in Nat /\ given \in Nat
    /\ ready.term \in Nat /\ ready.commit \in Nat /\ ready.light \in Nat /\ ready.stable \in Nat

\* The records follow the snapshot without a gap.
WalInv == \A k \in 1..Len(wal) : wal[k].index = ps.snap + k

\* What is applied is committed, what is committed is saved, and raft hands out nothing
\* that a snapshot covers.
BoundInv ==
    /\ ps.snap <= ps.commit /\ ps.snap <= Len(log)
    /\ pc # "restore" => ps.commit <= ps.snap + Len(wal)
    /\ ps.snap < ps.queue[1] /\ ps.queue[1] <= ps.queue[2] + 1 /\ ps.queue[2] <= ps.commit
    /\ pc # "down" => ps.snap <= given

\* An entry is done only while it is the next one of the queue.
SubInv == sub = Done => Applying /\ Unapplied

\* The records are those entries of the log that follow the snapshot.
Matches ==
    /\ Len(log) = ps.snap + Len(wal)
    /\ \A k \in 1..Len(wal) : log[ps.snap + k] = Entry(wal[k].op, wal[k].term)

\* They will be when the record e is appended.
Pending(e) ==
    /\ e \in Record
    /\ e.index = Len(log)
    /\ e.index \in (ps.commit + 1)..(ps.snap + Len(wal) + 1)
    /\ e.index # ps.snap + Len(wal)
    /\ log[e.index] = Entry(e.op, e.term)
    /\ \A k \in 1..(e.index - ps.snap - 1) : log[ps.snap + k] = Entry(wal[k].op, wal[k].term)

LogInv ==
    /\ pc \in Steady => Matches
    /\ pc = "append" =>
          \/ ready.entries = <<>> /\ Matches
          \/ \E e \in Record : ready.entries = <<e>> /\ Pending(e)

\* What the thread is about to save.
ReadyInv ==
    /\ pc \in {"append", "hard"} => ps.commit <= ready.commit
    /\ pc \in {"append", "hard", "committed", "apply", "advance"} =>
          ready.commit <= ready.light /\ ready.light <= Len(log)
    /\ pc \in {"committed", "apply", "advance"} => ps.commit = ready.commit
    /\ pc = "light" => ps.commit = ready.light

\* A snapshot ends where the log does.
SnapshotInv ==
    /\ pc \in Restoring =>
          /\ ready.entries = <<>> /\ ready.snapshot.index = Len(log)
          /\ ready.commit = Len(log) /\ ready.light = Len(log)
    /\ pc = "restore" => wal = <<>>

PeerInv == PeerType /\ WalInv /\ BoundInv /\ SubInv /\ LogInv /\ ReadyInv /\ SnapshotInv

-----------------------------------------------------------------------------
(* Sequences                                                               *)

\* Append adds one element at the end.
LEMMA AppendAdds ==
    ASSUME NEW S, NEW s \in Seq(S), NEW x \in S
    PROVE  /\ Append(s, x) \in Seq(S) /\ Len(Append(s, x)) = Len(s) + 1
           /\ \A i \in 1..Len(s) : Append(s, x)[i] = s[i]
           /\ Append(s, x)[Len(s) + 1] = x
OBVIOUS

\* A concatenation has the elements of the one and then those of the other.
LEMMA Concatenated ==
    ASSUME NEW S, NEW s \in Seq(S), NEW t \in Seq(S)
    PROVE  /\ s \o t \in Seq(S) /\ Len(s \o t) = Len(s) + Len(t)
           /\ \A i \in 1..(Len(s) + Len(t)) : (s \o t)[i] = IF i <= Len(s) THEN s[i] ELSE t[i - Len(s)]
OBVIOUS

\* What SubSeq takes.
LEMMA Taken ==
    ASSUME NEW S, NEW s, NEW m \in Int, NEW n \in Int, \A i \in m..n : s[i] \in S
    PROVE  /\ SubSeq(s, m, n) \in Seq(S) /\ Len(SubSeq(s, m, n)) = IF m <= n THEN n - m + 1 ELSE 0
           /\ \A i \in 1..(n - m + 1) : SubSeq(s, m, n)[i] = s[m + i - 1]
OBVIOUS

-----------------------------------------------------------------------------
(* The WAL                                                                 *)

\* append_entries cuts the records off that the new one replaces.
LEMMA AppendedWal ==
    ASSUME NEW w \in Seq(Record), NEW snap \in Nat, \A k \in 1..Len(w) : w[k].index = snap + k,
           NEW e \in Record, e.index \in (snap + 1)..(snap + Len(w) + 1), e.index # snap + Len(w)
    PROVE  /\ Appended(w, e) \in Seq(Record) /\ Len(Appended(w, e)) = e.index - snap
           /\ Appended(w, e)[e.index - snap] = e
           /\ \A k \in 1..(e.index - snap - 1) : k \in 1..Len(w) /\ Appended(w, e)[k] = w[k]
<1>1. Len(w) \in Nat /\ e.index \in Nat
  BY DEF Record
<1>2. CASE w = <<>>
  BY <1>1, <1>2 DEF Appended
<1>3. CASE w # <<>>
  <2>1. Head(w) = w[1] /\ Len(w) >= 1
    BY <1>3
  <2>2. Head(w).index = snap + 1
    BY <2>1
  <2>3. CASE e.index < snap + Len(w)
    <3> DEFINE n == e.index - (snap + 1)
               t == SubSeq(w, 1, n)
    <3>1. n \in 0..(Len(w) - 1)
      BY <1>1, <2>3
    <3>2. t \in Seq(Record) /\ Len(t) = n /\ \A i \in 1..n : t[i] = w[i]
      <4>1. \A i \in 1..n : w[i] \in Record
        BY <3>1
      <4>2. /\ t \in Seq(Record) /\ Len(t) = (IF 1 <= n THEN n - 1 + 1 ELSE 0)
            /\ \A i \in 1..(n - 1 + 1) : t[i] = w[1 + i - 1]
        BY <3>1, <4>1, Taken
      <4> QED BY <3>1, <4>2
    <3>3. Appended(w, e) = Append(t, e)
      BY <1>1, <1>3, <2>1, <2>2, <2>3 DEF Appended
    <3> HIDE DEF n, t
    <3>4. /\ Append(t, e) \in Seq(Record) /\ Len(Append(t, e)) = n + 1
          /\ \A i \in 1..n : Append(t, e)[i] = t[i]
          /\ Append(t, e)[n + 1] = e
      BY <3>2, AppendAdds
    <3>5. n + 1 = e.index - snap /\ n = e.index - snap - 1
      BY <1>1 DEF n
    <3> QED BY <3>1, <3>2, <3>3, <3>4, <3>5, SMTT(30)
  <2>4. CASE e.index >= snap + Len(w)
    <3>1. e.index = snap + Len(w) + 1
      BY <1>1, <2>4
    <3>2. Appended(w, e) = Append(w, e)
      BY <1>1, <1>3, <2>2, <3>1 DEF Appended
    <3>3. /\ Append(w, e) \in Seq(Record) /\ Len(Append(w, e)) = Len(w) + 1
          /\ \A i \in 1..Len(w) : Append(w, e)[i] = w[i]
          /\ Append(w, e)[Len(w) + 1] = e
      BY AppendAdds
    <3> QED BY <1>1, <3>1, <3>2, <3>3
  <2> QED BY <1>1, <2>3, <2>4
<1> QED BY <1>2, <1>3

\* Where the storage begins and ends, as raft sees it.
LEMMA Indexes ==
    ASSUME PeerType, WalInv
    PROVE  FirstIndex = ps.snap + 1 /\ LastIndex = ps.snap + Len(wal)
<1>1. ps.snap \in Nat /\ wal \in Seq(Record)
  BY DEF PeerType
<1>2. CASE wal = <<>>
  BY <1>1, <1>2 DEF FirstIndex, LastIndex
<1>3. CASE wal # <<>>
  <2>1. Head(wal) = wal[1] /\ 1 \in 1..Len(wal) /\ Len(wal) \in 1..Len(wal)
    BY <1>1, <1>3
  <2> QED BY <1>3, <2>1 DEF FirstIndex, LastIndex, WalInv
<1> QED BY <1>2, <1>3

\* Every record between them can be read.
LEMMA Reads ==
    ASSUME PeerType, WalInv, NEW id \in (ps.snap + 1)..(ps.snap + Len(wal))
    PROVE  Readable(id) /\ At(id) = id - ps.snap /\ At(id) \in 1..Len(wal)
<1>1. ps.snap \in Nat /\ wal \in Seq(Record) /\ Len(wal) \in Nat
  BY DEF PeerType
<1>2. wal # <<>> /\ 1 \in 1..Len(wal)
  BY <1>1
<1>3. Head(wal).index = ps.snap + 1
  BY <1>1, <1>2 DEF WalInv
<1> QED BY <1>1, <1>2, <1>3 DEF Readable, At

-----------------------------------------------------------------------------
(* The steps                                                               *)

\* At the beginning everything is empty.
LEMMA PeerInit == Init => PeerInv
<1> SUFFICES ASSUME Init PROVE PeerInv
  OBVIOUS
<1>1. /\ scenario \in Scenarios /\ log = <<>> /\ wal = <<>> /\ pc = "idle" /\ sub = 1 /\ given = 0
      /\ ps = [term |-> 0, commit |-> 0, snap |-> 0, queue |-> <<1, 0>>]
      /\ ready.term = 0 /\ ready.commit = 0 /\ ready.light = 0 /\ ready.stable = 0
  BY DEF Init, NoReady
<1>2. <<1, 0>> \in [1..2 -> Nat] /\ ps.queue[1] = 1 /\ ps.queue[2] = 0
  BY <1>1
<1>3. PeerType
  BY <1>1, <1>2 DEF PeerType, Labels, Steady
<1> QED
  BY <1>1, <1>2, <1>3
  DEF PeerInv, WalInv, BoundInv, SubInv, LogInv, ReadyInv, SnapshotInv, Matches, Done, Steady, Restoring

\* raft delivers entries or a commit index; the log is what it believes in.
LEMMA DeliversStep ==
    ASSUME PeerInv, pc = "idle", NEW entries \in Seq(LogEntry), NEW new, NEW term \in Nat,
           Delivers(entries, new, term), ps.snap <= Len(entries),
           \/ new = <<>> /\ entries = log
           \/ \E e \in Record : new = <<e>> /\ Len(entries) = e.index /\ Pending(e)',
           UNCHANGED <<wal, ps, app, sub, crashes, given, scenario>>
    PROVE  PeerInv'
<1>0. PICK c \in ps.commit..Len(entries) : \E l \in c..Len(entries) :
          ready' = [snapshot |-> None, entries |-> new, term |-> term, commit |-> c,
                    light |-> l, stable |-> Len(entries) - Len(new)]
  BY DEF Delivers
<1>1. PICK l \in c..Len(entries) :
          ready' = [snapshot |-> None, entries |-> new, term |-> term, commit |-> c,
                    light |-> l, stable |-> Len(entries) - Len(new)]
  BY <1>0
<1>2. log' = entries /\ pc' = "append"
  BY DEF Delivers
<1>3. Len(entries) \in Nat /\ ps.commit \in Nat
  BY DEF PeerInv, PeerType
<1>4. Len(entries) - Len(new) \in Nat
  <2>1. CASE new = <<>>
    BY <1>3, <2>1
  <2>2. ASSUME NEW e \in Record, new = <<e>>, Len(entries) = e.index, Pending(e)'
        PROVE  Len(entries) - Len(new) \in Nat
    <3>1. Len(new) = 1 /\ e.index >= 1
      BY <1>3, <2>2 DEF Pending
    <3> QED BY <1>3, <2>2, <3>1
  <2> QED BY <2>1, <2>2
<1>5. /\ ready'.entries = new /\ ready'.term = term /\ ready'.commit = c /\ ready'.light = l
      /\ ready'.stable \in Nat /\ c \in Nat /\ l \in Nat
  BY <1>1, <1>3, <1>4
<1>6. PeerType'
  BY <1>2, <1>5 DEF PeerInv, PeerType, Labels
<1>7. WalInv' /\ BoundInv'
  BY <1>2 DEF PeerInv, WalInv, BoundInv
<1>8. SubInv' /\ SnapshotInv'
  BY <1>2 DEF PeerInv, SubInv, SnapshotInv, Applying, After, Restoring
<1>9. ReadyInv'
  BY <1>1, <1>2, <1>3, <1>5 DEF ReadyInv
<1>10. new = <<>> => Matches'
  <2>1. Matches
    BY DEF PeerInv, LogInv, Steady
  <2>2. CASE new = <<>> /\ entries = log
    BY <1>2, <2>1, <2>2 DEF Matches
  <2>3. ASSUME NEW e \in Record, new = <<e>> PROVE new # <<>>
    BY <2>3
  <2> QED BY <2>2, <2>3
<1>11. LogInv'
  BY <1>2, <1>5, <1>10 DEF LogInv, Steady
<1> QED BY <1>6, <1>7, <1>8, <1>9, <1>11 DEF PeerInv

\* A new entry, in the place of what is not committed.
LEMMA ReadyStep == ASSUME PeerInv, Safe, Ready PROVE PeerInv'
<1>1. PICK term \in 1..scenario.terms, op \in scenario.ops, i \in (ps.commit + 1)..(Len(log) + 1) :
          /\ Placed(i)
          /\ Delivers(Append(SubSeq(log, 1, i - 1), Entry(op, term)),
                      <<[index |-> i, term |-> term, op |-> op]>>, term)
  BY DEF Ready
<1>2. /\ pc = "idle" /\ UNCHANGED <<wal, ps, app, sub, crashes, given, scenario>>
      /\ log \in Seq(LogEntry) /\ ps.commit \in Nat /\ ps.snap \in Nat /\ scenario \in Scenarios
      /\ wal \in Seq(Record)
  BY DEF Ready, PeerInv, PeerType
<1>3. scenario.terms \in Nat /\ scenario.rewrites \in {"no", "several"} /\ op \in AllOps
  BY <1>2, PeerAssumption DEF Safe, AllOps
<1>4. Len(log) \in Nat /\ Len(wal) \in Nat /\ term \in Nat /\ i \in Nat /\ i >= 1 /\ i # Len(log)
  BY <1>1, <1>2, <1>3 DEF Placed
<1>5. ps.snap <= ps.commit /\ Matches
  BY <1>2 DEF PeerInv, BoundInv, LogInv, Steady
<1> DEFINE kept == SubSeq(log, 1, i - 1)
           new == Entry(op, term)
           e == [index |-> i, term |-> term, op |-> op]
           entries == Append(kept, new)
<1>6. kept \in Seq(LogEntry) /\ Len(kept) = i - 1 /\ \A k \in 1..(i - 1) : kept[k] = log[k]
  <2>1. \A k \in 1..(i - 1) : log[k] \in LogEntry
    BY <1>2, <1>4
  <2>2. /\ kept \in Seq(LogEntry) /\ Len(kept) = (IF 1 <= i - 1 THEN (i - 1) - 1 + 1 ELSE 0)
        /\ \A k \in 1..((i - 1) - 1 + 1) : kept[k] = log[1 + k - 1]
    BY <1>4, <2>1, Taken
  <2> QED BY <1>4, <2>2
<1>7. new \in LogEntry /\ e \in Record /\ e.index = i /\ e.op = op /\ e.term = term
  BY <1>3, <1>4 DEF Entry, LogEntry, Record
<1> HIDE DEF kept, new, e
<1>8. /\ entries \in Seq(LogEntry) /\ Len(entries) = i /\ entries[i] = new
      /\ \A k \in 1..(i - 1) : entries[k] = log[k]
  <2>1. /\ entries \in Seq(LogEntry) /\ Len(entries) = Len(kept) + 1
        /\ \A k \in 1..Len(kept) : entries[k] = kept[k]
        /\ entries[Len(kept) + 1] = new
    BY <1>6, <1>7, AppendAdds
  <2> QED BY <1>4, <1>6, <2>1
<1> HIDE DEF entries
<1>9. Delivers(entries, <<e>>, term)
  BY <1>1 DEF entries, kept, new, e
<1>10. log' = entries
  BY <1>9 DEF Delivers
<1>11. Pending(e)'
  <2>1. i \in (ps.commit + 1)..(ps.snap + Len(wal) + 1) /\ i # ps.snap + Len(wal)
    BY <1>1, <1>4, <1>5 DEF Matches
  <2>2. log'[i] = Entry(op, term)
    BY <1>8, <1>10 DEF new
  <2>3. \A k \in 1..(i - ps.snap - 1) : log'[ps.snap + k] = Entry(wal[k].op, wal[k].term)
    <3> SUFFICES ASSUME NEW k \in 1..(i - ps.snap - 1)
                 PROVE  log'[ps.snap + k] = Entry(wal[k].op, wal[k].term)
      OBVIOUS
    <3>1. ps.snap + k \in 1..(i - 1) /\ k \in 1..Len(wal)
      BY <1>2, <1>4, <2>1, SMTT(30)
    <3> QED BY <1>5, <1>8, <1>10, <3>1 DEF Matches
  <2> QED BY <1>2, <1>7, <1>8, <1>10, <2>1, <2>2, <2>3, SMTT(30) DEF Pending
<1>12. ps.snap <= Len(entries)
  BY <1>1, <1>2, <1>4, <1>5, <1>8
<1> QED BY <1>2, <1>4, <1>7, <1>8, <1>9, <1>11, <1>12, DeliversStep, SMTT(30)

\* More is committed.
LEMMA ReadyCommittedStep == ASSUME PeerInv, ReadyCommitted PROVE PeerInv'
<1>1. /\ pc = "idle" /\ Delivers(log, <<>>, ps.term) /\ UNCHANGED <<wal, ps, app, sub, crashes, given, scenario>>
      /\ log \in Seq(LogEntry) /\ ps.term \in Nat /\ ps.snap <= Len(log)
  BY DEF ReadyCommitted, PeerInv, PeerType, BoundInv
<1> QED BY <1>1, DeliversStep

\* The leader sends a snapshot.
LEMMA ReadySnapshotStep == ASSUME PeerInv, ReadySnapshot PROVE PeerInv'
<1>1. PICK op \in scenario.ops :
          LET chosen == Append(SubSeq(log, 1, ps.commit), Entry(op, ps.term)) IN
          /\ log' = chosen
          /\ ready' = [snapshot |-> [index |-> Len(chosen), data |-> Result(chosen, Len(chosen))],
                       entries |-> <<>>, term |-> ps.term, commit |-> Len(chosen),
                       light |-> Len(chosen), stable |-> Len(chosen)]
  BY Zenon DEF ReadySnapshot
<1>2. /\ pc = "idle" /\ pc' = "snapshot" /\ UNCHANGED <<wal, ps, app, sub, crashes, given, scenario>>
      /\ log \in Seq(LogEntry) /\ ps.commit \in Nat /\ ps.snap \in Nat /\ ps.term \in Nat
      /\ scenario \in Scenarios /\ wal \in Seq(Record)
  BY DEF ReadySnapshot, PeerInv, PeerType
<1>3. ps.snap <= ps.commit /\ ps.commit <= Len(log)
  <2>1. ps.commit <= ps.snap + Len(wal) /\ ps.snap <= ps.commit /\ Len(log) = ps.snap + Len(wal)
    BY <1>2 DEF PeerInv, BoundInv, LogInv, Steady, Matches
  <2> QED BY <2>1
<1> DEFINE kept == SubSeq(log, 1, ps.commit)
           new == Entry(op, ps.term)
           n == ps.commit
<1>4. kept \in Seq(LogEntry) /\ Len(kept) = n
  <2>1. \A k \in 1..n : log[k] \in LogEntry
    BY <1>2, <1>3
  <2>2. kept \in Seq(LogEntry) /\ Len(kept) = (IF 1 <= n THEN n - 1 + 1 ELSE 0)
    BY <1>2, <2>1, Taken
  <2> QED BY <1>2, <2>2
<1>5. new \in LogEntry
  BY <1>2 DEF Entry, LogEntry, AllOps
<1>6. log' = Append(kept, new)
  BY <1>1
<1> HIDE DEF kept, new
<1>7. log' \in Seq(LogEntry) /\ Len(log') = ps.commit + 1
  BY <1>4, <1>5, <1>6, AppendAdds
<1>8. /\ ready'.entries = <<>> /\ ready'.term = ps.term /\ ready'.commit = Len(log')
      /\ ready'.light = Len(log') /\ ready'.stable = Len(log') /\ ready'.snapshot.index = Len(log')
  BY <1>1, Zenon
<1>9. PeerType'
  BY <1>2, <1>7, <1>8 DEF PeerInv, PeerType, Labels, Restoring
<1>10. WalInv'
  BY <1>2 DEF PeerInv, WalInv
<1>11. BoundInv'
  BY <1>2, <1>3, <1>7 DEF PeerInv, BoundInv
<1>12. SubInv' /\ LogInv' /\ ReadyInv'
  BY <1>2 DEF PeerInv, SubInv, LogInv, ReadyInv, Applying, After, Steady
<1>13. SnapshotInv'
  BY <1>2, <1>8 DEF SnapshotInv
<1> QED BY <1>9, <1>10, <1>11, <1>12, <1>13, SMTT(30) DEF PeerInv

\* The application of a snapshot, up to the WAL.
LEMMA RestoreStep ==
    ASSUME PeerInv, ApplySnapshot \/ ApplyAliases \/ ClearWal
    PROVE  PeerInv'
<1>1. /\ pc \in {"snapshot", "aliases", "clear"} /\ pc' \in {"aliases", "clear", "restore"}
      /\ UNCHANGED <<log, ps, sub, ready, given, scenario>>
      /\ \/ wal' = wal /\ pc' # "restore"
         \/ wal' = <<>> /\ pc' = "restore"
  BY DEF ApplySnapshot, ApplyAliases, ClearWal
<1>2. <<>> \in Seq(Record) /\ Len(<<>>) = 0
  OBVIOUS
<1>3. PeerType'
  BY <1>1, <1>2, Zenon DEF PeerInv, PeerType, Labels, Restoring
<1>4. WalInv'
  BY <1>1, <1>2 DEF PeerInv, WalInv
<1>5. BoundInv'
  BY <1>1 DEF PeerInv, BoundInv
<1>6. SubInv' /\ LogInv' /\ ReadyInv'
  BY <1>1 DEF PeerInv, SubInv, LogInv, ReadyInv, Applying, After, Steady
<1>7. SnapshotInv'
  BY <1>1 DEF PeerInv, SnapshotInv, Restoring
<1> QED BY <1>3, <1>4, <1>5, <1>6, <1>7 DEF PeerInv

\* The state of the snapshot is saved: the storage begins after it.
LEMMA UpdateFromSnapshotStep == ASSUME PeerInv, UpdateFromSnapshot PROVE PeerInv'
<1>1. /\ pc = "restore" /\ pc' = "append" /\ wal = <<>> /\ wal' = wal
      /\ UNCHANGED <<log, sub, ready, scenario>>
      /\ ready.entries = <<>> /\ ready.snapshot.index = Len(log)
      /\ ready.commit = Len(log) /\ ready.light = Len(log) /\ given' = Len(log)
  BY DEF UpdateFromSnapshot, PeerInv, SnapshotInv, Restoring
<1> DEFINE n == Len(log)
<1>2. n \in Nat /\ ps \in [term : Nat, commit : Nat, snap : Nat, queue : [1..2 -> Nat]]
  BY DEF PeerInv, PeerType
<1>3. ps' = [ps EXCEPT !.commit = n, !.snap = n, !.queue = <<n + 1, n>>]
  BY <1>1 DEF UpdateFromSnapshot
<1> HIDE DEF n
<1>4. <<n + 1, n>> \in [1..2 -> Nat] /\ <<n + 1, n>>[1] = n + 1 /\ <<n + 1, n>>[2] = n
  BY <1>2
<1>5. /\ ps' \in [term : Nat, commit : Nat, snap : Nat, queue : [1..2 -> Nat]]
      /\ ps'.commit = n /\ ps'.snap = n /\ ps'.queue[1] = n + 1 /\ ps'.queue[2] = n
  BY <1>2, <1>3, <1>4, Zenon
<1>6. PeerType'
  BY <1>1, <1>2, <1>5 DEF PeerInv, PeerType, Labels, n
<1>7. Len(wal') = 0
  BY <1>1
<1>8. WalInv' /\ Matches'
  BY <1>1, <1>2, <1>5, <1>7 DEF WalInv, Matches, n
<1>9. BoundInv'
  BY <1>1, <1>2, <1>5, <1>7, SMTT(30) DEF BoundInv, n
<1>10. SubInv' /\ SnapshotInv'
  BY <1>1 DEF PeerInv, SubInv, SnapshotInv, Applying, After, Restoring
<1>11. LogInv' /\ ReadyInv'
  BY <1>1, <1>2, <1>5, <1>8 DEF LogInv, ReadyInv, Steady, n
<1> QED BY <1>6, <1>8, <1>9, <1>10, <1>11, SMTT(30) DEF PeerInv

\* The entries are saved.
LEMMA AppendEntriesStep == ASSUME PeerInv, AppendEntries PROVE PeerInv'
<1>1. /\ pc = "append" /\ pc' = "hard" /\ UNCHANGED <<log, ps, sub, ready, given, scenario>>
      /\ wal' = IF ready.entries = <<>> THEN wal ELSE Appended(wal, Head(ready.entries))
  BY DEF AppendEntries
<1>2. /\ wal \in Seq(Record) /\ Len(wal) \in Nat /\ ps.snap \in Nat /\ ps.commit \in Nat
      /\ ps.snap <= ps.commit /\ WalInv
  BY DEF PeerInv, PeerType, BoundInv
<1>3. wal' \in Seq(Record) /\ WalInv' /\ Matches' /\ ps.commit <= ps.snap + Len(wal')
  <2>1. CASE ready.entries = <<>> /\ Matches
    <3>1. wal' = wal
      BY <1>1, <2>1
    <3> QED BY <1>1, <1>2, <2>1, <3>1 DEF PeerInv, BoundInv, Matches, WalInv
  <2>2. ASSUME NEW e \in Record, ready.entries = <<e>>, Pending(e)
        PROVE  wal' \in Seq(Record) /\ WalInv' /\ Matches' /\ ps.commit <= ps.snap + Len(wal')
    <3>1. wal' = Appended(wal, e)
      BY <1>1, <2>2
    <3>2. /\ e.index \in (ps.snap + 1)..(ps.snap + Len(wal) + 1) /\ e.index # ps.snap + Len(wal)
          /\ e.index = Len(log) /\ e.index >= ps.commit + 1 /\ e.index \in Nat
          /\ log[e.index] = Entry(e.op, e.term)
          /\ \A k \in 1..(e.index - ps.snap - 1) : log[ps.snap + k] = Entry(wal[k].op, wal[k].term)
      BY <1>2, <2>2 DEF Pending
    <3> DEFINE m == e.index - ps.snap
    <3>3. /\ wal' \in Seq(Record) /\ Len(wal') = m /\ wal'[m] = e
          /\ \A k \in 1..(m - 1) : k \in 1..Len(wal) /\ wal'[k] = wal[k]
      <4>1. \A k \in 1..Len(wal) : wal[k].index = ps.snap + k
        BY <1>2 DEF WalInv
      <4>2. /\ Appended(wal, e) \in Seq(Record) /\ Len(Appended(wal, e)) = e.index - ps.snap
            /\ Appended(wal, e)[e.index - ps.snap] = e
            /\ \A k \in 1..(e.index - ps.snap - 1) : k \in 1..Len(wal) /\ Appended(wal, e)[k] = wal[k]
        BY <1>2, <2>2, <3>2, <4>1, AppendedWal, Zenon
      <4> QED BY <3>1, <4>2
    <3>4. m \in Nat /\ m >= 1 /\ e.index = ps.snap + m
      BY <1>2, <3>2
    <3> HIDE DEF m
    <3>5. ASSUME NEW k \in 1..m
          PROVE  wal'[k].index = ps.snap + k /\ log[ps.snap + k] = Entry(wal'[k].op, wal'[k].term)
      <4>1. CASE k = m
        BY <3>2, <3>3, <3>4, <4>1
      <4>2. CASE k # m
        <5>1. k \in 1..(m - 1) /\ k \in 1..Len(wal) /\ wal'[k] = wal[k]
          BY <3>3, <3>4, <4>2
        <5>2. log[ps.snap + k] = Entry(wal[k].op, wal[k].term)
          BY <3>2, <5>1 DEF m
        <5> QED BY <1>2, <5>1, <5>2 DEF WalInv
      <4> QED BY <4>1, <4>2
    <3>6. Len(log) = ps.snap + Len(wal')
      BY <3>2, <3>3, <3>4
    <3>7. WalInv'
      BY <1>1, <3>3, <3>5 DEF WalInv
    <3>8. Matches'
      BY <1>1, <3>3, <3>5, <3>6 DEF Matches
    <3>9. ps.commit <= ps.snap + Len(wal')
      BY <1>2, <3>2, <3>3, <3>4
    <3> QED BY <3>3, <3>7, <3>8, <3>9
  <2>3. \/ ready.entries = <<>> /\ Matches
        \/ \E e \in Record : ready.entries = <<e>> /\ Pending(e)
    BY <1>1 DEF PeerInv, LogInv
  <2> QED BY <2>1, <2>2, <2>3
<1>4. PeerType'
  BY <1>1, <1>3 DEF PeerInv, PeerType, Labels, Steady
<1>5. BoundInv'
  BY <1>1, <1>3 DEF PeerInv, BoundInv
<1>6. SubInv' /\ LogInv' /\ SnapshotInv'
  BY <1>1, <1>3 DEF PeerInv, SubInv, LogInv, SnapshotInv, Applying, After, Restoring
<1>7. ReadyInv'
  BY <1>1 DEF PeerInv, ReadyInv
<1> QED BY <1>3, <1>4, <1>5, <1>6, <1>7 DEF PeerInv

\* A step that leaves log and WAL alone keeps what they have in common.
LEMMA SameLog ==
    ASSUME PeerInv, pc \in Steady, pc' \in Steady, log' = log, wal' = wal, ps'.snap = ps.snap
    PROVE  WalInv' /\ LogInv' /\ SnapshotInv'
BY DEF PeerInv, WalInv, LogInv, SnapshotInv, Matches, Steady, Restoring

\* The hard state is saved after the entries.
LEMMA SetHardStateStep == ASSUME PeerInv, SetHardState \/ SetCommitIndex PROVE PeerInv'
<1>1. /\ pc \in Steady /\ pc' \in Steady /\ UNCHANGED <<log, wal, sub, ready, given, scenario>>
      /\ \/ pc = "hard" /\ pc' = "committed" /\ ps' = [ps EXCEPT !.term = ready.term, !.commit = ready.commit]
         \/ pc = "advance" /\ pc' = "light" /\ ps' = [ps EXCEPT !.commit = ready.light]
  BY DEF SetHardState, SetCommitIndex, Steady
<1>2. /\ ps \in [term : Nat, commit : Nat, snap : Nat, queue : [1..2 -> Nat]]
      /\ ready.term \in Nat /\ ready.commit \in Nat /\ ready.light \in Nat
      /\ Len(log) \in Nat /\ Len(wal) \in Nat
  BY DEF PeerInv, PeerType
<1>3. /\ ps' \in [term : Nat, commit : Nat, snap : Nat, queue : [1..2 -> Nat]]
      /\ ps'.snap = ps.snap /\ ps'.queue = ps.queue
      /\ ps'.commit = IF pc = "hard" THEN ready.commit ELSE ready.light
  BY <1>1, <1>2, Zenon
<1>4. /\ ps.commit <= ps'.commit /\ ps'.commit <= Len(log) /\ Len(log) = ps.snap + Len(wal)
  BY <1>1, <1>2, <1>3 DEF PeerInv, ReadyInv, LogInv, Matches
<1>5. PeerType'
  BY <1>1, <1>3 DEF PeerInv, PeerType, Labels
<1>6. BoundInv'
  BY <1>1, <1>2, <1>3, <1>4 DEF PeerInv, BoundInv
<1>7. SubInv'
  BY <1>1 DEF PeerInv, SubInv, Applying, After
<1>8. ReadyInv'
  BY <1>1, <1>3 DEF PeerInv, ReadyInv
<1> QED BY <1>1, <1>3, <1>5, <1>6, <1>7, <1>8, SameLog, SMTT(30) DEF PeerInv

\* Committed entries are put into the queue.
LEMMA HandleStep == ASSUME PeerInv, Committed \/ LightCommitted PROVE PeerInv'
<1> DEFINE upTo == IF pc = "light" THEN ready.light
                   ELSE IF ready.commit < ready.stable THEN ready.commit ELSE ready.stable
<1>1. /\ pc \in {"committed", "light"} /\ UNCHANGED <<log, wal, sub, ready, scenario>>
      /\ \/ /\ upTo > given /\ ps' = [ps EXCEPT !.queue = <<given + 1, upTo>>] /\ given' = upTo
            /\ pc' = IF pc = "light" THEN "apply_light" ELSE "apply"
         \/ /\ ps' = ps /\ given' = given /\ pc' = IF pc = "light" THEN "idle" ELSE "advance"
  BY DEF Committed, LightCommitted, Handle
<1>2. /\ ps \in [term : Nat, commit : Nat, snap : Nat, queue : [1..2 -> Nat]]
      /\ ready.commit \in Nat /\ ready.light \in Nat /\ ready.stable \in Nat
      /\ Len(log) \in Nat /\ Len(wal) \in Nat
  BY DEF PeerInv, PeerType
<1>3. upTo \in Nat /\ upTo <= ps.commit
  BY <1>1, <1>2 DEF PeerInv, ReadyInv
<1>4. pc \in Steady /\ pc' \in Steady
  BY <1>1 DEF Steady
<1> HIDE DEF upTo
<1>5. CASE ps' = ps /\ given' = given
  <2>1. PeerType' /\ BoundInv' /\ ReadyInv' /\ SubInv'
    BY <1>1, <1>4, <1>5, Zenon DEF PeerInv, PeerType, BoundInv, ReadyInv, SubInv, Labels, Applying, After, Steady
  <2> QED BY <1>1, <1>4, <1>5, <2>1, SameLog DEF PeerInv
<1>6. CASE upTo > given /\ ps' = [ps EXCEPT !.queue = <<given + 1, upTo>>] /\ given' = upTo
           /\ pc' = IF pc = "light" THEN "apply_light" ELSE "apply"
  <2> DEFINE q == given + 1
  <2>1. q \in Nat /\ q >= 1 /\ ps.snap < q
    BY <1>1, <1>2 DEF PeerInv, PeerType, BoundInv
  <2> HIDE DEF q
  <2>2. <<q, upTo>> \in [1..2 -> Nat] /\ <<q, upTo>>[1] = q /\ <<q, upTo>>[2] = upTo
    BY <1>3, <2>1
  <2>3. /\ ps' \in [term : Nat, commit : Nat, snap : Nat, queue : [1..2 -> Nat]]
        /\ ps'.snap = ps.snap /\ ps'.commit = ps.commit /\ ps'.queue[1] = q /\ ps'.queue[2] = upTo
    BY <1>2, <1>6, <2>1, <2>2, SMTT(30) DEF q
  <2>4. PeerType'
    BY <1>1, <1>3, <1>4, <1>6, <2>3 DEF PeerInv, PeerType, Labels
  <2>5. BoundInv'
    <3>1. ps.snap <= ps.commit /\ ps.snap <= Len(log) /\ ps.commit <= ps.snap + Len(wal)
      BY <1>1 DEF PeerInv, BoundInv
    <3>2. q <= upTo + 1 /\ ps.snap <= given'
      BY <1>3, <1>6, <2>1 DEF q, PeerInv, PeerType
    <3> QED BY <1>1, <1>3, <2>1, <2>3, <3>1, <3>2, SMTT(30) DEF BoundInv
  <2>6. SubInv'
    BY <1>1 DEF PeerInv, SubInv, Applying, After
  <2>7. ReadyInv'
    BY <1>1, <1>6, <2>3 DEF PeerInv, ReadyInv
  <2> QED BY <1>1, <1>4, <2>3, <2>4, <2>5, <2>6, <2>7, SameLog DEF PeerInv
<1> QED BY <1>1, <1>5, <1>6

\* An entry is applied, part by part.  It can be read, for it is committed.
LEMMA ApplyStep == ASSUME PeerInv, Apply PROVE PeerInv'
<1> DEFINE q == ps.queue[1]
<1>1. /\ pc \in {"apply", "apply_light", "recover"} /\ Unapplied /\ sub # Done
      /\ UNCHANGED <<log, wal, ps, ready, given, scenario>>
  BY DEF Apply, Applying, After
<1>2. /\ ps.snap \in Nat /\ ps.commit \in Nat /\ Len(wal) \in Nat /\ q \in Nat
      /\ ps.queue[2] \in Nat /\ sub \in Nat
  BY DEF PeerInv, PeerType
<1>3. q \in (ps.snap + 1)..(ps.snap + Len(wal))
  BY <1>1, <1>2, SMTT(30) DEF PeerInv, BoundInv, Unapplied
<1>4. Readable(ps.queue[1])
  BY <1>3, Reads DEF PeerInv
<1>5. \/ sub' = 1 /\ pc' = IF pc = "recover" THEN "idle" ELSE "stopped"
      \/ sub' \in {sub + 1, Done} /\ pc' = pc
  BY <1>4 DEF Apply
<1>6. pc \in Steady /\ pc' \in Steady /\ sub' \in Nat
  BY <1>1, <1>2, <1>5 DEF Steady, Done
<1>7. PeerType' /\ BoundInv'
  BY <1>1, <1>6 DEF PeerInv, PeerType, BoundInv, Labels, Steady
<1>8. SubInv'
  BY <1>1, <1>2, <1>5 DEF SubInv, Done, Applying, After, Unapplied
<1>9. ReadyInv'
  BY <1>1, <1>5 DEF PeerInv, ReadyInv
<1> QED BY <1>1, <1>6, <1>7, <1>8, <1>9, SameLog, SMTT(30) DEF PeerInv

\* The progress is saved when the whole entry is applied.
LEMMA EntryAppliedStep == ASSUME PeerInv, EntryApplied PROVE PeerInv'
<1> DEFINE q == ps.queue
<1>1. /\ pc \in {"apply", "apply_light", "recover"} /\ pc' = pc /\ sub' = 1 /\ Unapplied
      /\ UNCHANGED <<log, wal, ready, given, scenario>> /\ ps' = [ps EXCEPT !.queue[1] = @ + 1]
  BY DEF EntryApplied, Applying, After, PeerInv, SubInv
<1>2. /\ ps \in [term : Nat, commit : Nat, snap : Nat, queue : [1..2 -> Nat]] /\ q \in [1..2 -> Nat]
      /\ Len(wal) \in Nat /\ q[1] \in Nat /\ q[2] \in Nat
  BY DEF PeerInv, PeerType
<1>3. /\ ps' \in [term : Nat, commit : Nat, snap : Nat, queue : [1..2 -> Nat]]
      /\ ps'.snap = ps.snap /\ ps'.commit = ps.commit
      /\ ps'.queue[1] = q[1] + 1 /\ ps'.queue[2] = q[2]
  BY <1>1, <1>2
<1>4. pc \in Steady /\ pc' \in Steady
  BY <1>1 DEF Steady
<1>5. PeerType'
  BY <1>1, <1>3 DEF PeerInv, PeerType
<1>6. BoundInv'
  BY <1>1, <1>2, <1>3, SMTT(30) DEF PeerInv, BoundInv, Unapplied
<1>7. SubInv' /\ ReadyInv'
  BY <1>1, <1>3 DEF PeerInv, SubInv, ReadyInv, Done
<1> QED BY <1>1, <1>3, <1>4, <1>5, <1>6, <1>7, SameLog, SMTT(30) DEF PeerInv

\* The queue is empty, or what is left in it is tried again.
LEMMA QueueStep == ASSUME PeerInv, QueueEmpty \/ Tick PROVE PeerInv'
<1>1. /\ UNCHANGED <<log, wal, ps, sub, ready, given, scenario>> /\ sub # Done
      /\ \/ pc = "apply" /\ pc' = "advance"
         \/ pc \in {"apply_light", "recover"} /\ pc' = "idle"
         \/ pc = "idle" /\ pc' = "apply_light"
  BY DEF QueueEmpty, Tick, Applying, After, PeerInv, SubInv
<1>2. pc \in Steady /\ pc' \in Steady
  BY <1>1 DEF Steady
<1>3. PeerType' /\ BoundInv'
  BY <1>1, <1>2 DEF PeerInv, PeerType, BoundInv, Labels
<1>4. SubInv' /\ ReadyInv'
  BY <1>1 DEF PeerInv, SubInv, ReadyInv
<1> QED BY <1>1, <1>2, <1>3, <1>4, SameLog, SMTT(30) DEF PeerInv

\* A crash loses what was going on.
LEMMA CrashStep == ASSUME PeerInv, Safe, Crash PROVE PeerInv'
<1>1. /\ pc # "restore" /\ pc' = "down" /\ sub' = 1 /\ UNCHANGED <<log, wal, ps, scenario>> /\ given' = 0
      /\ ready'.term = 0 /\ ready'.commit = 0 /\ ready'.light = 0 /\ ready'.stable = 0
  BY DEF Crash, Safe, NoReady
<1>2. PeerType' /\ WalInv' /\ BoundInv'
  BY <1>1 DEF PeerInv, PeerType, WalInv, BoundInv, Labels
<1>3. SubInv' /\ LogInv' /\ ReadyInv' /\ SnapshotInv'
  BY <1>1 DEF SubInv, LogInv, ReadyInv, SnapshotInv, Done, Steady, Restoring
<1> QED BY <1>2, <1>3 DEF PeerInv

\* What raft compares at a start, as numbers: the snapshot, the queue and the commit index.
LEMMA StartNumbers ==
  ASSUME NEW a \in Nat, NEW b \in Nat, NEW c \in Nat, NEW d \in Nat, a < b, b <= c + 1, c <= d
  PROVE  (a + 1) - 1 = a /\ a <= b - 1 /\ b - 1 <= d
OBVIOUS

\* The peer that starts again believes in the log that it has saved, and raft
\* accepts what Persistent says about it.
LEMMA RestartStep == ASSUME PeerInv, Restart PROVE PeerInv'
<1>0. ps.snap \in Nat /\ ps.commit \in Nat /\ ps.queue[1] \in Nat /\ ps.queue[2] \in Nat
  BY DEF PeerInv, PeerType
<1>1. /\ pc = "down" /\ UNCHANGED <<wal, ps, sub, ready, scenario>>
      /\ log \in Seq(LogEntry) /\ wal \in Seq(Record) /\ Len(wal) \in Nat /\ Len(log) \in Nat
      /\ ps.snap \in Nat /\ ps.commit \in Nat /\ ps.queue[1] \in Nat /\ ps.queue[2] \in Nat
      /\ ps.snap <= Len(log)
  BY DEF Restart, PeerInv, PeerType, BoundInv
<1>2. FirstIndex = ps.snap + 1 /\ LastIndex = ps.snap + Len(wal)
  BY Indexes DEF PeerInv
<1>3. FirstIndex - 1 = ps.snap /\ RaftAccepts
  <2>1. /\ ps.snap <= ps.commit /\ ps.commit <= ps.snap + Len(wal)
        /\ ps.snap < ps.queue[1] /\ ps.queue[1] <= ps.queue[2] + 1 /\ ps.queue[2] <= ps.commit
    BY <1>1 DEF PeerInv, BoundInv
  <2>2. /\ (ps.snap + 1) - 1 = ps.snap
        /\ ps.snap <= ps.queue[1] - 1 /\ ps.queue[1] - 1 <= ps.commit
    BY <1>0, <2>1, StartNumbers
  <2>3. FirstIndex - 1 = ps.snap
    BY <1>2, <2>2, Zenon
  <2> QED BY <1>2, <2>1, <2>2, <2>3 DEF RaftAccepts, LastApplied
<1>4. pc' = "recover" /\ given' = LastApplied /\ given' \in Nat /\ ps.snap <= given'
  <2>1. pc' = "recover" /\ given' = LastApplied
    BY <1>3, Zenon DEF Restart
  <2>2. LastApplied \in Nat /\ ps.snap <= LastApplied
    BY <1>0 DEF PeerInv, BoundInv, LastApplied
  <2> QED BY <2>1, <2>2
<1> DEFINE n == ps.snap
           kept == SubSeq(log, 1, n)
           read == [k \in 1..Len(wal) |-> Entry(wal[k].op, wal[k].term)]
<1>5. log' = kept \o read
  BY <1>3, Zenon DEF Restart
<1>6. kept \in Seq(LogEntry) /\ Len(kept) = n
  <2>1. \A k \in 1..n : log[k] \in LogEntry
    BY <1>1
  <2>2. kept \in Seq(LogEntry) /\ Len(kept) = (IF 1 <= n THEN n - 1 + 1 ELSE 0)
    BY <1>1, <2>1, Taken
  <2> QED BY <1>1, <2>2
<1>7. read \in Seq(LogEntry) /\ Len(read) = Len(wal)
  <2>1. \A k \in 1..Len(wal) : Entry(wal[k].op, wal[k].term) \in LogEntry
    <3> SUFFICES ASSUME NEW k \in 1..Len(wal) PROVE Entry(wal[k].op, wal[k].term) \in LogEntry
      OBVIOUS
    <3>1. wal[k] \in Record
      BY <1>1
    <3> QED BY <3>1 DEF Record, LogEntry, Entry
  <2> QED BY <1>1, <2>1
<1>8. \A k \in 1..Len(wal) : read[k] = Entry(wal[k].op, wal[k].term)
  OBVIOUS
<1> HIDE DEF kept, read
<1>9. /\ kept \o read \in Seq(LogEntry) /\ Len(kept \o read) = n + Len(wal)
      /\ \A k \in 1..Len(read) : (kept \o read)[n + k] = read[k]
  <2>1. /\ kept \o read \in Seq(LogEntry) /\ Len(kept \o read) = Len(kept) + Len(read)
        /\ \A i \in 1..Len(kept) + Len(read) :
              (kept \o read)[i] = IF i <= Len(kept) THEN kept[i] ELSE read[i - Len(kept)]
    BY <1>6, <1>7, Concatenated, ZenonT(30)
  <2>2. ASSUME NEW k \in 1..Len(read) PROVE (kept \o read)[n + k] = read[k]
    <3>1. n + k \in 1..Len(kept) + Len(read) /\ ~ (n + k <= Len(kept)) /\ (n + k) - Len(kept) = k
      BY <1>1, <1>6, <1>7
    <3> QED BY <2>1, <3>1
  <2> QED BY <1>6, <1>7, <2>1, <2>2
<1>10. Matches'
  BY <1>1, <1>5, <1>7, <1>8, <1>9, SMTT(30) DEF Matches
<1>11. PeerType' /\ WalInv'
  BY <1>1, <1>4, <1>5, <1>9 DEF PeerInv, PeerType, WalInv, Labels, Steady
<1>12. BoundInv'
  BY <1>1, <1>4, <1>5, <1>9, SMTT(30) DEF PeerInv, BoundInv
<1>13. SubInv' /\ ReadyInv' /\ SnapshotInv'
  BY <1>1, <1>4 DEF PeerInv, SubInv, ReadyInv, SnapshotInv, Applying, After, Restoring
<1>14. LogInv'
  BY <1>4, <1>10 DEF LogInv
<1> QED BY <1>11, <1>12, <1>13, <1>14 DEF PeerInv

-----------------------------------------------------------------------------
(* Theorems                                                                *)

\* The invariant holds in every scenario that is safe (process_ready, apply_snapshot,
\* append_entries, Consensus::new).
THEOREM PeerInvariant == Spec => [](Safe => PeerInv)
<1>1. Init => (Safe => PeerInv)
  BY PeerInit
<1>2. (Safe => PeerInv) /\ [Next]_vars => (Safe => PeerInv)'
  <2> SUFFICES ASSUME Safe => PeerInv, [Next]_vars, Safe' PROVE PeerInv'
    OBVIOUS
  <2>1. scenario' = scenario
    BY Zenon DEF Next, vars, Ready, ReadyCommitted, ReadySnapshot, Process, Crash, ApplySnapshot, ApplyAliases,
           ClearWal, UpdateFromSnapshot, AppendEntries, SetHardState, Committed, SetCommitIndex,
           LightCommitted, Apply, EntryApplied, QueueEmpty, Tick, Restart
  <2>2. Safe /\ PeerInv
    BY <2>1 DEF Safe
  <2>3. CASE Next
    BY <2>2, <2>3, ReadyStep, ReadyCommittedStep, ReadySnapshotStep, RestoreStep,
       UpdateFromSnapshotStep, AppendEntriesStep, SetHardStateStep, HandleStep, ApplyStep,
       EntryAppliedStep, QueueStep, CrashStep, RestartStep
    DEF Next, Process
  <2>4. CASE UNCHANGED vars
    BY <2>2, <2>4
    DEF vars, PeerInv, PeerType, WalInv, BoundInv, SubInv, LogInv, ReadyInv, SnapshotInv, Matches,
        Pending, Applying, Unapplied
  <2> QED BY <2>3, <2>4
<1> QED BY <1>1, <1>2, PTL DEF Spec

\* Between two rounds of the consensus thread, ConsensusOpWal gives raft exactly the log that raft
\* believes in, after any number of replaced entries, snapshots, crashes and restarts.
THEOREM WalIsTheLog == Spec => [](Safe => StorageIsLog)
<1>1. PeerInv => StorageIsLog
  <2> SUFFICES ASSUME PeerInv, pc = "idle", NEW id \in FirstIndex..LastIndex
               PROVE  /\ Readable(id)
                      /\ wal[At(id)] = [index |-> id, term |-> log[id].term, op |-> log[id].op]
    <3>1. PeerInv /\ pc = "idle" => LastIndex = Len(log)
      BY Indexes DEF PeerInv, LogInv, Matches, Steady
    <3> QED BY <3>1, SMTT(30) DEF StorageIsLog
  <2>1. FirstIndex = ps.snap + 1 /\ LastIndex = ps.snap + Len(wal)
    BY Indexes DEF PeerInv
  <2>2. Readable(id) /\ At(id) = id - ps.snap /\ At(id) \in 1..Len(wal)
    BY <2>1, Reads DEF PeerInv
  <2> DEFINE k == At(id)
             w == wal[k]
  <2>3. ps.snap \in Nat /\ ps.snap + k = id
    BY <2>1, <2>2 DEF PeerInv, PeerType
  <2>4. w \in Record
    BY <2>2 DEF PeerInv, PeerType
  <2>5. w.index = id /\ log[id] = Entry(w.op, w.term)
    BY <2>2, <2>3 DEF PeerInv, WalInv, LogInv, Matches, Steady
  <2>6. w.term = log[id].term /\ w.op = log[id].op
    BY <2>5 DEF Entry
  <2> HIDE DEF w
  <2>7. w = [index |-> id, term |-> log[id].term, op |-> log[id].op]
    BY <2>4, <2>5, <2>6, Zenon DEF Record
  <2> QED BY <2>2, <2>7, SMTT(30) DEF w
<1> QED BY <1>1, PeerInvariant, PTL

\* The saved state never has an applied entry beyond the commit index, and raft accepts it whenever the
\* peer is started: no crash, wherever it comes, leaves a peer that cannot start or cannot read an entry
\* it has to apply (Consensus::new, apply_entries).
THEOREM PeerCanRestart == Spec => [](Safe => AppliedIsCommitted /\ CanRestart)
<1>1. PeerInv => AppliedIsCommitted /\ CanRestart
  <2> SUFFICES ASSUME PeerInv PROVE AppliedIsCommitted /\ CanRestart
    OBVIOUS
  <2>1. ps.queue[1] \in Nat /\ ps.queue[2] \in Nat /\ ps.commit \in Nat /\ pc \in Labels
    BY DEF PeerInv, PeerType
  <2> QED BY <2>1 DEF PeerInv, BoundInv, AppliedIsCommitted, CanRestart, LastApplied, Labels, Restoring, Steady
<1> QED BY <1>1, PeerInvariant, PTL

-----------------------------------------------------------------------------
(* What a caller of submit_collection_meta_op is told is true, for any     *)
(* callers, operations and expectations (Proposals).  The invariant        *)
(* follows a sender from its registration to its use: ProposalInv relates  *)
(* the receivers to the map of senders and to the entry that is being      *)
(* applied, and the result that a receiver holds to the number of times    *)
(* that the operation was applied.                                         *)

CONSTANTS Callers, Ops, Expect, Others, MaxApplied, MaxRoleChanges, Nobody
VARIABLES established, woken, stage, mine, receiver, answer, signal, channel, raft, applying,
          applied, since, roles

Proposing == INSTANCE Proposals WITH pc <- stage, op <- mine, None <- Nobody

\* Nobody is no caller, no entry that is being applied and no answer.
NoneIsNothing ==
    /\ Expect \in [Ops -> SUBSET Ops]
    /\ Nobody \notin Callers /\ Nobody \notin [op : Ops, to : Callers \cup {Nobody}]
    /\ Nobody \notin {"applied", "active"}

ProposalTypes ==
    /\ stage \in [Callers -> {"idle", "check", "waiting", "propose", "await", "expect", "end"}]
    /\ mine \in [Callers -> Ops \cup {Nobody}]
    /\ answer \in [Callers -> {Nobody, "no leader", "dropped", "active", "applied", "timeout"}]
    /\ signal \in [Ops -> Callers \cup {Nobody}]
    /\ receiver \in [Callers -> [Ops -> {"none", "open", "applied", "dropped"}]]
    /\ channel \in Seq(Ops) /\ raft \in Seq(Ops)
    /\ applying \in [op : Ops, to : Callers \cup {Nobody}] \cup {Nobody}
    /\ applied \in [Ops -> Nat] /\ since \in [Callers -> [Ops -> Nat]]

\* A receiver that holds a result was sent it when the operation was applied, and
\* the receiver of a caller's own operation is newer than the number in since.
CallerInv(c) ==
    /\ stage[c] # "idle" => mine[c] \in Ops
    /\ stage[c] # "end" => answer[c] \notin {"active", "applied"}
    /\ stage[c] = "await" /\ receiver[c][mine[c]] = "applied" => applied[mine[c]] > since[c][mine[c]]
    /\ stage[c] = "expect" => applied[mine[c]] > since[c][mine[c]]
    /\ \A o \in Ops : receiver[c][o] = "applied" => applied[o] > 0
    /\ \A o \in Ops : applied[o] >= since[c][o]
    /\ answer[c] \in {"applied", "active"} => applied[mine[c]] > since[c][mine[c]]
    /\ answer[c] = "active" => \A o \in Expect[mine[c]] : applied[o] > 0

ProposalInv == ProposalTypes /\ Proposing!WaitsForSomething /\ \A c \in Callers : CallerInv(c)

\* Who waits after senders were registered: a receiver is new, or as it was, or
\* has lost its sender; an open one still has a sender.
LEMMA RegisteredReceivers ==
    ASSUME ProposalInv, NEW c \in Callers, NEW os \in SUBSET Ops, Proposing!Registered(c, os), applying' = applying
    PROVE  /\ signal' \in [Ops -> Callers \cup {Nobody}]
           /\ receiver' \in [Callers -> [Ops -> {"none", "open", "applied", "dropped"}]]
           /\ \A d \in Callers : \A o \in Ops : receiver'[d][o] = "applied" =>
                 receiver[d][o] = "applied" /\ ~ (d = c /\ o \in os)
           /\ Proposing!WaitsForSomething'
<1>1. /\ signal' \in [Ops -> Callers \cup {Nobody}]
      /\ receiver' \in [Callers -> [Ops -> {"none", "open", "applied", "dropped"}]]
  BY Zenon DEF ProposalInv, ProposalTypes, Proposing!Registered
<1>2. ASSUME NEW d \in Callers, NEW o \in Ops
      PROVE  /\ receiver'[d][o] = "applied" => receiver[d][o] = "applied" /\ ~ (d = c /\ o \in os)
             /\ receiver'[d][o] = "open" =>
                   signal'[o] = d \/ (applying # Nobody /\ applying = [op |-> o, to |-> d])
  <2>1. /\ receiver'[d][o] = IF o \notin os THEN receiver[d][o]
                             ELSE IF d = c THEN "open"
                             ELSE IF signal[o] = d /\ receiver[d][o] = "open" THEN "dropped"
                             ELSE receiver[d][o]
        /\ signal'[o] = IF o \in os THEN c ELSE signal[o]
    BY DEF Proposing!Registered
  <2>2. receiver[d][o] = "open" => signal[o] = d \/ (applying # Nobody /\ applying = [op |-> o, to |-> d])
    BY DEF ProposalInv, Proposing!WaitsForSomething
  <2> QED BY <2>1, <2>2
<1> QED BY <1>1, <1>2 DEF Proposing!WaitsForSomething

\* A caller that returns drops its receivers, and changes nothing of the others.
LEMMA EndsReceivers ==
    ASSUME ProposalInv, NEW c \in Callers,
           NEW r \in {"no leader", "dropped", "active", "applied", "timeout"}, Proposing!Ends(c, r)
    PROVE  /\ stage' \in [Callers -> {"idle", "check", "waiting", "propose", "await", "expect", "end"}]
           /\ answer' \in [Callers -> {Nobody, "no leader", "dropped", "active", "applied", "timeout"}]
           /\ receiver' \in [Callers -> [Ops -> {"none", "open", "applied", "dropped"}]]
           /\ stage'[c] = "end" /\ answer'[c] = r /\ \A o \in Ops : receiver'[c][o] = "none"
           /\ \A d \in Callers \ {c} : stage'[d] = stage[d] /\ answer'[d] = answer[d] /\ receiver'[d] = receiver[d]
BY Zenon DEF ProposalInv, ProposalTypes, Proposing!Ends

\* Only the receiver of the sender that was taken gets the result.
LEMMA SentReceivers ==
    ASSUME ProposalInv, applying # Nobody, NoneIsNothing, Proposing!Sent(applying.to, applying.op)
    PROVE  /\ receiver' \in [Callers -> [Ops -> {"none", "open", "applied", "dropped"}]]
           /\ \A d \in Callers : \A o \in Ops :
                 \/ receiver'[d][o] = receiver[d][o] /\ ~ (d = applying.to /\ o = applying.op /\ receiver[d][o] = "open")
                 \/ receiver'[d][o] = "applied" /\ o = applying.op
<1>1. applying.op \in Ops /\ applying.to \in Callers \cup {Nobody}
  BY Zenon DEF ProposalInv, ProposalTypes
<1>2. CASE applying.to # Nobody /\ receiver[applying.to][applying.op] = "open"
  <2> DEFINE t == applying.to
             x == applying.op
  <2> HIDE DEF t, x
  <2>1. t \in Callers /\ x \in Ops /\ receiver' = [receiver EXCEPT ![t][x] = "applied"]
    BY <1>1, <1>2 DEF Proposing!Sent, t, x
  <2>2. receiver \in [Callers -> [Ops -> {"none", "open", "applied", "dropped"}]]
    BY Zenon DEF ProposalInv, ProposalTypes
  <2>3. receiver' \in [Callers -> [Ops -> {"none", "open", "applied", "dropped"}]]
    BY <2>1, <2>2
  <2>4. \A d \in Callers : \A o \in Ops :
           receiver'[d][o] = IF d = t /\ o = x THEN "applied" ELSE receiver[d][o]
    BY <2>1, <2>2
  <2> QED BY <2>3, <2>4 DEF t, x
<1>3. CASE ~ (applying.to # Nobody /\ receiver[applying.to][applying.op] = "open")
  BY <1>1, <1>3, Zenon DEF Proposing!Sent, ProposalInv, ProposalTypes, NoneIsNothing
<1> QED BY <1>2, <1>3

\* Steps of one caller that leave the senders and the receivers alone.
LEMMA CallerMoves ==
    ASSUME ProposalInv, NEW c \in Callers, stage[c] \notin {"idle", "end"},
           NEW next \in {"waiting", "propose", "expect"}, stage' = [stage EXCEPT ![c] = next],
           next = "expect" => applied[mine[c]] > since[c][mine[c]],
           UNCHANGED <<mine, receiver, answer, signal, channel, raft, applying, applied, since>>
    PROVE  ProposalInv'
<1>1. stage' \in [Callers -> {"idle", "check", "waiting", "propose", "await", "expect", "end"}]
  BY Zenon DEF ProposalInv, ProposalTypes
<1>2. stage'[c] = next /\ \A d \in Callers \ {c} : stage'[d] = stage[d]
  BY Zenon DEF ProposalInv, ProposalTypes
<1>3. ProposalTypes' /\ Proposing!WaitsForSomething'
  BY <1>1, ZenonT(30) DEF ProposalInv, ProposalTypes, Proposing!WaitsForSomething
<1>4. ASSUME NEW d \in Callers PROVE CallerInv(d)'
  <2>1. CallerInv(d)
    BY DEF ProposalInv
  <2> QED BY <1>2, <2>1 DEF CallerInv
<1> QED BY <1>3, <1>4 DEF ProposalInv

\* A caller returns.
LEMMA CallerEnds ==
    ASSUME ProposalInv, NEW c \in Callers, stage[c] # "idle",
           NEW r \in {"no leader", "dropped", "active", "applied", "timeout"}, Proposing!Ends(c, r),
           r \in {"active", "applied"} => stage[c] = "expect",
           r = "active" => \A o \in Expect[mine[c]] : receiver[c][o] = "applied",
           NoneIsNothing, UNCHANGED <<mine, signal, channel, raft, applying, applied, since>>
    PROVE  ProposalInv'
<1>0. ProposalTypes /\ Proposing!WaitsForSomething
  BY Zenon DEF ProposalInv
<1>1. CallerInv(c) /\ mine[c] \in Ops /\ Expect[mine[c]] \subseteq Ops
  BY Zenon DEF ProposalInv, CallerInv, NoneIsNothing
<1>2. ProposalTypes'
  BY <1>0, EndsReceivers, Zenon DEF ProposalTypes
<1>3. Proposing!WaitsForSomething'
  <2>1. \A d \in Callers : \A o \in Ops : receiver'[d][o] = "open" => receiver[d][o] = "open"
    BY EndsReceivers, Zenon
  <2> QED BY <1>0, <2>1, Zenon DEF Proposing!WaitsForSomething
<1>4. CallerInv(c)'
  <2>1. stage'[c] = "end" /\ answer'[c] = r /\ \A o \in Ops : receiver'[c][o] = "none"
    BY <1>0, Zenon DEF Proposing!Ends, ProposalTypes
  <2> QED BY <1>1, <2>1, Zenon DEF CallerInv
<1>5. ASSUME NEW d \in Callers \ {c} PROVE CallerInv(d)'
  <2>1. stage'[d] = stage[d] /\ answer'[d] = answer[d] /\ receiver'[d] = receiver[d]
    BY <1>0, Zenon DEF Proposing!Ends, ProposalTypes
  <2>2. CallerInv(d)
    BY Zenon DEF ProposalInv
  <2> QED BY <2>1, <2>2, Zenon DEF CallerInv
<1> QED BY <1>2, <1>3, <1>4, <1>5, Zenon DEF ProposalInv

\* Registering for what is expected keeps the invariant ...
LEMMA SubmitKeeps == ASSUME ProposalInv, NoneIsNothing, NEW c \in Callers, Proposing!Submit(c) PROVE ProposalInv'
<1>1. PICK o \in Ops : mine' = [mine EXCEPT ![c] = o] /\ Proposing!Registered(c, Expect[o])
  BY Zenon DEF Proposing!Submit
<1>2. /\ stage[c] = "idle" /\ stage' = [stage EXCEPT ![c] = "check"] /\ Expect[o] \in SUBSET Ops
      /\ UNCHANGED <<answer, channel, raft, applying, applied, since>>
  BY <1>1 DEF Proposing!Submit, NoneIsNothing
<1>3. /\ stage'[c] = "check" /\ mine'[c] = o
      /\ \A d \in Callers \ {c} : stage'[d] = stage[d] /\ mine'[d] = mine[d]
      /\ stage' \in [Callers -> {"idle", "check", "waiting", "propose", "await", "expect", "end"}]
      /\ mine' \in [Callers -> Ops \cup {Nobody}]
  BY <1>1, <1>2, Zenon DEF ProposalInv, ProposalTypes
<1>4. /\ signal' \in [Ops -> Callers \cup {Nobody}]
      /\ receiver' \in [Callers -> [Ops -> {"none", "open", "applied", "dropped"}]]
      /\ \A d \in Callers : \A x \in Ops : receiver'[d][x] = "applied" => receiver[d][x] = "applied"
      /\ Proposing!WaitsForSomething'
  BY <1>1, <1>2, RegisteredReceivers, SMTT(30)
<1>5. ProposalTypes'
  BY <1>2, <1>3, <1>4, Zenon DEF ProposalInv, ProposalTypes
<1>6. ASSUME NEW d \in Callers PROVE CallerInv(d)'
  <2>1. CallerInv(d) /\ CallerInv(c)
    BY DEF ProposalInv
  <2>2. \A x \in Ops : receiver'[d][x] = "applied" => receiver[d][x] = "applied"
    BY <1>4, Zenon
  <2>3. CASE d = c
    BY <1>1, <1>2, <1>3, <2>1, <2>2, <2>3, SMTT(30) DEF CallerInv
  <2>4. CASE d # c
    BY <1>2, <1>3, <2>1, <2>2, <2>4, Zenon DEF CallerInv
  <2> QED BY <2>3, <2>4
<1> QED BY <1>4, <1>5, <1>6, SMTT(30) DEF ProposalInv

\* ... and so does sending the operation: its receiver is new, and since is now.
LEMMA ProposeKept == ASSUME ProposalInv, NEW c \in Callers, Proposing!Propose(c) PROVE ProposalInv'
<1>1. /\ stage[c] = "propose" /\ channel' = Append(channel, mine[c]) /\ Proposing!Registered(c, {mine[c]})
      /\ since' = [since EXCEPT ![c] = applied] /\ stage' = [stage EXCEPT ![c] = "await"]
      /\ UNCHANGED <<mine, answer, raft, applying, applied>> /\ mine[c] \in Ops
  BY DEF Proposing!Propose, ProposalInv, CallerInv
<1>2. /\ stage'[c] = "await"
      /\ \A d \in Callers \ {c} : stage'[d] = stage[d] /\ since'[d] = since[d]
      /\ stage' \in [Callers -> {"idle", "check", "waiting", "propose", "await", "expect", "end"}]
  BY <1>1, Zenon DEF ProposalInv, ProposalTypes
<1>3. /\ since' \in [Callers -> [Ops -> Nat]] /\ since'[c] = applied /\ channel' \in Seq(Ops)
      /\ \A o \in Ops : applied[o] \in Nat
  <2>1. applied \in [Ops -> Nat] /\ since \in [Callers -> [Ops -> Nat]] /\ channel \in Seq(Ops)
    BY Zenon DEF ProposalInv, ProposalTypes
  <2>2. channel' \in Seq(Ops)
    BY <1>1, <2>1
  <2>3. since' \in [Callers -> [Ops -> Nat]] /\ since'[c] = applied
    BY <1>1, <2>1, SMTT(30)
  <2> QED BY <2>1, <2>2, <2>3
<1>4. /\ signal' \in [Ops -> Callers \cup {Nobody}]
      /\ receiver' \in [Callers -> [Ops -> {"none", "open", "applied", "dropped"}]]
      /\ \A d \in Callers : \A x \in Ops : receiver'[d][x] = "applied" =>
            receiver[d][x] = "applied" /\ ~ (d = c /\ x = mine[c])
      /\ Proposing!WaitsForSomething'
  BY <1>1, RegisteredReceivers
<1>5. ProposalTypes'
  BY <1>1, <1>2, <1>3, <1>4, Zenon DEF ProposalInv, ProposalTypes
<1>6. ASSUME NEW d \in Callers PROVE CallerInv(d)'
  <2>1. CallerInv(d) /\ (stage[d] # "idle" => mine[d] \in Ops)
    BY DEF ProposalInv, CallerInv
  <2>2. \A x \in Ops : receiver'[d][x] = "applied" => receiver[d][x] = "applied" /\ ~ (d = c /\ x = mine[c])
    BY <1>4, Zenon
  <2>3. CASE d = c
    BY <1>1, <1>2, <1>3, <2>1, <2>2, <2>3, SMTT(30) DEF CallerInv
  <2>4. CASE d # c
    BY <1>1, <1>2, <2>1, <2>2, <2>4, Zenon DEF CallerInv
  <2> QED BY <2>3, <2>4, Zenon
<1> QED BY <1>4, <1>5, <1>6, SMTT(30) DEF ProposalInv

\* What the thread, raft and the other peers do to the two queues of operations.
LEMMA QueuesMove ==
    ASSUME ProposalInv, Others \subseteq Ops, Proposing!ProposeUpdates \/ Proposing!RoleChange \/ Proposing!OtherPeer \/ Proposing!Lost
    PROVE  ProposalInv'
<1>0. channel \in Seq(Ops) /\ raft \in Seq(Ops)
  BY Zenon DEF ProposalInv, ProposalTypes
<1>1. /\ UNCHANGED <<stage, mine, receiver, answer, signal, applying, applied, since>>
      /\ channel' \in Seq(Ops) /\ raft' \in Seq(Ops)
  <2>1. CASE Proposing!ProposeUpdates
    BY <1>0, <2>1 DEF Proposing!ProposeUpdates, Proposing!callers
  <2>2. CASE Proposing!RoleChange
    BY <1>0, <2>2 DEF Proposing!RoleChange
  <2>3. CASE Proposing!OtherPeer
    <3>1. PICK o \in Others : raft' = Append(raft, o)
      BY <2>3 DEF Proposing!OtherPeer
    <3> QED BY <1>0, <2>3, <3>1, SMTT(30) DEF Proposing!OtherPeer, Proposing!callers
  <2>4. CASE Proposing!Lost
    <3>1. PICK k \in 1 .. Len(raft) : raft' = SubSeq(raft, 1, k - 1) \o SubSeq(raft, k + 1, Len(raft))
      BY <2>4, Zenon DEF Proposing!Lost
    <3>2. SubSeq(raft, 1, k - 1) \in Seq(Ops) /\ SubSeq(raft, k + 1, Len(raft)) \in Seq(Ops)
      BY <1>0, <3>1
    <3>3. raft' \in Seq(Ops)
      BY <3>1, <3>2
    <3> QED BY <1>0, <2>4, <3>3, SMTT(30) DEF Proposing!Lost, Proposing!callers
  <2> QED BY <2>1, <2>2, <2>3, <2>4, SMTT(30)
<1>2. ProposalTypes' /\ Proposing!WaitsForSomething'
  BY <1>1, Zenon DEF ProposalInv, ProposalTypes, Proposing!WaitsForSomething
<1>3. ASSUME NEW c \in Callers PROVE CallerInv(c)'
  <2>1. CallerInv(c)
    BY DEF ProposalInv
  <2> QED BY <1>1, <2>1 DEF CallerInv
<1> QED BY <1>2, <1>3 DEF ProposalInv

\* The sender that the thread takes is the one that is registered, so an open
\* receiver keeps a sender.
LEMMA ApplyEntryKeeps == ASSUME ProposalInv, NoneIsNothing, Proposing!ApplyEntry PROVE ProposalInv'
<1>1. PICK o : o = Head(raft)
  OBVIOUS
<1>2. PICK e : e = [op |-> o, to |-> signal[o]]
  BY Zenon
<1>3. /\ raft # <<>> /\ applying = Nobody /\ applying' = e /\ signal' = [signal EXCEPT ![o] = Nobody]
      /\ raft' = Tail(raft) /\ UNCHANGED <<stage, mine, receiver, answer, channel, applied, since>>
  BY <1>1, <1>2 DEF Proposing!ApplyEntry, Proposing!callers
<1>4. raft \in Seq(Ops) /\ signal \in [Ops -> Callers \cup {Nobody}] /\ Proposing!WaitsForSomething
  BY Zenon DEF ProposalInv, ProposalTypes
<1>5. o \in Ops /\ raft' \in Seq(Ops)
  BY <1>1, <1>3, <1>4, SMTT(30)
<1>6. e \in [op : Ops, to : Callers \cup {Nobody}] /\ e # Nobody
  BY <1>2, <1>4, <1>5, SMTT(30) DEF NoneIsNothing
<1>7. signal' \in [Ops -> Callers \cup {Nobody}] /\ \A x \in Ops : x # o => signal'[x] = signal[x]
  BY <1>3, <1>4, <1>5, SMTT(30)
<1>8. Proposing!WaitsForSomething'
  <2>1. ASSUME NEW c \in Callers, NEW x \in Ops, receiver[c][x] = "open"
        PROVE  signal'[x] = c \/ (e # Nobody /\ e = [op |-> x, to |-> c])
    <3>1. signal[x] = c
      BY <1>3, <1>4, <2>1, SMTT(30) DEF Proposing!WaitsForSomething
    <3> QED BY <1>2, <1>6, <1>7, <3>1, SMTT(30)
  <2> QED BY <1>3, <2>1, SMTT(30) DEF Proposing!WaitsForSomething
<1>9. ProposalTypes'
  BY <1>3, <1>5, <1>6, <1>7, Zenon DEF ProposalInv, ProposalTypes
<1>10. ASSUME NEW c \in Callers PROVE CallerInv(c)'
  <2>1. CallerInv(c)
    BY SMTT(30) DEF ProposalInv
  <2> QED BY <1>3, <2>1 DEF CallerInv
<1> QED BY <1>8, <1>9, <1>10, SMTT(30) DEF ProposalInv

\* The result is sent after the operation counts as applied.
LEMMA PerformedKeeps == ASSUME ProposalInv, NoneIsNothing, Proposing!Performed PROVE ProposalInv'
<1>1. PICK o : o = applying.op
  OBVIOUS
<1>2. /\ applying # Nobody /\ applied' = [applied EXCEPT ![o] = @ + 1] /\ Proposing!Sent(applying.to, applying.op)
      /\ applying' = Nobody /\ UNCHANGED <<stage, mine, answer, signal, channel, raft, since>>
  BY <1>1 DEF Proposing!Performed
<1>3. o \in Ops /\ applied \in [Ops -> Nat] /\ since \in [Callers -> [Ops -> Nat]] /\ Proposing!WaitsForSomething
  BY <1>1, <1>2, Zenon DEF ProposalInv, ProposalTypes
<1>4. /\ applied' \in [Ops -> Nat] /\ applied'[o] = applied[o] + 1
      /\ \A x \in Ops : applied[x] \in Nat /\ applied'[x] \in Nat /\ applied'[x] >= applied[x]
  BY <1>2, <1>3, SMTT(30)
<1>5. /\ receiver' \in [Callers -> [Ops -> {"none", "open", "applied", "dropped"}]]
      /\ \A d \in Callers : \A x \in Ops :
            \/ receiver'[d][x] = receiver[d][x] /\ ~ (d = applying.to /\ x = o /\ receiver[d][x] = "open")
            \/ receiver'[d][x] = "applied" /\ x = o
  BY <1>1, <1>2, SentReceivers, SMTT(30)
<1>6. Proposing!WaitsForSomething'
  <2>1. ASSUME NEW c \in Callers, NEW x \in Ops, receiver'[c][x] = "open" PROVE signal[x] = c
    <3>1. receiver[c][x] = "open" /\ ~ (c = applying.to /\ x = o)
      BY <1>5, <2>1, SMTT(30)
    <3>2. applying # [op |-> x, to |-> c]
      BY <1>1, <3>1
    <3> QED BY <1>3, <3>1, <3>2, SMTT(30) DEF Proposing!WaitsForSomething
  <2> QED BY <1>2, <2>1, SMTT(30) DEF Proposing!WaitsForSomething
<1>7. ProposalTypes'
  BY <1>2, <1>4, <1>5, Zenon DEF ProposalInv, ProposalTypes
<1>8. ASSUME NEW c \in Callers PROVE CallerInv(c)'
  <2>1. /\ CallerInv(c) /\ (stage[c] # "idle" => mine[c] \in Ops)
        /\ answer[c] \in {"active", "applied"} => mine[c] \in Ops
    BY DEF ProposalInv, CallerInv
  <2>2. mine[c] \in Ops => since[c][mine[c]] \in Nat /\ Expect[mine[c]] \subseteq Ops
    BY <1>3, SMTT(30) DEF NoneIsNothing
  <2>3. ASSUME NEW x \in Ops, receiver'[c][x] = "applied" PROVE applied'[x] > 0
    <3>1. CASE x = o
      BY <1>3, <1>4, <3>1, SMTT(30)
    <3>2. CASE receiver[c][x] = "applied"
      BY <1>4, <2>1, <3>2, SMTT(30) DEF CallerInv
    <3> QED BY <1>5, <2>3, <3>1, <3>2, SMTT(30)
  <2>4. ASSUME mine[c] \in Ops, applied[mine[c]] > since[c][mine[c]] PROVE applied'[mine[c]] > since[c][mine[c]]
    BY <1>4, <2>2, <2>4, SMTT(30)
  <2>5. ASSUME stage[c] = "await", receiver'[c][mine[c]] = "applied" PROVE applied'[mine[c]] > since[c][mine[c]]
    <3>1. mine[c] \in Ops
      BY <2>1, <2>5, SMTT(30)
    <3>2. CASE receiver[c][mine[c]] = "applied"
      BY <2>1, <2>4, <2>5, <3>1, <3>2, SMTT(30) DEF CallerInv
    <3>3. CASE mine[c] = o
      <4>1. applied[o] >= since[c][o] /\ since[c][o] \in Nat
        <5>1. applied[o] >= since[c][o]
          BY <1>3, <2>1, Zenon DEF CallerInv
        <5> QED BY <2>2, <3>1, <3>3, <5>1, SMTT(30)
      <4> QED BY <1>3, <1>4, <3>3, <4>1, SMTT(30)
    <3> QED BY <1>5, <2>5, <3>1, <3>2, <3>3, SMTT(30)
  <2>6. answer[c] = "active" => \A x \in Expect[mine[c]] : applied'[x] > 0
    <3> SUFFICES ASSUME answer[c] = "active", NEW x \in Expect[mine[c]] PROVE applied'[x] > 0
      OBVIOUS
    <3>1. x \in Ops /\ applied[x] > 0
      BY <2>1, <2>2, SMTT(30) DEF CallerInv
    <3> QED BY <1>4, <3>1, SMTT(30)
  <2>7. \A x \in Ops : applied'[x] >= since[c][x]
    <3>1. \A x \in Ops : applied[x] >= since[c][x] /\ since[c][x] \in Nat
      <4>1. \A x \in Ops : since[c][x] \in Nat
        BY <1>3
      <4> QED BY <2>1, <4>1, Zenon DEF CallerInv
    <3> QED BY <1>4, <3>1
  <2> QED BY <1>2, <2>1, <2>3, <2>4, <2>5, <2>6, <2>7, Zenon DEF CallerInv
<1> QED BY <1>6, <1>7, <1>8 DEF ProposalInv

\* No step of a caller breaks the invariant.
LEMMA CallerKeeps ==
    ASSUME ProposalInv, NoneIsNothing, NEW c \in Callers, Proposing!Caller(c) \/ Proposing!Submit(c)
    PROVE  ProposalInv'
<1>0. CallerInv(c)
  BY DEF ProposalInv
<1>1. CASE Proposing!Submit(c)
  BY <1>1, SubmitKeeps
<1>2. CASE Proposing!CheckReady(c)
  <2>1. PICK next \in {"propose", "waiting"} : stage' = [stage EXCEPT ![c] = next]
    BY <1>2, Zenon DEF Proposing!CheckReady
  <2> QED BY <1>2, <2>1, CallerMoves, Zenon DEF Proposing!CheckReady
<1>3. CASE Proposing!LeaderReady(c)
  BY <1>3, CallerMoves, Zenon DEF Proposing!LeaderReady
<1>4. CASE Proposing!NoLeader(c)
  BY <1>4, CallerEnds, Zenon DEF Proposing!NoLeader
<1>5. CASE Proposing!Propose(c)
  BY <1>5, ProposeKept, SMTT(30)
<1>6. CASE Proposing!Await(c)
  <2>1. CASE receiver[c][mine[c]] = "applied" /\ stage' = [stage EXCEPT ![c] = "expect"] /\ UNCHANGED <<receiver, answer>>
    BY <1>0, <1>6, <2>1, CallerMoves, Zenon DEF Proposing!Await, CallerInv
  <2>2. CASE Proposing!Ends(c, "dropped")
    BY <1>6, <2>2, CallerEnds, Zenon DEF Proposing!Await
  <2> QED BY <1>6, <2>1, <2>2 DEF Proposing!Await
<1>7. CASE Proposing!AwaitExpected(c)
  <2>1. CASE \A o \in Expect[mine[c]] : receiver[c][o] = "applied"
    BY <1>7, <2>1, CallerEnds, Zenon DEF Proposing!AwaitExpected
  <2>2. CASE ~ \A o \in Expect[mine[c]] : receiver[c][o] = "applied"
    BY <1>7, <2>2, CallerEnds, Zenon DEF Proposing!AwaitExpected
  <2> QED BY <2>1, <2>2
<1>8. CASE Proposing!Timeout(c)
  <2>1. CASE stage[c] = "await"
    BY <1>8, <2>1, CallerEnds, Zenon DEF Proposing!Timeout
  <2>2. CASE stage[c] = "expect"
    BY <1>8, <2>2, CallerEnds, Zenon DEF Proposing!Timeout
  <2> QED BY <1>8, <2>1, <2>2 DEF Proposing!Timeout
<1> QED BY <1>1, <1>2, <1>3, <1>4, <1>5, <1>6, <1>7, <1>8, SMTT(30) DEF Proposing!Caller

\* What submit_collection_meta_op tells its caller is true, for any number of
\* callers and operations, whatever raft loses and however often operations
\* are equal: nobody waits for a sender that is gone, success means that the
\* operation was applied after it was sent, and "active" that all that was
\* expected to follow was applied.
THEOREM ProposalsAnswerTruly ==
    ASSUME NoneIsNothing, Others \subseteq Ops
    PROVE  Proposing!Spec => [](Proposing!WaitsForSomething /\ Proposing!SuccessIsApplied /\ Proposing!ActiveIsApplied)
<1>1. Proposing!Init => ProposalInv
  <2> SUFFICES ASSUME Proposing!Init PROVE ProposalInv
    OBVIOUS
  <2>1. ProposalTypes
    BY DEF Proposing!Init, ProposalTypes
  <2>2. Proposing!WaitsForSomething
    BY DEF Proposing!Init, Proposing!WaitsForSomething
  <2>3. ASSUME NEW c \in Callers PROVE CallerInv(c)
    <3>1. stage[c] = "idle" /\ answer[c] = Nobody /\ \A o \in Ops : receiver[c][o] = "none"
      BY DEF Proposing!Init
    <3>2. \A o \in Ops : applied[o] = 0 /\ since[c][o] = 0
      BY DEF Proposing!Init
    <3> QED BY <3>1, <3>2 DEF CallerInv, NoneIsNothing
  <2> QED BY <2>1, <2>2, <2>3, SMTT(30) DEF ProposalInv
<1>2. ProposalInv /\ [Proposing!Next]_Proposing!vars => ProposalInv'
  <2> SUFFICES ASSUME ProposalInv, [Proposing!Next]_Proposing!vars PROVE ProposalInv'
    OBVIOUS
  <2>1. CASE UNCHANGED Proposing!vars
    BY <2>1, Zenon DEF Proposing!vars, ProposalInv, ProposalTypes, Proposing!WaitsForSomething, CallerInv
  <2>2. CASE Proposing!Next
    BY <2>2, QueuesMove, ApplyEntryKeeps, PerformedKeeps, CallerKeeps, SMTT(30) DEF Proposing!Next, Proposing!Thread
  <2> QED BY <2>1, <2>2
<1>3. ProposalInv => Proposing!WaitsForSomething /\ Proposing!SuccessIsApplied /\ Proposing!ActiveIsApplied
  BY DEF ProposalInv, CallerInv, Proposing!SuccessIsApplied, Proposing!ActiveIsApplied
<1> QED BY <1>1, <1>2, <1>3, PTL DEF Proposing!Spec

-----------------------------------------------------------------------------
(* What the peers agree on about replicas and transfers is kept in cells,  *)
(* whose callers wait as well: SaveOnDisk.                                 *)

CONSTANTS Writers, Waiters, Target, MaxWrites
VARIABLES mem, disk, writer, copy, waiter, expired, acked, seen, begun

Cell == INSTANCE SaveOnDisk

\* Whatever the writers, readers and waiters do, and whenever the process dies, what
\* was read and what was acknowledged is in the file.
THEOREM CellStaysDurable == Cell!Spec => []Cell!CellIsDurable
<1>1. Cell!Init => Cell!CellInv
  BY SMTT(30) DEF Cell!Init, Cell!CellInv, Cell!OneWriter
<1>2. Cell!CellInv /\ [Cell!Next]_Cell!vars => Cell!CellInv'
  <2> SUFFICES ASSUME Cell!CellInv, [Cell!Next]_Cell!vars PROVE Cell!CellInv'
    OBVIOUS
  <2> USE DEF Cell!CellInv, Cell!OneWriter
  <2>1. ASSUME NEW w \in Writers, Cell!BeginWrite(w) PROVE Cell!CellInv'
    <3>1. \A v \in Writers : writer[v] = "idle"
      BY <2>1, Zenon DEF Cell!BeginWrite, Cell!Upgradable
    <3>2. /\ writer' = [writer EXCEPT ![w] = "copied"] /\ copy' = [copy EXCEPT ![w] = mem + 1]
          /\ mem' = mem /\ disk' = disk /\ acked' = acked /\ seen' = seen
      BY <2>1, Zenon DEF Cell!BeginWrite
    <3> QED BY <3>1, <3>2, SMTT(30)
  <2>2. ASSUME NEW w \in Writers, Cell!SaveData(w) PROVE Cell!CellInv'
    <3>1. /\ writer[w] = "copied" /\ mem' = mem /\ copy' = copy /\ acked' = acked /\ seen' = seen
          /\ \/ disk' = copy[w] /\ writer' = [writer EXCEPT ![w] = "upgrading"]
             \/ disk' = disk /\ writer' = [writer EXCEPT ![w] = "idle"]
      BY <2>2, Zenon DEF Cell!SaveData
    <3>2. CASE disk' = copy[w] /\ writer' = [writer EXCEPT ![w] = "upgrading"]
      BY <3>1, <3>2, SMTT(30)
    <3>3. CASE disk' = disk /\ writer' = [writer EXCEPT ![w] = "idle"]
      BY <3>1, <3>3, SMTT(30)
    <3> QED BY <3>1, <3>2, <3>3, Zenon
  <2>3. ASSUME NEW w \in Writers, Cell!Replace(w) PROVE Cell!CellInv'
    BY <2>3, SMTT(30) DEF Cell!Replace
  <2>4. CASE Cell!Read
    BY <2>4, SMTT(30) DEF Cell!Read, Cell!write
  <2>5. CASE Cell!Crash
    BY <2>5, SMTT(30) DEF Cell!Crash
  <2>6. ASSUME UNCHANGED <<Cell!write, seen>> PROVE Cell!CellInv'
    BY <2>6 DEF Cell!write
  <2> QED
    BY <2>1, <2>2, <2>3, <2>4, <2>5, <2>6, Zenon
    DEF Cell!Next, Cell!WaitStep, Cell!BeginWait, Cell!LockNotification, Cell!RelockNotification,
        Cell!GiveUp, Cell!CheckValue, Cell!UnlockData, Cell!Park, Cell!WaitTimeout,
        Cell!DropNotification, Cell!RelockData, Cell!Expire, Cell!Step, Cell!vars, Cell!write
<1>3. Cell!CellInv => Cell!CellIsDurable
  BY DEF Cell!CellInv, Cell!OneWriter, Cell!CellIsDurable, Cell!ReadIsDurable, Cell!NoLostWrite
<1> QED BY <1>1, <1>2, <1>3, PTL DEF Cell!Spec
=============================================================================
