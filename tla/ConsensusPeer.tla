--------------------------- MODULE ConsensusPeer ----------------------------
(***************************************************************************)
(* What one peer keeps of the consensus: the log in ConsensusOpWal, the    *)
(* state in Persistent, and the operations that the consensus thread       *)
(* applies to the table of content.  The peer may crash at any point.      *)
(*                                                                         *)
(*   Ready               the raft library has something to process         *)
(*   ApplySnapshot, ApplyAliases, ClearWal, UpdateFromSnapshot             *)
(*                                                       apply_snapshot   *)
(*   AppendEntries, SetHardState, Committed, SetCommitIndex,               *)
(*   LightCommitted      process_ready and process_light_ready, in order   *)
(*   Apply, EntryApplied                                   apply_entries   *)
(*   Crash, Restart      Consensus::new                                    *)
(*                                                                         *)
(* Raft itself is a library.  Here it is whatever a correct one may do: it *)
(* replaces what is not committed by entries of a newer term, moves the    *)
(* commit index on, or sends a snapshot; log is the log it believes in.    *)
(***************************************************************************)
EXTENDS MetaState, Naturals

CONSTANTS Peers,
          This,        \* this peer
          MaxIndex,    \* bound on the length of the log
          Scenarios    \* what raft and the process may do: see ScenarioFields

\* The operations in the entries; whether raft may replace no entry, several at
\* once, or any of them; whether it may send snapshots; a bound on the term; the
\* places where the process may crash, and how often.
ScenarioFields == {"ops", "rewrites", "snapshots", "terms", "crashAt", "crashes"}

ASSUME PeerAssumption ==
    /\ This \in Peers
    /\ MaxIndex \in Nat
    /\ \A s \in Scenarios :
          /\ DOMAIN s = ScenarioFields
          /\ s.rewrites \in {"no", "several", "any"}
          /\ s.snapshots \in BOOLEAN
          /\ s.terms \in Nat /\ s.crashes \in Nat

VARIABLES
    scenario, \* chosen once
    log,     \* the log as raft knows it, from index 1
    wal,     \* the records of ConsensusOpWal
    ps,      \* Persistent: every change is saved at once
    app,     \* the state the operations change, which is on disk as well
    pc,
    sub,     \* how much of the current entry has been applied
    ready,   \* what the thread is processing
    given,   \* commit_since_index of the raft library: it has handed out the entries up to it
    top,     \* history: the highest index that was applied
    again,   \* history: the stretches of applied entries that raft has handed out again
    broken,  \* history: a crash has interrupted an entry that cannot be resumed
    crashes

vars == <<log, wal, ps, app, pc, sub, ready, given, top, again, broken, crashes, scenario>>

NoReady == [snapshot |-> None, entries |-> <<>>, term |-> 0, commit |-> 0, light |-> 0, stable |-> 0]

App0 == [colls |-> {}, aliases |-> NoAliases, voters |-> {This}, learners |-> {}, known |-> {This}]

Init ==
    /\ scenario \in Scenarios
    /\ log = <<>>
    /\ wal = <<>>
    /\ ps = [term |-> 0, commit |-> 0, snap |-> 0, queue |-> <<1, 0>>]
    /\ app = App0
    /\ pc = "idle"
    /\ sub = 1
    /\ ready = NoReady
    /\ given = 0
    /\ top = 0
    /\ again = {}
    /\ broken = FALSE
    /\ crashes = 0

-----------------------------------------------------------------------------
(* Operations.  Each has one or more parts, and each part is durable when  *)
(* it is done.                                                             *)

Parts(op) ==
    CASE op.kind = "aliases" -> Len(op.actions)
      [] op.kind \in {"learner", "remove"} -> 2
      [] OTHER -> 1

\* AddLearnerNode and RemoveNode: the conf state is saved first, then the
\* address of the peer.
ConfPart(a, op, k) ==
    CASE op.kind = "learner" /\ k = 1 ->
             [a EXCEPT !.voters = @ \ {op.peer}, !.learners = @ \cup {op.peer}]
      [] op.kind = "learner" /\ k = 2 -> [a EXCEPT !.known = @ \cup {op.peer}]
      [] op.kind = "voter" ->
             [a EXCEPT !.voters = @ \cup {op.peer}, !.learners = @ \ {op.peer}]
      [] op.kind = "remove" /\ k = 1 ->
             [a EXCEPT !.voters = @ \ {op.peer}, !.learners = @ \ {op.peer}]
      [] op.kind = "remove" /\ k = 2 ->
             [a EXCEPT !.known = IF op.peer = This THEN @ \cap {This} ELSE @ \ {op.peer}]

\* Part k of an operation: the state after it, and whether it went well.
Part(a, op, k) ==
    CASE op.kind = "create" ->
             [ok |-> TRUE, app |-> IF op.name \notin a.colls /\ a.aliases[op.name] = None
                                   THEN [a EXCEPT !.colls = @ \cup {op.name}] ELSE a]
      [] op.kind = "delete" ->
             [ok |-> TRUE, app |-> IF op.name \in a.colls
                                   THEN [a EXCEPT !.colls = @ \ {op.name},
                                                  !.aliases = RemoveCollection(@, op.name)]
                                   ELSE a]
      [] op.kind = "aliases" ->
             LET r == ChangeAlias([ok |-> TRUE, aliases |-> a.aliases], op.actions[k], a.colls)
             IN [ok |-> r.ok, app |-> [a EXCEPT !.aliases = r.aliases]]
      [] op.kind \in {"learner", "voter", "remove"} -> [ok |-> TRUE, app |-> ConfPart(a, op, k)]
      [] op.kind = "empty" -> [ok |-> TRUE, app |-> a]

RemovesThis(op) == op.kind = "remove" /\ op.peer = This

\* The parts of an operation from one of them on, up to the first that fails.
PerformFrom(a, op, from) ==
    LET done[k \in (from - 1)..Parts(op)] ==
            IF k = from - 1 THEN [ok |-> TRUE, app |-> a]
            ELSE IF done[k - 1].ok THEN Part(done[k - 1].app, op, k) ELSE done[k - 1]
    IN done[Parts(op)].app

Perform(a, op) == PerformFrom(a, op, 1)

\* The entries from one index to another are applied to a state.
Replay(a, entries, from, to) ==
    LET after[k \in (from - 1)..to] ==
            IF k = from - 1 THEN a ELSE Perform(after[k - 1], entries[k].op)
    IN after[to]

\* The state after the first n entries of the log.
Result(entries, n) == Replay(App0, entries, 1, n)

-----------------------------------------------------------------------------
(* ConsensusOpWal and the queue of Persistent                              *)

FirstIndex == IF wal # <<>> THEN Head(wal).index ELSE ps.snap + 1
LastIndex == IF wal # <<>> THEN wal[Len(wal)].index ELSE ps.snap

\* The record that entry(id) reads: the numbers of the records start with 0,
\* and the offset is taken from the first one.
At(id) == id - Head(wal).index + 1
Readable(id) == wal # <<>> /\ id >= Head(wal).index /\ At(id) <= Len(wal)

\* A slip: entries in conflict are not cut off.
AppendedAlways(w, e) == Append(w, e)

\* append_entries: entries that are in conflict are cut off, unless the
\* conflict is with the last one only.
Appended(w, e) ==
    LET offset == Head(w).index IN
    IF w = <<>> THEN <<e>>
    ELSE IF e.index < Len(w) - 1 + offset
         THEN Append(SubSeq(w, 1, e.index - offset), e)
         ELSE Append(w, e)

LastApplied == ps.queue[1] - 1
Unapplied == ps.queue[1] <= ps.queue[2]

-----------------------------------------------------------------------------
(* The raft library                                                        *)

Entry(op, term) == [term |-> term, op |-> op]
Placed(i) ==
    CASE scenario.rewrites = "no" -> i = Len(log) + 1
      [] scenario.rewrites = "several" -> i # Len(log)
      [] OTHER -> TRUE

\* A leader promotes a learner when nothing is left uncommitted.  Raft has no
\* configuration without a voter.
Proposable(entries, op) ==
    LET a == Result(entries, Len(entries)) IN
    /\ op.kind = "voter" => op.peer \in a.learners
    /\ op.kind \in {"learner", "remove"} => a.voters \ {op.peer} # {}

Delivers(entries, new, term) ==
    \E c \in ps.commit..Len(entries) : \E l \in c..Len(entries) :
        /\ <<new, c, l>> # <<<<>>, ps.commit, ps.commit>> \/ ps.commit > given
        /\ ready' = [snapshot |-> None, entries |-> new, term |-> term, commit |-> c,
                     light |-> l, stable |-> Len(entries) - Len(new)]
        /\ log' = entries
        /\ pc' = "append"

Ready ==
    /\ pc = "idle"
    /\ \E term \in 1..scenario.terms : \E op \in scenario.ops : \E i \in (ps.commit + 1)..(Len(log) + 1) :
          /\ term >= ps.term
          /\ i <= MaxIndex
          /\ Placed(i)
          /\ i <= Len(log) => term > log[i].term
          /\ LET kept == SubSeq(log, 1, i - 1) IN
             /\ Proposable(kept, op)
             /\ Delivers(Append(kept, Entry(op, term)),
                         <<[index |-> i, term |-> term, op |-> op]>>, term)
    /\ UNCHANGED <<wal, ps, app, sub, given, top, again, broken, crashes, scenario>>

\* No new entries: more of them are committed, or are not applied yet.
ReadyCommitted ==
    /\ pc = "idle"
    /\ Delivers(log, <<>>, ps.term)
    /\ UNCHANGED <<wal, ps, app, sub, given, top, again, broken, crashes, scenario>>

\* A snapshot of a leader that is one entry ahead of what is committed here.
\* A peer that is removed gets none.
ReadySnapshot ==
    /\ scenario.snapshots
    /\ pc = "idle"
    /\ ps.commit < MaxIndex /\ ps.term > 0
    /\ \E op \in scenario.ops :
          LET chosen == Append(SubSeq(log, 1, ps.commit), Entry(op, ps.term)) IN
          /\ Proposable(SubSeq(log, 1, ps.commit), op)
          /\ \A k \in 1..Len(chosen) : ~ RemovesThis(chosen[k].op)
          /\ log' = chosen
          /\ ready' = [snapshot |-> [index |-> Len(chosen), data |-> Result(chosen, Len(chosen))],
                       entries |-> <<>>, term |-> ps.term, commit |-> Len(chosen),
                       light |-> Len(chosen), stable |-> Len(chosen)]
    /\ pc' = "snapshot"
    /\ UNCHANGED <<wal, ps, app, sub, given, top, again, broken, crashes, scenario>>

-----------------------------------------------------------------------------
(* apply_snapshot                                                          *)

ApplySnapshot ==
    /\ pc = "snapshot"
    /\ app' = [app EXCEPT !.colls = ready.snapshot.data.colls]
    /\ pc' = "aliases"
    /\ UNCHANGED <<log, wal, ps, sub, ready, given, top, again, broken, crashes, scenario>>

ApplyAliases ==
    /\ pc = "aliases"
    /\ app' = [app EXCEPT !.aliases = ready.snapshot.data.aliases]
    /\ pc' = "clear"
    /\ UNCHANGED <<log, wal, ps, sub, ready, given, top, again, broken, crashes, scenario>>

ClearWal ==
    /\ pc = "clear"
    /\ wal' = <<>>
    /\ pc' = "restore"
    /\ UNCHANGED <<log, ps, app, sub, ready, given, top, again, broken, crashes, scenario>>

UpdateFromSnapshot ==
    /\ pc = "restore"
    /\ LET s == ready.snapshot IN
       /\ ps' = [ps EXCEPT !.commit = s.index, !.snap = s.index, !.queue = <<s.index + 1, s.index>>]
       /\ app' = [app EXCEPT !.voters = s.data.voters, !.learners = s.data.learners,
                             !.known = s.data.known]
    /\ pc' = "append"
    /\ given' = ready.snapshot.index
    /\ top' = ready.snapshot.index
    /\ again' = {}
    /\ broken' = FALSE
    /\ UNCHANGED <<log, wal, sub, ready, crashes, scenario>>

-----------------------------------------------------------------------------
(* process_ready and process_light_ready                                   *)

\* A slip: the hard state is saved before the entries.
AppendEntriesAfter ==
    /\ pc = "append"
    /\ IF ps.commit # ready.commit
       THEN /\ ps' = [ps EXCEPT !.term = ready.term, !.commit = ready.commit]
            /\ UNCHANGED <<wal, pc>>
       ELSE /\ wal' = IF ready.entries = <<>> THEN wal ELSE Appended(wal, Head(ready.entries))
            /\ pc' = "hard"
            /\ UNCHANGED ps
    /\ UNCHANGED <<log, app, sub, ready, given, top, again, broken, crashes, scenario>>

AppendEntries ==
    /\ pc = "append"
    /\ wal' = IF ready.entries = <<>> THEN wal ELSE Appended(wal, Head(ready.entries))
    /\ pc' = "hard"
    /\ UNCHANGED <<log, ps, app, sub, ready, given, top, again, broken, crashes, scenario>>

SetHardState ==
    /\ pc = "hard"
    /\ ps' = [ps EXCEPT !.term = ready.term, !.commit = ready.commit]
    /\ pc' = "committed"
    /\ UNCHANGED <<log, wal, app, sub, ready, given, top, again, broken, crashes, scenario>>

\* handle_committed_entries: the queue becomes what raft hands out, which is what it
\* has not handed out since the peer was started.
Handle(upTo, applying, done) ==
    IF upTo > given
    THEN /\ ps' = [ps EXCEPT !.queue = <<given + 1, upTo>>]
         /\ pc' = applying
         /\ given' = upTo
         /\ again' = IF given < LastApplied THEN again \cup {<<given + 1, LastApplied>>} ELSE again
    ELSE /\ pc' = done
         /\ UNCHANGED <<ps, given, again>>

\* The entries of this Ready are not among those that are handed out with it.
Committed ==
    /\ pc = "committed"
    /\ Handle(IF ready.commit < ready.stable THEN ready.commit ELSE ready.stable, "apply", "advance")
    /\ UNCHANGED <<log, wal, app, sub, ready, top, broken, crashes, scenario>>

SetCommitIndex ==
    /\ pc = "advance"
    /\ ps' = [ps EXCEPT !.commit = ready.light]
    /\ pc' = "light"
    /\ UNCHANGED <<log, wal, app, sub, ready, given, top, again, broken, crashes, scenario>>

LightCommitted ==
    /\ pc = "light"
    /\ Handle(ready.light, "apply_light", "idle")
    /\ UNCHANGED <<log, wal, app, sub, ready, top, broken, crashes, scenario>>

-----------------------------------------------------------------------------
(* apply_entries                                                           *)

After == [apply |-> "advance", apply_light |-> "idle", recover |-> "idle"]
Done == 0
Applying == pc \in DOMAIN After

\* One part of the current entry.  An error other than a service error counts
\* as applied; the removal of this peer ends the thread, but does not keep it
\* from starting.
Apply ==
    /\ Applying
    /\ Unapplied
    /\ sub # Done
    /\ IF ~ Readable(ps.queue[1])
       THEN pc' = "broken" /\ UNCHANGED <<app, sub>>
       ELSE LET op == wal[At(ps.queue[1])].op
                r  == Part(app, op, sub)
            IN /\ app' = r.app
               /\ IF RemovesThis(op) /\ sub = Parts(op)
                  THEN /\ sub' = 1
                       /\ pc' = IF pc = "recover" THEN "idle" ELSE "stopped"
                  ELSE /\ sub' = IF r.ok /\ sub < Parts(op) THEN sub + 1 ELSE Done
                       /\ UNCHANGED pc
    /\ UNCHANGED <<log, wal, ps, ready, given, top, again, broken, crashes, scenario>>

\* A slip: the progress is not recorded.
EntryAppliedForgotten ==
    /\ Applying
    /\ sub = Done
    /\ sub' = 1
    /\ UNCHANGED <<log, wal, ps, app, pc, ready, given, top, again, broken, crashes, scenario>>

EntryApplied ==
    /\ Applying
    /\ sub = Done
    /\ ps' = [ps EXCEPT !.queue[1] = @ + 1]
    /\ sub' = 1
    /\ top' = IF ps.queue[1] > top THEN ps.queue[1] ELSE top
    /\ UNCHANGED <<log, wal, app, pc, ready, given, again, broken, crashes, scenario>>

QueueEmpty ==
    /\ Applying
    /\ ~ Unapplied
    /\ pc' = After[pc]
    /\ UNCHANGED <<log, wal, ps, app, sub, ready, given, top, again, broken, crashes, scenario>>

\* Every tick tries again what is left.
Tick ==
    /\ pc = "idle"
    /\ Unapplied
    /\ pc' = "apply_light"
    /\ UNCHANGED <<log, wal, ps, app, sub, ready, given, top, again, broken, crashes, scenario>>

-----------------------------------------------------------------------------
\* What is applied of the current entry: the whole entry after that leads to the same
\* state as the rest of it.
Resumable ==
    Applying /\ Unapplied /\ Readable(ps.queue[1]) =>
        LET op == wal[At(ps.queue[1])].op IN
        Perform(app, op) = IF sub = Done THEN app ELSE PerformFrom(app, op, sub)

Crash ==
    /\ crashes < scenario.crashes
    /\ pc \in scenario.crashAt
    /\ crashes' = crashes + 1
    /\ pc' = "down"
    /\ sub' = 1
    /\ ready' = NoReady
    /\ given' = 0
    /\ broken' = (broken \/ ~ Resumable)
    /\ UNCHANGED <<log, wal, ps, app, top, again, scenario>>

\* The library refuses a state whose commit index is not in the log, or whose
\* applied index is not committed.
RaftAccepts ==
    /\ FirstIndex - 1 <= ps.commit /\ ps.commit <= LastIndex
    /\ LastApplied > 0 => FirstIndex - 1 <= LastApplied /\ LastApplied <= ps.commit

\* The applied index is read before what is left in the queue is applied.
Restart ==
    /\ pc = "down"
    /\ pc' = IF RaftAccepts THEN "recover" ELSE "broken"
    /\ log' = SubSeq(log, 1, FirstIndex - 1) \o [k \in 1..Len(wal) |-> Entry(wal[k].op, wal[k].term)]
    /\ given' = LastApplied
    /\ UNCHANGED <<wal, ps, app, sub, ready, top, again, broken, crashes, scenario>>

-----------------------------------------------------------------------------
Process ==
    \/ ApplySnapshot \/ ApplyAliases \/ ClearWal \/ UpdateFromSnapshot
    \/ AppendEntries \/ SetHardState \/ Committed \/ SetCommitIndex \/ LightCommitted
    \/ Apply \/ EntryApplied \/ QueueEmpty \/ Tick
    \/ Restart

Next == Ready \/ ReadyCommitted \/ ReadySnapshot \/ Process \/ Crash

Spec == Init /\ [][Next]_vars

\* The thread goes on with what it has started and asks raft for more when it
\* is through, and a peer that is down is started again.
Fairness == WF_vars(Process) /\ WF_vars(ReadyCommitted)

FairSpec == Spec /\ Fairness

-----------------------------------------------------------------------------
\* The variables have the values that the code can give them.
TypeOK ==
    /\ Len(log) <= MaxIndex
    /\ scenario \in Scenarios /\ ps.term \in 0..scenario.terms /\ ps.commit \in 0..MaxIndex /\ ps.snap \in 0..MaxIndex
    /\ ps.queue[2] \in 0..MaxIndex /\ ps.queue[1] \in 1..(ps.queue[2] + 1)
    /\ app.colls \subseteq Names /\ app.aliases \in [Names -> Names \cup {None}]
    /\ app.voters \cup app.learners \cup app.known \subseteq Peers

\* Between two rounds the storage gives raft the log that raft believes in:
\* the records are numbered without a gap from the first one, which
\* append_entries asserts (wal_index == index - offset).
StorageIsLog ==
    pc = "idle" =>
        /\ LastIndex = Len(log)
        /\ \A id \in FirstIndex..LastIndex :
              /\ Readable(id)
              /\ wal[At(id)] = [index |-> id, term |-> log[id].term, op |-> log[id].op]

\* Between two rounds the peer has exactly the state that the applied entries
\* lead to: the apply_progress_queue holds operations that "this peer didn't
\* apply them yet".  It is false: after a crash the entries that were left are
\* applied when the peer starts, and then raft hands them out again.
StateIsAlwaysLogPrefix == pc = "idle" /\ ~ Unapplied => app = Result(log, LastApplied)

\* The entries of a stretch lead to the same state when they are applied again.
Repeatable(stretch) ==
    LET reached == Result(log, stretch[2]) IN
    Replay(reached, log, stretch[1], stretch[2]) = reached

\* It is true as long as what was applied again leads to the same state: the entries that
\* raft hands out a second time, and an entry that a crash has interrupted.
StateIsLogPrefix ==
    ~ broken /\ (\A stretch \in again : Repeatable(stretch)) => StateIsAlwaysLogPrefix

\* What is saved never has an applied entry beyond the commit index: committed
\* entries are handled after the hard state is saved, as process_ready says.
AppliedIsCommitted == LastApplied <= ps.commit

\* The peer starts after a crash, wherever the crash was: Persistent keeps the
\* state "which should be saved between restarts".
CanRestart == pc # "broken"

\* A node that becomes a voter has an address: apply_conf_change_entry asserts
\* "Peer should be already known".  It is false while entries are repeated: the
\* promotion of a peer that a later one of them has removed.
VotersAreAlwaysKnown ==
    This \in app.voters \cup app.learners => app.voters \subseteq app.known

\* It is true whenever no entry is being repeated.
VotersAreKnown == LastApplied = top => VotersAreAlwaysKnown

\* What a peer has saved is consistent at every moment and after every crash: it can be
\* started again, has applied what is committed and nothing else, and knows its voters
\* (process_ready, apply_entries, apply_snapshot, Persistent).
SavedIsConsistent == StateIsLogPrefix /\ AppliedIsCommitted /\ CanRestart /\ VotersAreKnown

\* Every committed entry is applied in the end, by this run of the peer or by
\* a later one, unless the peer has been removed.
CommittedIsApplied ==
    \A i \in 1..MaxIndex : ps.commit >= i ~> (LastApplied >= i \/ pc = "stopped")
=============================================================================
