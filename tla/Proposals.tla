----------------------------- MODULE Proposals ------------------------------
(***************************************************************************)
(* How callers on a peer get their operations into the consensus and hear  *)
(* of the result: Dispatcher::submit_collection_meta_op waits for a leader *)
(* (IsReady), registers for the operations it expects to follow, sends its *)
(* own to the consensus thread and waits; the thread, when it applies an   *)
(* entry, takes the sender that is registered for an equal operation.      *)
(* Proposals may be rejected or lost, and other peers propose as well.     *)
(***************************************************************************)
EXTENDS Naturals, Sequences

CONSTANTS Callers,
          Ops,             \* operations; equal ones cannot be told apart
          Expect,          \* the operations that a caller expects to follow one
          Others,          \* operations that other peers propose
          MaxApplied,      \* bound on how often an operation is applied
          MaxRoleChanges,  \* bound on the changes of the leader
          None

VARIABLES
    established,  \* is_leader_established
    woken,        \* callers that make_ready has woken up
    pc,           \* of the callers
    op,           \* the operation of a caller
    receiver,     \* what the receivers of a caller hold
    answer,       \* what a caller returns
    signal,       \* on_consensus_op_apply: the caller whose sender is registered
    channel,      \* operations on their way to the consensus thread
    raft,         \* operations that raft has accepted
    applying,     \* the entry being applied and the sender taken for it
    applied,      \* how often an operation was applied
    since,        \* that number when a caller sent its operation
    roles

vars == <<established, woken, pc, op, receiver, answer, signal, channel, raft, applying, applied,
          since, roles>>
callers == <<woken, pc, op, receiver, answer>>

Init ==
    /\ established = FALSE
    /\ woken = {}
    /\ pc = [c \in Callers |-> "idle"]
    /\ op = [c \in Callers |-> None]
    /\ receiver = [c \in Callers |-> [o \in Ops |-> "none"]]
    /\ answer = [c \in Callers |-> None]
    /\ signal = [o \in Ops |-> None]
    /\ channel = <<>>
    /\ raft = <<>>
    /\ applying = None
    /\ applied = [o \in Ops |-> 0]
    /\ since = [c \in Callers |-> applied]
    /\ roles = 0

-----------------------------------------------------------------------------
(* Senders and receivers                                                   *)

\* A new sender for each of the operations.  The sender that it replaces is
\* dropped, and its receiver hears of that.
Registered(c, os) ==
    /\ signal' = [o \in Ops |-> IF o \in os THEN c ELSE signal[o]]
    /\ receiver' = [d \in Callers |-> [o \in Ops |->
          IF o \notin os THEN receiver[d][o]
          ELSE IF d = c THEN "open"
          ELSE IF signal[o] = d /\ receiver[d][o] = "open" THEN "dropped"
          ELSE receiver[d][o]]]

Ends(c, result) ==
    /\ pc' = [pc EXCEPT ![c] = "end"]
    /\ answer' = [answer EXCEPT ![c] = result]
    /\ receiver' = [receiver EXCEPT ![c] = [o \in Ops |-> "none"]]

-----------------------------------------------------------------------------
(* The callers                                                             *)

\* submit_collection_meta_op, up to the registration for what is expected
Submit(c) ==
    /\ pc[c] = "idle"
    /\ \E o \in Ops :
          /\ op' = [op EXCEPT ![c] = o]
          /\ Registered(c, Expect[o])
    /\ pc' = [pc EXCEPT ![c] = "check"]
    /\ UNCHANGED <<established, woken, answer, channel, raft, applying, applied, since, roles>>

\* await_ready_for_timeout
CheckReady(c) ==
    /\ pc[c] = "check"
    /\ pc' = [pc EXCEPT ![c] = IF established THEN "propose" ELSE "waiting"]
    /\ UNCHANGED <<established, woken, op, receiver, answer, signal, channel, raft, applying,
                   applied, since, roles>>

\* The wait was ended by a notification; the value is not looked at again.
LeaderReady(c) ==
    /\ pc[c] = "waiting"
    /\ c \in woken
    /\ woken' = woken \ {c}
    /\ pc' = [pc EXCEPT ![c] = "propose"]
    /\ UNCHANGED <<established, op, receiver, answer, signal, channel, raft, applying, applied,
                   since, roles>>

NoLeader(c) ==
    /\ pc[c] = "waiting"
    /\ c \notin woken
    /\ Ends(c, "no leader")
    /\ UNCHANGED <<established, woken, op, signal, channel, raft, applying, applied, since, roles>>

\* A slip: a sender that is registered already is kept.
ProposeKeeps(c) ==
    /\ pc[c] = "propose"
    /\ channel' = Append(channel, op[c])
    /\ IF signal[op[c]] = None
       THEN Registered(c, {op[c]})
       ELSE receiver' = [receiver EXCEPT ![c][op[c]] = "open"] /\ UNCHANGED signal
    /\ since' = [since EXCEPT ![c] = applied]
    /\ pc' = [pc EXCEPT ![c] = "await"]
    /\ UNCHANGED <<established, woken, op, answer, raft, applying, applied, roles>>

\* The operation is sent and the sender registered under one lock.
Propose(c) ==
    /\ pc[c] = "propose"
    /\ channel' = Append(channel, op[c])
    /\ Registered(c, {op[c]})
    /\ since' = [since EXCEPT ![c] = applied]
    /\ pc' = [pc EXCEPT ![c] = "await"]
    /\ UNCHANGED <<established, woken, op, answer, raft, applying, applied, roles>>

\* A slip: a sender that was dropped is not noticed, and the wait has no end.
AwaitForever(c) ==
    /\ pc[c] = "await"
    /\ receiver[c][op[c]] = "applied"
    /\ pc' = [pc EXCEPT ![c] = "expect"]
    /\ UNCHANGED <<established, woken, op, receiver, answer, signal, channel, raft, applying,
                   applied, since, roles>>

\* await_receiver: the result, or the sender was dropped.
Await(c) ==
    /\ pc[c] = "await"
    /\ \/ /\ receiver[c][op[c]] = "applied"
          /\ pc' = [pc EXCEPT ![c] = "expect"]
          /\ UNCHANGED <<receiver, answer>>
       \/ /\ receiver[c][op[c]] = "dropped"
          /\ Ends(c, "dropped")
    /\ UNCHANGED <<established, woken, op, signal, channel, raft, applying, applied, since, roles>>

\* A slip: a dropped sender passes for success.
AwaitExpectedDropped(c) ==
    /\ pc[c] = "expect"
    /\ \A o \in Expect[op[c]] : receiver[c][o] # "open"
    /\ Ends(c, "active")
    /\ UNCHANGED <<established, woken, op, signal, channel, raft, applying, applied, since, roles>>

\* await_for_multiple_operations: whatever becomes of them, the result is
\* that of the operation itself.
AwaitExpected(c) ==
    /\ pc[c] = "expect"
    /\ \A o \in Expect[op[c]] : receiver[c][o] # "open"
    /\ Ends(c, IF \A o \in Expect[op[c]] : receiver[c][o] = "applied" THEN "active" ELSE "applied")
    /\ UNCHANGED <<established, woken, op, signal, channel, raft, applying, applied, since, roles>>

\* The receivers are dropped; the senders stay where they are.
Timeout(c) ==
    /\ \/ pc[c] = "await" /\ receiver[c][op[c]] = "open"
       \/ pc[c] = "expect" /\ \E o \in Expect[op[c]] : receiver[c][o] = "open"
    /\ Ends(c, IF pc[c] = "await" THEN "timeout" ELSE "applied")
    /\ UNCHANGED <<established, woken, op, signal, channel, raft, applying, applied, since, roles>>

-----------------------------------------------------------------------------
(* The consensus thread and raft                                           *)

\* process_role_change
RoleChange ==
    /\ roles < MaxRoleChanges
    /\ roles' = roles + 1
    /\ established' = ~ established
    /\ woken' = IF established THEN woken ELSE {c \in Callers : pc[c] = "waiting"}
    /\ UNCHANGED <<pc, op, receiver, answer, signal, channel, raft, applying, applied, since>>

\* propose_updates: an error of raft is logged, and nobody is told.
ProposeUpdates ==
    /\ channel # <<>>
    /\ channel' = Tail(channel)
    /\ raft' \in {raft, Append(raft, Head(channel))}
    /\ UNCHANGED <<established, callers, signal, applying, applied, since, roles>>

\* An operation of another peer.
OtherPeer ==
    /\ \E o \in Others :
          /\ applied[o] + Len(SelectSeq(raft, LAMBDA x : x = o)) < MaxApplied
          /\ raft' = Append(raft, o)
    /\ UNCHANGED <<established, callers, signal, channel, applying, applied, since, roles>>

\* A new leader does not have the proposal.
Lost ==
    /\ \E k \in 1..Len(raft) : raft' = SubSeq(raft, 1, k - 1) \o SubSeq(raft, k + 1, Len(raft))
    /\ UNCHANGED <<established, callers, signal, channel, applying, applied, since, roles>>

Sent(to, o) ==
    IF to # None /\ receiver[to][o] = "open"
    THEN receiver' = [receiver EXCEPT ![to][o] = "applied"]
    ELSE UNCHANGED receiver

\* A slip: the result is sent before the operation is performed.
ApplyEntryEarly ==
    /\ applying = None
    /\ raft # <<>>
    /\ LET o == Head(raft) IN
       /\ applying' = [op |-> o, to |-> None]
       /\ signal' = [signal EXCEPT ![o] = None]
       /\ Sent(signal[o], o)
    /\ raft' = Tail(raft)
    /\ UNCHANGED <<established, woken, pc, op, answer, channel, applied, since, roles>>

\* apply_normal_entry takes the sender ...
ApplyEntry ==
    /\ applying = None
    /\ raft # <<>>
    /\ LET o == Head(raft) IN
       /\ applying' = [op |-> o, to |-> signal[o]]
       /\ signal' = [signal EXCEPT ![o] = None]
    /\ raft' = Tail(raft)
    /\ UNCHANGED <<established, callers, channel, applied, since, roles>>

\* ... performs the operation, and sends the result.
Performed ==
    /\ applying # None
    /\ applied' = [applied EXCEPT ![applying.op] = @ + 1]
    /\ Sent(applying.to, applying.op)
    /\ applying' = None
    /\ UNCHANGED <<established, woken, pc, op, answer, signal, channel, raft, since, roles>>

-----------------------------------------------------------------------------
Thread == ProposeUpdates \/ ApplyEntry \/ Performed
Caller(c) ==
    \/ CheckReady(c) \/ LeaderReady(c) \/ NoLeader(c) \/ Propose(c) \/ Await(c)
    \/ AwaitExpected(c) \/ Timeout(c)

Next == Thread \/ RoleChange \/ OtherPeer \/ Lost \/ (\E c \in Callers : Submit(c) \/ Caller(c))

Spec == Init /\ [][Next]_vars

\* The thread runs, every caller that can go on does, and its timers go off.
Fairness == WF_vars(Thread) /\ \A c \in Callers : WF_vars(Caller(c))

FairSpec == Spec /\ Fairness

-----------------------------------------------------------------------------
\* The variables have the values that the code can give them.
TypeOK ==
    /\ woken \subseteq {c \in Callers : pc[c] = "waiting"}
    /\ signal \in [Ops -> Callers \cup {None}]
    /\ receiver \in [Callers -> [Ops -> {"none", "open", "applied", "dropped"}]]
    /\ applying # None => applying.op \in Ops /\ applying.to \in Callers \cup {None}

\* A caller never waits in vain: its sender is registered, or the thread has
\* taken it and is about to use it.
WaitsForSomething ==
    \A c \in Callers : \A o \in Ops :
        receiver[c][o] = "open" => signal[o] = c \/ (applying # None /\ applying = [op |-> o, to |-> c])

\* A caller that hears of success has had its operation applied since it sent
\* it, by its own proposal or by an equal one.
SuccessIsApplied ==
    \A c \in Callers : answer[c] \in {"applied", "active"} => applied[op[c]] > since[c][op[c]]

\* A caller that returns because everything it expected has come is right,
\* though it registered for that before it sent its own operation.
ActiveIsApplied ==
    \A c \in Callers : answer[c] = "active" => \A o \in Expect[op[c]] : applied[o] > 0

\* "Fires a signal if some specific operation is applied": a caller whose
\* operation is applied after it was sent is not told that it failed.
AppliedFires ==
    \A c \in Callers : answer[c] = "dropped" => applied[op[c]] = since[c][op[c]]

\* await_ready_for_timeout returns "`true` if ready".
ReadyIsReady == [][\A c \in Callers : LeaderReady(c) => established]_vars

\* Every call ends, whatever is lost.
CallsEnd == \A c \in Callers : pc[c] # "idle" ~> pc[c] = "end"
=============================================================================
