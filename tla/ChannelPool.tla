----------------------------- MODULE ChannelPool -----------------------------
(***************************************************************************)
(* The calls to another peer (lib/api/src/grpc/transport_channel_pool.rs,  *)
(* dynamic_pool.rs, dynamic_channel_pool.rs): a pool of channels for the   *)
(* address of the peer, one of which every call takes, a health check that *)
(* runs beside the call, and the retries.                                  *)
(*                                                                         *)
(* There is one address.  A channel is connected to the server that had    *)
(* the address when it was made; the server may stop, hang, or move, and a *)
(* channel to where it was is dead.  Time is counted in ticks of a second, *)
(* SMART_CONNECT_INTERVAL: what an item keeps is how long ago it           *)
(* succeeded, up to Ttl + 2.  An item is a member of 1..MaxItems; the      *)
(* number of a dropped one is used again.                                  *)
(***************************************************************************)
EXTENDS Integers, FiniteSetsExt, Sequences

CONSTANTS Callers,      \* tasks that call the peer, over and over
          Scenarios,    \* records [callers, size, retries, faults,
                        \* removes, slow]
          MaxItems,     \* bound on the items that exist at a time
          MaxUsage,     \* max_usage_per_item: usize::MAX
          Limit,        \* usize::MAX
          Ttl,          \* CHANNEL_TTL, in ticks
          CheckTimeout  \* HEALTH_CHECK_TIMEOUT, in ticks

VARIABLES scenario,     \* the callers, pool_size, the retries of a call, the faults,
                        \* and whether requests may take long
          peer,         \* the server: its state and where it is
          known,        \* id_to_address has the peer
          pool,         \* uri_to_pool: <<>>, or the items of the pool
          item,         \* 1..MaxItems -> usage, ticks since the last success, place
          call,         \* Callers -> the call in progress
          faults,       \* the faults so far
          dropped       \* history: the age of an item that was dropped last

vars == <<scenario, peer, known, pool, item, call, faults, dropped>>

Items == 1..MaxItems
NoItem == [usage |-> 0, age |-> 0, place |-> 0]
NoCall == [pc |-> "idle", item |-> 0, retries |-> 0, cause |-> "none",
           behind |-> 0, watch |-> "off", checked |-> 0, since |-> 0,
           ok |-> FALSE, spoilt |-> FALSE]

Init ==
    /\ scenario \in Scenarios
    /\ peer = [state |-> "up", place |-> 1]
    /\ known = TRUE
    /\ pool = <<>>
    /\ item = [i \in Items |-> NoItem]
    /\ call = [c \in Callers |-> NoCall]
    /\ faults = 0
    /\ dropped = Ttl + 1

Saturated(n) == IF n > Limit THEN Limit ELSE n

Pooled == IF pool = <<>> THEN {} ELSE pool[1]

\* The items that no one holds and that are in no pool.
Free(its) == {i \in Items : its[i].usage = 0 /\ i \notin Pooled}

\* A request through the item is answered, hangs, or fails at once.
Answers(i) == peer.state = "up" /\ item[i].place = peer.place
Hangs(i) == peer.state = "frozen" \/ item[i].place # peer.place
Breaks(i) == peer.state = "down" \/ item[i].place # peer.place

-----------------------------------------------------------------------------
(* The lock of uri_to_pool.  It is held while channels are made, and       *)
(* otherwise within a step.                                                *)

Readable == \A c \in Callers : call[c].pc \notin {"init", "build", "enlarge"}

Writable(c) ==
    \A d \in Callers : /\ call[d].pc # "connect"
                       /\ call[d].watch # "connect"
                       /\ d # c => call[d].pc \notin {"build", "enlarge"}

-----------------------------------------------------------------------------
(* DynamicPool                                                             *)

Usage(i) == item[i].usage

\* choose: the item and the items left in the pool; no choice, if the pool is to
\* be enlarged.
Chosen ==
    LET S == Pooled
        total == MapThenSumSet(Usage, S)
        usable == {i \in S : Usage(i) < MaxUsage}
        least == {i \in usable : \A j \in usable : Usage(i) <= Usage(j)}
        capacity == Saturated(Cardinality(S) * MaxUsage)
        spare == IF capacity > total THEN capacity - total ELSE 0
        shrinks == Cardinality(S) > scenario.size /\ spare > Saturated(2 * MaxUsage)
    IN IF Cardinality(S) < scenario.size THEN {}
       ELSE {[item |-> i, left |-> IF shrinks THEN S \ {i} ELSE S] : i \in least}

\* CountedItem::new and its drop
Held(its, i) == [its EXCEPT ![i].usage = @ + 1]
Released(its, i) == IF i = 0 THEN its ELSE [its EXCEPT ![i].usage = @ - 1]

\* add: the new item is in use at once
Added(i) == [item EXCEPT ![i] = [usage |-> 1, age |-> 0, place |-> peer.place]]

\* report_success
Success(its, i) == [its EXCEPT ![i].age = 0]

\* last_success_age: the clock was read behind ticks ago, the time of the success
\* only now.  The difference of the two is a usize.
SuccessAge(i, behind) ==
    IF item[i].age >= behind THEN item[i].age - behind ELSE Limit

-----------------------------------------------------------------------------
(* A call: with_channel_timeout, _make_request                             *)

With(c, r) == call' = [call EXCEPT ![c] = r]

\* A call to a peer without an address is refused at once.
Start(c) ==
    /\ call[c].pc = "idle"
    /\ known
    /\ With(c, [NoCall EXCEPT !.pc = "get", !.retries = scenario.retries])
    /\ UNCHANGED <<scenario, peer, known, pool, item, faults, dropped>>

\* The request runs, and the health check beside it.
Running(r, i) == [r EXCEPT !.pc = "run", !.item = i, !.watch = "sleep"]

\* DynamicChannelPool::choose; the lock of uri_to_pool is held while it connects, for
\* reading ("connect") or for writing ("enlarge")
Choose(c, r, connecting) ==
    IF Chosen = {} THEN With(c, [r EXCEPT !.pc = connecting]) /\ UNCHANGED <<pool, item>>
    ELSE \E x \in Chosen : /\ With(c, Running(r, x.item))
                            /\ pool' = <<x.left>>
                            /\ item' = Held(item, x.item)

\* get_or_create_pooled_channel, get_pooled_channel
GetChannel(c) ==
    /\ call[c].pc = "get"
    /\ Readable
    /\ IF pool = <<>> THEN With(c, [call[c] EXCEPT !.pc = "init"]) /\ UNCHANGED <<pool, item>>
       ELSE Choose(c, call[c], "connect")
    /\ UNCHANGED <<scenario, peer, known, faults, dropped>>

\* init_pool_for_uri: it has the lock for writing until the channels are made
InitPool(c) ==
    /\ call[c].pc = "init"
    /\ Writable(c)
    /\ IF pool = <<>> THEN With(c, [call[c] EXCEPT !.pc = "build"]) /\ UNCHANGED <<pool, item>>
       ELSE Choose(c, call[c], "enlarge")
    /\ UNCHANGED <<scenario, peer, known, faults, dropped>>

\* The connection is refused, or not made in time: RequestConnection.
ConnectFails(c) == With(c, [call[c] EXCEPT !.pc = "decide", !.cause = "connection"])

\* _init_pool_for_uri, and the choice of one of the new channels
BuildPool(c) ==
    /\ call[c].pc = "build"
    /\ IF peer.state # "up" THEN ConnectFails(c) /\ UNCHANGED <<pool, item>>
       ELSE LET S == CHOOSE S \in kSubset(scenario.size, Free(item)) : TRUE
                i == CHOOSE i \in S : TRUE
            IN
              /\ pool' = <<S>>
              /\ item' = Held([j \in Items |-> IF j \in S THEN [NoItem EXCEPT !.place = peer.place]
                                               ELSE item[j]], i)
              /\ With(c, Running(call[c], i))
    /\ UNCHANGED <<scenario, peer, known, faults, dropped>>

\* A channel is made, and added to the pool.
Connect(c) ==
    /\ call[c].pc \in {"connect", "enlarge"}
    /\ IF peer.state # "up" THEN ConnectFails(c) /\ UNCHANGED <<pool, item>>
       ELSE LET i == CHOOSE i \in Free(item) : TRUE
            IN /\ pool' = <<pool[1] \cup {i}>>
               /\ item' = Added(i)
               /\ With(c, Running(call[c], i))
    /\ UNCHANGED <<scenario, peer, known, faults, dropped>>

\* The health check and what it holds go with the request.
Ended(r) == [r EXCEPT !.watch = "off", !.checked = 0, !.since = 0]

Answer(c) ==
    LET r == call[c]
    IN /\ r.pc = "run" /\ Answers(r.item)
       /\ item' = Released(Released(Success(item, r.item), r.item), r.checked)
       /\ With(c, [NoCall EXCEPT !.ok = TRUE])
       /\ UNCHANGED <<scenario, peer, known, pool, faults, dropped>>

\* The select of _make_request has ended with a failure; history: by the check of a
\* dead channel, although the one of the request works.
Fails(c, cause) ==
    /\ item' = Released(item, call[c].checked)
    /\ With(c, [Ended(call[c]) EXCEPT !.pc = "failed", !.cause = cause,
                                      !.spoilt = cause = "check" /\ Answers(call[c].item)])
    /\ UNCHANGED <<scenario, peer, known, pool, dropped>>

\* Status Unavailable
Break(c) ==
    /\ call[c].pc = "run" /\ Breaks(call[c].item)
    /\ Fails(c, "unavailable")
    /\ UNCHANGED faults

\* The peer answers with an error of its own.
Refuse(c, cause) ==
    /\ call[c].pc = "run" /\ Answers(call[c].item)
    /\ faults < scenario.faults
    /\ faults' = faults + 1
    /\ Fails(c, cause)

\* Status DeadlineExceeded
Timeout(c) ==
    /\ call[c].pc = "run" /\ Hangs(call[c].item)
    /\ Fails(c, "deadline")
    /\ UNCHANGED faults

\* last_success_age reads the clock ...
ReadClock(c) ==
    /\ call[c].pc = "failed"
    /\ With(c, [call[c] EXCEPT !.pc = "age", !.behind = 0])
    /\ UNCHANGED <<scenario, peer, known, pool, item, faults, dropped>>

\* A slip of LeaveChannel: dead channels stay in the pool.
KeepChannel(c) ==
    /\ call[c].pc = "age"
    /\ item' = Released(item, call[c].item)
    /\ With(c, [call[c] EXCEPT !.pc = "decide", !.item = 0, !.behind = 0])
    /\ UNCHANGED <<scenario, peer, known, pool, faults, dropped>>

\* ... and then the time of the last success.  drop_channel
LeaveChannel(c) ==
    LET i == call[c].item
        drops == SuccessAge(i, call[c].behind) > Ttl
    IN /\ call[c].pc = "age"
       /\ drops => Readable
       /\ pool' = IF drops /\ pool # <<>> THEN <<pool[1] \ {i}>> ELSE pool
       /\ dropped' = IF drops /\ i \in Pooled THEN item[i].age ELSE Ttl + 1
       /\ item' = Released(item, i)
       /\ With(c, [call[c] EXCEPT !.pc = "decide", !.item = 0, !.behind = 0])
       /\ UNCHANGED <<scenario, peer, known, faults>>

RetryAction(cause) ==
    CASE cause \in {"nochannel", "deadline", "refused"} -> "fail"
      [] cause \in {"connection", "unavailable", "check"} -> "backoff"
      [] cause = "checkconnect" -> "immediately"
      [] cause = "internal" -> "once"

RetriesLeft(r) ==
    IF RetryAction(r.cause) = "once" /\ r.retries > 1 THEN 1 ELSE r.retries

\* The next attempt, or the error of the last one.
Decide(c) ==
    LET r == call[c]
        left == RetriesLeft(r)
    IN /\ r.pc = "decide"
       /\ With(c, IF RetryAction(r.cause) = "fail" \/ left = 0 THEN NoCall
                  ELSE [NoCall EXCEPT !.pc = "get", !.retries = left - 1])
       /\ UNCHANGED <<scenario, peer, known, pool, item, faults, dropped>>

-----------------------------------------------------------------------------
(* check_connectability                                                    *)

\* The channel that is checked may be another one than that of the request.
CheckNow(c) ==
    /\ call[c].watch = "due"
    /\ Readable
    /\ IF pool = <<>> THEN Fails(c, "nochannel")
       ELSE /\ IF Chosen = {}
               THEN With(c, [call[c] EXCEPT !.watch = "connect"]) /\ UNCHANGED <<pool, item>>
               ELSE \E x \in Chosen :
                      /\ With(c, [call[c] EXCEPT !.watch = "check", !.checked = x.item])
                      /\ pool' = <<x.left>>
                      /\ item' = Held(item, x.item)
            /\ UNCHANGED <<scenario, peer, known, dropped>>
    /\ UNCHANGED faults

CheckConnects(c) ==
    /\ call[c].watch = "connect"
    /\ IF peer.state # "up" THEN Fails(c, "checkconnect")
       ELSE /\ LET i == CHOOSE i \in Free(item) : TRUE
               IN
                 /\ pool' = <<pool[1] \cup {i}>>
                 /\ item' = Added(i)
                 /\ With(c, [call[c] EXCEPT !.watch = "check", !.checked = i])
            /\ UNCHANGED <<scenario, peer, known, dropped>>
    /\ UNCHANGED faults

CheckAnswered(c) ==
    /\ call[c].watch = "check" /\ Answers(call[c].checked)
    /\ item' = Released(Success(item, call[c].checked), call[c].checked)
    /\ With(c, [call[c] EXCEPT !.watch = "sleep", !.checked = 0, !.since = 0])
    /\ UNCHANGED <<scenario, peer, known, pool, faults, dropped>>

CheckBreaks(c) ==
    /\ call[c].watch = "check" /\ Breaks(call[c].checked)
    /\ Fails(c, "check")
    /\ UNCHANGED faults

\* Other requests may have succeeded with this channel in the meantime.
CheckTimesOut(c) ==
    LET i == call[c].checked
    IN /\ call[c].watch = "check" /\ Hangs(i) /\ call[c].since >= CheckTimeout
       /\ IF SuccessAge(i, 0) > CheckTimeout THEN Fails(c, "check")
          ELSE /\ item' = Released(item, i)
               /\ With(c, [call[c] EXCEPT !.watch = "sleep", !.checked = 0, !.since = 0])
               /\ UNCHANGED <<scenario, peer, known, pool, dropped>>
       /\ UNCHANGED faults

-----------------------------------------------------------------------------
(* The peer and the clock                                                  *)

\* remove_peer, drop_pool
RemovePeer ==
    /\ scenario.removes /\ known
    /\ \A c \in Callers : Writable(c)
    /\ known' = FALSE
    /\ pool' = <<>>
    /\ UNCHANGED <<scenario, peer, item, call, faults, dropped>>

\* The server hangs, stops, recovers, or is started in another place.
ServerFails(state) ==
    /\ faults < scenario.faults /\ peer.state = "up" /\ state # "up"
    /\ faults' = faults + 1
    /\ peer' = [peer EXCEPT !.state = state]
    /\ UNCHANGED <<scenario, known, pool, item, call, dropped>>

ServerReturns(place) ==
    /\ peer.state # "up"
    /\ peer.state = "frozen" => place = peer.place
    /\ peer' = [state |-> "up", place |-> place]
    /\ UNCHANGED <<scenario, known, pool, item, call, faults, dropped>>

\* The two reads of last_success_age are at most one tick apart.  Unless requests
\* are slow, an answer does not take a tick.
Tick ==
    /\ \A c \in Callers : /\ call[c].behind = 0
                          /\ call[c].pc = "run" /\ Answers(call[c].item) => scenario.slow
    /\ item' = [i \in Items |->
                  IF item[i].usage = 0 /\ i \notin Pooled THEN NoItem
                  ELSE [item[i] EXCEPT !.age = IF @ > Ttl + 1 THEN @ ELSE @ + 1]]
    /\ call' = [c \in Callers |->
                  [call[c] EXCEPT !.behind = IF call[c].pc = "age" THEN 1 ELSE 0,
                                  !.watch = IF @ = "sleep" THEN "due" ELSE @,
                                  !.since = IF call[c].watch = "check" /\ @ < CheckTimeout
                                            THEN @ + 1 ELSE @]]
    /\ UNCHANGED <<scenario, peer, known, pool, faults, dropped>>

Checking(c) ==
    \/ CheckNow(c) \/ CheckConnects(c) \/ CheckAnswered(c) \/ CheckBreaks(c)
    \/ CheckTimesOut(c)

\* A task that calls goes on ...
Calling(c) ==
    /\ c \in scenario.callers
    /\ \/ Start(c) \/ BuildPool(c) \/ Connect(c) \/ Answer(c) \/ Break(c) \/ Timeout(c)
       \/ ReadClock(c) \/ Decide(c)

\* ... gets the lock of the pools, or its health check does.
Locking(c) ==
    /\ c \in scenario.callers
    /\ GetChannel(c) \/ InitPool(c) \/ LeaveChannel(c) \/ Checking(c)

Next ==
    \/ \E c \in Callers : \/ Calling(c) \/ Locking(c)
                          \/ \E cause \in {"internal", "refused"} : Refuse(c, cause)
    \/ RemovePeer
    \/ \E state \in {"frozen", "down"} : ServerFails(state)
    \/ \E place \in 1..2 : ServerReturns(place)
    \/ Tick

\* Every task runs, the clock does, and a timer that is due fires.  The lock is
\* given to the tasks in the order they asked for it (tokio's RwLock).
Fairness ==
    /\ \A c \in Callers : WF_vars(Calling(c)) /\ SF_vars(Locking(c))
    /\ WF_vars(scenario.callers # {} /\ Tick)

Spec == Init /\ [][Next]_vars /\ Fairness

-----------------------------------------------------------------------------
\* Every call ends, with an answer or an error, although connections are made with
\* the lock of all pools held (with_channel_timeout, init_pool_for_uri).
CallsEnd == \A c \in Callers : (call[c].pc = "get") ~> (call[c].pc = "idle")

\* Calls succeed again after the peer was started in another place: the channels to
\* where it was are not used forever (_make_request, CHANNEL_TTL).  If requests are
\* slow, the health check runs beside them and tries the least used channel, a dead one:
\* it may end all of them, and the channel that works is the one that is dropped.
Reconnects ==
    <>[](peer.state = "up" /\ known) =>
        \A c \in Callers : \/ []<>(c \in scenario.callers => call[c].ok)
                           \/ scenario.slow /\ []<>call[c].spoilt

\* The same of requests that take their time ("If it can't get healthcheck response in
\* the timeout, it assumes the channel is dead").
AlwaysReconnects ==
    <>[](peer.state = "up" /\ known) => \A c \in Callers : []<>(c \in scenario.callers => call[c].ok)

\* A channel is given up only when no request has succeeded with it for Ttl
\* ("Try to recreate channel, if there were no successful requests within this time").
DroppedIsIdle == dropped > Ttl
=============================================================================
