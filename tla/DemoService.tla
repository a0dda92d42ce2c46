----------------------------- MODULE DemoService -----------------------------
(***************************************************************************)
(* From a node's decisions to a client that watches them: the event loop   *)
(* of module NodeLoop, collect_decisions, DecisionLog and watch_decisions  *)
(* of daccord-demo/src/service.rs, and watch_stream of                     *)
(* daccord-client/src/watch.rs.  A decision is represented by its slot:    *)
(* the payload is the one the cluster decided for it.                      *)
(*                                                                         *)
(* The event loop, the collector, the stream of the watch and the client   *)
(* are tasks of their own.  Node::run that fails ends the process, which   *)
(* is started again.                                                       *)
(***************************************************************************)
EXTENDS NodeLoop

CONSTANTS
    Start,                        \* the start indexes a client may ask for
    DECISION_BROADCAST_CAPACITY,
    MaxFailures                   \* bound: restarts and broken connections together

ASSUME DemoServiceAssumption ==
    /\ Start \subseteq Nat
    /\ DECISION_BROADCAST_CAPACITY \in Nat \ {0}
    /\ MaxFailures \in Nat

VARIABLES
    durable,    \* the node has a data directory
    entries,    \* DecisionLog: the slots it has
    appended,   \* a slot that is inserted and not broadcast yet, or Nil
    watch,      \* the stream of watch_decisions
    wire,       \* the decisions on their way to the client
    client,     \* watch_stream: its state, start index and what it has yielded
    failures    \* how many failures have happened

serviceVars == <<durable, entries, appended, watch, wire, client, failures>>
vars == <<nodeVars, serviceVars>>

NoWatch ==
    [phase |-> "none", from |-> 0, next_slot |-> 0, snapshot |-> <<>>, rx |-> <<>>,
     lagged |-> FALSE, buffered |-> {}]

ServiceInit ==
    /\ NodeInit(TRUE)
    /\ durable \in BOOLEAN
    /\ entries = {}
    /\ appended = Nil
    /\ watch = NoWatch
    /\ wire = <<>>
    /\ \E start \in Start : client = [state |-> "opening", start |-> start, yielded |-> <<>>]
    /\ failures = 0

-----------------------------------------------------------------------------
(* The decision log.                                                       *)

\* Mutant: a slot below one that is there is not inserted.
CollectInOrder ==
    /\ decision_channel # <<>>
    /\ appended = Nil
    /\ decision_channel' = Tail(decision_channel)
    /\ LET slot == Head(decision_channel)
       IN  IF slot \in entries THEN UNCHANGED <<entries, appended>>
           ELSE /\ entries' = IF \E s \in entries : s > slot THEN entries
                              ELSE entries \cup {slot}
                /\ appended' = slot
    /\ UNCHANGED <<calls, pending, cluster, learned, draining, receiving, dropped,
                   receiver_alive, loop, durable, watch, wire, client, failures>>

\* The next decision is inserted under the lock, unless its slot is there.
collect_decisions ==
    /\ decision_channel # <<>>
    /\ appended = Nil
    /\ decision_channel' = Tail(decision_channel)
    /\ LET slot == Head(decision_channel)
       IN  IF slot \in entries THEN UNCHANGED <<entries, appended>>
           ELSE entries' = entries \cup {slot} /\ appended' = slot
    /\ UNCHANGED <<calls, pending, cluster, learned, draining, receiving, dropped,
                   receiver_alive, loop, durable, watch, wire, client, failures>>

\* Mutant: the ring has no bound.
BroadcastGrows ==
    /\ appended # Nil
    /\ watch' = IF watch.phase \notin {"subscribed", "streaming"} THEN watch
                ELSE [watch EXCEPT !.rx = Append(@, appended)]
    /\ appended' = Nil
    /\ UNCHANGED <<nodeVars, durable, entries, wire, client, failures>>

\* Without the lock it is sent to the subscribers.  A full ring overwrites what
\* the subscriber has not read.
broadcast ==
    /\ appended # Nil
    /\ watch' = IF watch.phase \notin {"subscribed", "streaming"} THEN watch
                ELSE IF Len(watch.rx) < DECISION_BROADCAST_CAPACITY
                THEN [watch EXCEPT !.rx = Append(@, appended)]
                ELSE [watch EXCEPT !.rx = Append(Tail(@), appended), !.lagged = TRUE]
    /\ appended' = Nil
    /\ UNCHANGED <<nodeVars, durable, entries, wire, client, failures>>

\* range: how far a page from start_slot reaches.
range(start_slot, limit) ==
    CHOOSE next \in start_slot..(start_slot + limit) :
        /\ start_slot..(next - 1) \subseteq entries
        /\ next - start_slot < limit => next \notin entries

-----------------------------------------------------------------------------
(* The stream of a watch.                                                  *)

\* A decision reaches the stream: it is old, the next one, or one to keep.  The
\* next one brings those kept that follow it.
Offer(slot) ==
    LET last == CHOOSE l \in slot..(slot + Cardinality(watch.buffered)) :
                    /\ (slot + 1)..l \subseteq watch.buffered
                    /\ l + 1 \notin watch.buffered
    IN  IF slot < watch.next_slot THEN [watch |-> watch, out |-> <<>>]
        ELSE IF slot = watch.next_slot
        THEN [watch |-> [watch EXCEPT !.next_slot = last + 1,
                                      !.buffered = @ \ (slot..last)],
              out |-> [i \in 1..(last + 1 - slot) |-> slot + i - 1]]
        ELSE [watch |-> [watch EXCEPT !.buffered = @ \cup {slot}], out |-> <<>>]

\* Mutant: the client asks for the last slot it yielded again.
ReopenAtLast ==
    /\ client.state = "opening"
    /\ LET next == IF client.yielded = <<>> THEN client.start ELSE Last(client.yielded)
       IN  watch' = [NoWatch EXCEPT !.phase = "subscribed", !.from = next, !.next_slot = next]
    /\ wire' = <<>>
    /\ client' = [client EXCEPT !.state = "streaming"]
    /\ UNCHANGED <<nodeVars, durable, entries, appended, failures>>

\* The client asks for the slot after the last one it yielded, if there is one, and
\* the stream subscribes.
open_watch ==
    /\ client.state = "opening"
    /\ LET next == IF client.yielded = <<>> THEN client.start ELSE Last(client.yielded) + 1
       IN  watch' = [NoWatch EXCEPT !.phase = "subscribed", !.from = next, !.next_slot = next]
    /\ wire' = <<>>
    /\ client' = [client EXCEPT !.state = "streaming"]
    /\ UNCHANGED <<nodeVars, durable, entries, appended, failures>>

\* Then it reads the log.
snapshot ==
    /\ watch.phase = "subscribed"
    /\ watch' = [watch EXCEPT !.phase = "streaming", !.snapshot = SetToSortSeq(entries, <)]
    /\ UNCHANGED <<nodeVars, durable, entries, appended, wire, client, failures>>

\* It goes through the snapshot.
replay ==
    /\ watch.phase = "streaming"
    /\ watch.snapshot # <<>>
    /\ LET offer == Offer(Head(watch.snapshot))
       IN  /\ watch' = [offer.watch EXCEPT !.snapshot = Tail(@)]
           /\ wire' = wire \o offer.out
    /\ UNCHANGED <<nodeVars, durable, entries, appended, client, failures>>

\* Mutant: the stream goes on after it has lagged.
LagIgnored ==
    /\ watch.phase = "streaming"
    /\ watch.snapshot = <<>>
    /\ watch.rx # <<>>
    /\ LET offer == Offer(Head(watch.rx))
       IN  /\ watch' = [offer.watch EXCEPT !.rx = Tail(@), !.lagged = FALSE]
           /\ wire' = wire \o offer.out
    /\ UNCHANGED <<nodeVars, durable, entries, appended, client, failures>>

\* It receives what was broadcast since, or the error that it has lagged behind.
tail ==
    /\ watch.phase = "streaming"
    /\ watch.snapshot = <<>>
    /\ watch.rx # <<>>
    /\ IF watch.lagged
       THEN watch' = [watch EXCEPT !.phase = "ended"] /\ UNCHANGED wire
       ELSE LET offer == Offer(Head(watch.rx))
            IN  /\ watch' = [offer.watch EXCEPT !.rx = Tail(@)]
                /\ wire' = wire \o offer.out
    /\ UNCHANGED <<nodeVars, durable, entries, appended, client, failures>>

-----------------------------------------------------------------------------
(* The client.                                                             *)

yield ==
    /\ client.state = "streaming"
    /\ wire # <<>>
    /\ client' = [client EXCEPT !.yielded = Append(@, Head(wire))]
    /\ wire' = Tail(wire)
    /\ UNCHANGED <<nodeVars, durable, entries, appended, watch, failures>>

\* The stream has ended: the client waits a while and opens it again.
reconnect ==
    /\ client.state = "streaming"
    /\ wire = <<>>
    /\ watch.phase = "ended"
    /\ client' = [client EXCEPT !.state = "opening"]
    /\ UNCHANGED <<nodeVars, durable, entries, appended, watch, wire, failures>>

\* The connection breaks: what is on the wire is gone, and the client opens the
\* watch again, or ends its stream when the error is not a transient one.
Disconnect ==
    /\ client.state = "streaming"
    /\ failures < MaxFailures
    /\ failures' = failures + 1
    /\ watch' = NoWatch
    /\ wire' = <<>>
    /\ \E state \in {"opening", "failed"} : client' = [client EXCEPT !.state = state]
    /\ UNCHANGED <<nodeVars, durable, entries, appended>>

\* The process ends and is started again.  Memory storage starts empty, and the node
\* knows only what it learns again: everything if a Raft leader repairs its log, in
\* Paxos only what its peers decided within the last five seconds.  With a data
\* directory the decisions it has saved are not delivered again, and the log of the
\* service starts without them.
Restart ==
    /\ failures < MaxFailures
    /\ failures' = failures + 1
    /\ learned' = IF durable THEN learned ELSE {}
    /\ dropped' = IF durable THEN learned ELSE {}
    /\ draining' = <<>>
    /\ decision_channel' = <<>>
    /\ entries' = {}
    /\ appended' = Nil
    /\ watch' = IF watch.phase = "none" THEN watch ELSE [NoWatch EXCEPT !.phase = "ended"]
    /\ UNCHANGED <<calls, pending, cluster, receiving, receiver_alive, loop, durable, wire, client>>

\* The steps of the node: nobody proposes through it here.
NodeStep ==
    /\ \/ \E v \in Value : DecideOther(v)
       \/ handle_incoming_bytes
       \/ process_decisions
    /\ UNCHANGED serviceVars

ServiceNext ==
    \/ NodeStep
    \/ collect_decisions
    \/ broadcast
    \/ open_watch
    \/ snapshot
    \/ replay
    \/ tail
    \/ yield
    \/ reconnect
    \/ Disconnect
    \/ Restart

\* The tasks are polled as long as they can do something.  As in NodeFairness nothing
\* says that a decision reaches the node.
ServiceFairness ==
    /\ WF_vars(process_decisions /\ UNCHANGED serviceVars)
    /\ WF_vars(collect_decisions)
    /\ WF_vars(broadcast)
    /\ WF_vars(open_watch)
    /\ WF_vars(snapshot)
    /\ WF_vars(replay)
    /\ WF_vars(tail)
    /\ WF_vars(yield)
    /\ WF_vars(reconnect)

ServiceSpec == ServiceInit /\ [][ServiceNext]_vars /\ ServiceFairness

-----------------------------------------------------------------------------
(* Properties.                                                             *)

\* The state has the shape of the code's types, and neither the decision channel nor a
\* watcher's broadcast buffer ever holds more than its capacity: try_send drops the
\* decision, DecisionLog::append makes the watcher lag.
ServiceTypeOK ==
    /\ decision_channel \in Seq(Slot)
    /\ Len(decision_channel) <= DECISION_CHANNEL_CAPACITY
    /\ dropped \subseteq learned
    /\ entries \subseteq Slot
    /\ appended \in Slot \cup {Nil}
    /\ watch.phase \in {"none", "subscribed", "streaming", "ended"}
    /\ watch.buffered \subseteq Slot
    /\ Len(watch.rx) <= DECISION_BROADCAST_CAPACITY
    /\ wire \in Seq(Slot)
    /\ client.state \in {"opening", "streaming", "failed"}
    /\ client.yielded \in Seq(Slot)

\* The client yields the slots from its start index on, each once, in order and
\* without a gap, whatever order the decisions came in and however often it had to
\* reconnect; and each of them was decided.
WatchInOrder ==
    \A i \in DOMAIN client.yielded :
        /\ client.yielded[i] = client.start + i - 1
        /\ client.yielded[i] < Len(log)

\* The two ways to read agree: GetDecisions reaches at least as far as what a watch
\* of this process has been given.
PagesReachWatch ==
    watch.phase \in {"subscribed", "streaming"} =>
        range(watch.from, MaxSlot + 1) >= watch.next_slot

\* The node knows every decision from the client's start index up to slot s.
Known(s) == client.start <= s /\ client.start..s \subseteq learned

\* What the node has learned is yielded in the end, unless the delivery of it or of a
\* slot before it was dropped, the node has forgotten it in a restart, or the client
\* has failed: no decision falls between the snapshot and the subscription, and a
\* watch that lagged is opened again in time.
WatchDelivers ==
    \A s \in Slot :
        Known(s) ~> \/ s \in Range(client.yielded)
                    \/ \E d \in dropped : client.start <= d /\ d <= s
                    \/ ~Known(s)
                    \/ client.state = "failed"

=============================================================================
