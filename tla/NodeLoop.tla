------------------------------ MODULE NodeLoop ------------------------------
(***************************************************************************)
(* The event loop of one node seen from its callers: NodeHandle::propose,  *)
(* the bounded proposal queue, PendingMap, process_decisions with the      *)
(* bounded decision channel, and the ways Node::run ends, all of           *)
(* daccord/src/node.rs.  A caller is a call of Client::propose of          *)
(* daccord-client/src/client.rs, whose first attempt the service hands to  *)
(* this node.  With one endpoint a call is one of NodeHandle::propose.     *)
(*                                                                         *)
(* The protocol is external here: proposals become entries of one log, or  *)
(* are lost, and the node learns each entry of it once, or never.  That    *)
(* all nodes have one log is what RaftCluster shows for ordered links.  A  *)
(* Paxos cluster may disagree about a slot (PaxosCluster, Agreement); what *)
(* is said here of a slot's value then holds of the log of the node that   *)
(* answers the call.                                                       *)
(***************************************************************************)
EXTENDS Integers, Sequences, FiniteSets, SequencesExt

CONSTANTS
    Caller,                     \* the calls
    Value,                      \* the payloads
    Nil,                        \* no value; also stands for other nodes' callers
    Endpoints,                  \* how many endpoints a client knows
    PROPOSAL_CHANNEL_CAPACITY,
    DECISION_CHANNEL_CAPACITY,
    MaxSlot,                    \* bound: the last slot that is decided
    MaxBatch                    \* bound: decisions drained by one event

ASSUME NodeLoopAssumption ==
    /\ Endpoints \in Nat \ {0}
    /\ PROPOSAL_CHANNEL_CAPACITY \in Nat \ {0}
    /\ DECISION_CHANNEL_CAPACITY \in Nat \ {0}
    /\ MaxSlot \in Nat /\ MaxBatch \in Nat

VARIABLES
    caller,            \* each call: its payload, where it is, and its reply
    handles,           \* whether a NodeHandle is left
    queue,             \* the proposal channel: callers, oldest first
    pending,           \* PendingMap: the callers whose nonces it holds
    proposing,         \* the proposals that may still be decided
    log,               \* what the cluster has decided, slot s at position s + 1
    learned,           \* the slots whose decisions the node has saved
    draining,          \* the rest of the decisions of process_decisions
    decision_channel,  \* the decisions on their way to the consumer
    receiving,         \* whether the DecisionReceiver is still there
    dropped,           \* the slots whose delivery was dropped
    receiver_alive,    \* Node::run still waits for messages
    loop               \* "running", "returning", "closing" or "stopped"

calls == <<caller, handles, queue>>
cluster == <<proposing, log>>
delivery == <<decision_channel, receiving, dropped>>
nodeVars == <<calls, pending, cluster, learned, draining, delivery, receiver_alive, loop>>

Slot == 0..MaxSlot

\* The nonce of a call's first or second attempt, and of proposals of others.
Nonce == (Caller \X {1, 2}) \cup {<<Nil, 1>>}

\* The nonce 0 of an entry that was read back from storage.
ZeroNonce == <<Nil, 0>>

Idle == [value |-> Nil, state |-> "idle", reply |-> "none", slot |-> Nil]

\* rx: whether the application consumes the decisions.
NodeInit(rx) ==
    /\ caller = [c \in Caller |-> Idle]
    /\ handles = TRUE
    /\ queue = <<>>
    /\ pending = {}
    /\ proposing = {}
    /\ log = <<>>
    /\ learned = {}
    /\ draining = <<>>
    /\ decision_channel = <<>>
    /\ receiving = rx
    /\ dropped = {}
    /\ receiver_alive = TRUE
    /\ loop = "running"

-----------------------------------------------------------------------------
(* Calls.                                                                  *)

\* The client goes to its second endpoint after an answer that the service turns
\* into Unavailable, if it has one; every other answer is the call's result.
Answered(r, reply) ==
    [r EXCEPT !.reply = reply,
              !.state = IF reply \in {"NotRunning", "Cancelled"} /\ Endpoints >= 2
                        THEN "backoff" ELSE "done"]

\* The calls in cs that still wait for this node are answered.
Cancelled(cs) ==
    [c \in Caller |-> IF c \in cs /\ caller[c].state = "waiting"
                      THEN Answered(caller[c], "Cancelled") ELSE caller[c]]

\* Mutant: the bound is checked one too late.
ProposeOverFull(c, v) ==
    /\ caller[c].state = "idle"
    /\ handles
    /\ LET called == [Idle EXCEPT !.value = v, !.state = "waiting"]
           closed == loop = "stopped"
           full == Len(queue) > PROPOSAL_CHANNEL_CAPACITY
       IN  /\ caller' = [caller EXCEPT ![c] = IF closed THEN Answered(called, "NotRunning")
                                              ELSE IF full THEN Answered(called, "ChannelFull")
                                              ELSE called]
           /\ queue' = IF closed \/ full THEN queue ELSE Append(queue, c)
    /\ UNCHANGED <<handles, pending, cluster, learned, draining, delivery, receiver_alive, loop>>

\* Mutant: a full queue refuses the call and keeps it instead of the oldest.
ProposeReplacesOldest(c, v) ==
    /\ caller[c].state = "idle"
    /\ handles
    /\ LET called == [Idle EXCEPT !.value = v, !.state = "waiting"]
           closed == loop = "stopped"
           full == Len(queue) >= PROPOSAL_CHANNEL_CAPACITY
       IN  /\ caller' = [caller EXCEPT ![c] = IF closed THEN Answered(called, "NotRunning")
                                              ELSE IF full THEN Answered(called, "ChannelFull")
                                              ELSE called]
           /\ queue' = IF closed THEN queue ELSE IF full THEN Append(Tail(queue), c)
                     ELSE Append(queue, c)
    /\ UNCHANGED <<handles, pending, cluster, learned, draining, delivery, receiver_alive, loop>>

\* try_send finds the queue closed, full, or open; then the call waits.
propose(c, v) ==
    /\ caller[c].state = "idle"
    /\ handles
    /\ LET called == [Idle EXCEPT !.value = v, !.state = "waiting"]
           closed == loop = "stopped"
           full == Len(queue) >= PROPOSAL_CHANNEL_CAPACITY
       IN  /\ caller' = [caller EXCEPT ![c] = IF closed THEN Answered(called, "NotRunning")
                                              ELSE IF full THEN Answered(called, "ChannelFull")
                                              ELSE called]
           /\ queue' = IF closed \/ full THEN queue ELSE Append(queue, c)
    /\ UNCHANGED <<handles, pending, cluster, learned, draining, delivery, receiver_alive, loop>>

\* The caller drops its future: a timeout around the call, a closed connection.
GiveUp(c) ==
    /\ caller[c].state = "waiting"
    /\ caller' = [caller EXCEPT ![c].state = "given up"]
    /\ UNCHANGED <<handles, queue, pending, cluster, learned, draining, delivery,
                   receiver_alive, loop>>

\* The second attempt goes to another node, or does not reach it.
retry(c) ==
    /\ caller[c].state = "backoff"
    /\ \/ /\ caller' = [caller EXCEPT ![c].state = "elsewhere"]
          /\ proposing' = proposing \cup {<<c, 2>>}
       \/ /\ caller' = [caller EXCEPT ![c].state = "done"]
          /\ UNCHANGED proposing
    /\ UNCHANGED <<handles, queue, pending, log, learned, draining, delivery, receiver_alive, loop>>

\* The other node fails the call, or answers it as remove_for_decision does: when it
\* learns the second attempt's decision by its nonce, or any decision with its payload
\* that has lost its nonce on the way, be it the first attempt's or another call's.
AnswerElsewhere(c) ==
    /\ caller[c].state = "elsewhere"
    /\ \/ \E s \in 0..(Len(log) - 1) :
             /\ log[s + 1].nonce = <<c, 2>> \/ log[s + 1].value = caller[c].value
             /\ caller' = [caller EXCEPT ![c].state = "answered elsewhere",
                                         ![c].reply = "Ok", ![c].slot = s]
       \/ caller' = [caller EXCEPT ![c].state = "done"]
    /\ UNCHANGED <<handles, queue, pending, cluster, learned, draining, delivery,
                   receiver_alive, loop>>

\* The last handle is dropped; a waiting call borrows one.
DropHandles ==
    /\ handles
    /\ \A c \in Caller : caller[c].state # "waiting"
    /\ handles' = FALSE
    /\ UNCHANGED <<caller, queue, pending, cluster, learned, draining, delivery,
                   receiver_alive, loop>>

-----------------------------------------------------------------------------
(* The cluster.                                                            *)

\* A proposal of this node or of a second attempt is decided.
Decide(nonce) ==
    /\ nonce \in proposing
    /\ Len(log) <= MaxSlot
    /\ log' = Append(log, [nonce |-> nonce, value |-> caller[nonce[1]].value])
    /\ proposing' = proposing \ {nonce}
    /\ UNCHANGED <<calls, pending, learned, draining, delivery, receiver_alive, loop>>

\* So is one of another node's callers.
DecideOther(v) ==
    /\ Len(log) <= MaxSlot
    /\ log' = Append(log, [nonce |-> <<Nil, 1>>, value |-> v])
    /\ UNCHANGED <<calls, pending, proposing, learned, draining, delivery, receiver_alive, loop>>

\* A proposal is lost, forwarded to a node that is gone.
Lose(nonce) ==
    /\ nonce \in proposing
    /\ proposing' = proposing \ {nonce}
    /\ UNCHANGED <<calls, pending, log, learned, draining, delivery, receiver_alive, loop>>

-----------------------------------------------------------------------------
(* The loop.                                                               *)

\* The loop is waiting in select!.
Selecting == loop = "running" /\ draining = <<>>

Unlearned == {s \in 0..(Len(log) - 1) : s \notin learned}

\* drain_decisions: some entries the node did not know are saved and come back in
\* order; those that reached it through a node that recovered have nonce 0.
drain_decisions(new, recovered) ==
    /\ learned' = learned \cup new
    /\ draining' = [i \in 1..Cardinality(new) |->
                       LET s == SetToSortSeq(new, <)[i]
                       IN  [slot |-> s, live |-> s \notin recovered]]

Batches == {new \in SUBSET Unlearned : Cardinality(new) <= MaxBatch}

\* The submission is registered and proposed.
handle_submission ==
    /\ Selecting
    /\ queue # <<>>
    /\ queue' = Tail(queue)
    /\ pending' = pending \cup {Head(queue)}
    /\ proposing' = proposing \cup {<<Head(queue), 1>>}
    /\ \E new \in Batches : \E recovered \in SUBSET new : drain_decisions(new, recovered)
    /\ UNCHANGED <<caller, handles, log, delivery, receiver_alive, loop>>

\* A message: it may bring decisions.  A Paxos node takes a decision that lacks
\* the nonce of its own proposal for another value, and proposes again.
handle_incoming_bytes ==
    /\ Selecting
    /\ receiver_alive
    /\ \E new \in Batches \ {{}} : \E recovered \in SUBSET new :
          /\ drain_decisions(new, recovered)
          /\ \E again \in SUBSET ({log[s + 1].nonce : s \in recovered} \cap (Caller \X {1})) :
                proposing' = proposing \cup again
    /\ UNCHANGED <<calls, pending, log, delivery, receiver_alive, loop>>

\* A tick: a node that is its own quorum decides, and a recovered one applies what
\* was committed before.
handle_retries ==
    /\ Selecting
    /\ \E new \in Batches \ {{}} : \E recovered \in SUBSET new : drain_decisions(new, recovered)
    /\ UNCHANGED <<calls, pending, cluster, delivery, receiver_alive, loop>>

\* Mutant: a recovered value completes every caller that proposed it.
AllOfValue(nonce, value) ==
    IF nonce # ZeroNonce
    THEN {{c \in pending : <<c, 1>> = nonce}}
    ELSE {{c \in pending : caller[c].value = value}}

\* Mutant: a recovered value completes nobody.
NonceOnly(nonce, value) == {{c \in pending : <<c, 1>> = nonce}}

\* Mutant: a recovered value completes any caller.
AnyPending(nonce, value) ==
    IF nonce # ZeroNonce
    THEN {{c \in pending : <<c, 1>> = nonce}}
    ELSE IF pending = {} THEN {{}} ELSE {{c} : c \in pending}

\* The entry with the nonce, or for nonce 0 any one entry with the value: the sets
\* of callers that may be removed.
remove_for_decision(nonce, value) ==
    LET ofValue == {c \in pending : caller[c].value = value}
    IN  IF nonce # ZeroNonce
        THEN {{c \in pending : <<c, 1>> = nonce}}
        ELSE IF ofValue = {} THEN {{}} ELSE {{c} : c \in ofValue}

\* try_send to the consumer: dropped when the channel is full, ignored when the
\* receiver is gone.
try_send(slot) ==
    LET full == Len(decision_channel) >= DECISION_CHANNEL_CAPACITY
    IN  /\ decision_channel' = IF receiving /\ ~full
                               THEN Append(decision_channel, slot) ELSE decision_channel
        /\ dropped' = IF receiving /\ full THEN dropped \cup {slot} ELSE dropped

\* The next decision completes its caller and goes to the consumer.  The consumer
\* runs on another thread, so each decision is a step.
process_decisions ==
    /\ draining # <<>>
    /\ LET d == Head(draining)
           entry == log[d.slot + 1]
       IN  /\ \E done \in remove_for_decision(IF d.live THEN entry.nonce ELSE ZeroNonce, entry.value) :
                 /\ pending' = pending \ done
                 /\ caller' = [c \in Caller |->
                       IF c \notin done THEN caller[c]
                       ELSE IF caller[c].state = "waiting"
                            THEN [Answered(caller[c], "Ok") EXCEPT !.slot = d.slot]
                            ELSE [caller[c] EXCEPT !.slot = d.slot]]
           /\ try_send(d.slot)
    /\ draining' = Tail(draining)
    /\ UNCHANGED <<handles, queue, cluster, learned, receiving, receiver_alive, loop>>

\* The receiver fails: without proposals in the protocol the node goes on without
\* it.  A follower that forwarded its proposals counts as idle too.
ReceiverFails ==
    /\ Selecting
    /\ receiver_alive
    /\ \/ loop' = "returning" /\ UNCHANGED receiver_alive
       \/ receiver_alive' = FALSE /\ UNCHANGED loop
    /\ UNCHANGED <<calls, pending, cluster, learned, draining, delivery>>

\* A storage error, a handler that panics or the task being aborted end the loop;
\* so does the closed queue once it is empty.
Return ==
    /\ Selecting
    /\ loop' = "returning"
    /\ UNCHANGED <<calls, pending, cluster, learned, draining, delivery, receiver_alive>>

Shutdown ==
    /\ Selecting
    /\ ~handles
    /\ queue = <<>>
    /\ loop' = "returning"
    /\ UNCHANGED <<calls, pending, cluster, learned, draining, delivery, receiver_alive>>

\* The locals of run are dropped first: PendingMap cancels what it holds.
drop_pending ==
    /\ loop = "returning"
    /\ caller' = Cancelled(pending)
    /\ pending' = {}
    /\ loop' = "closing"
    /\ UNCHANGED <<handles, queue, cluster, learned, draining, delivery, receiver_alive>>

\* Mutant: what is still queued is forgotten.
QueueLeaked ==
    /\ loop = "closing"
    /\ queue' = <<>>
    /\ loop' = "stopped"
    /\ UNCHANGED <<caller, handles, pending, cluster, learned, draining, delivery, receiver_alive>>

\* Then the node itself, with the queue and every completion in it.
drop_node ==
    /\ loop = "closing"
    /\ caller' = Cancelled(Range(queue))
    /\ queue' = <<>>
    /\ loop' = "stopped"
    /\ UNCHANGED <<handles, pending, cluster, learned, draining, delivery, receiver_alive>>

NodeNext ==
    \/ \E c \in Caller, v \in Value : propose(c, v)
    \/ \E c \in Caller : GiveUp(c)
    \/ \E c \in Caller : retry(c)
    \/ \E c \in Caller : AnswerElsewhere(c)
    \/ DropHandles
    \/ \E nonce \in Nonce : Decide(nonce)
    \/ \E v \in Value : DecideOther(v)
    \/ \E nonce \in Nonce : Lose(nonce)
    \/ handle_submission
    \/ handle_incoming_bytes
    \/ handle_retries
    \/ process_decisions
    \/ ReceiverFails
    \/ Return
    \/ Shutdown
    \/ drop_pending
    \/ drop_node

\* The loop is a task the runtime keeps polling: it takes what is in its queue, goes on
\* with decisions it has begun, and drops what it owns.  Nothing says that a decision
\* reaches the node: Raft waits for an entry of the leader's own term, and Paxos
\* broadcasts a decision again for five seconds only.
NodeFairness ==
    /\ WF_nodeVars(handle_submission)
    /\ WF_nodeVars(process_decisions)
    /\ WF_nodeVars(drop_pending)
    /\ WF_nodeVars(drop_node)

\* An application that proposes and has dropped the DecisionReceiver; DemoService
\* has the one that consumes the decisions.
Init == NodeInit(FALSE)

Spec == Init /\ [][NodeNext]_nodeVars /\ NodeFairness

-----------------------------------------------------------------------------
(* Properties.                                                             *)

\* The state has the shape of the code's types, and the proposal channel never holds
\* more than its capacity: propose refuses the call instead.
TypeOK ==
    /\ caller \in [Caller -> [value : Value \cup {Nil},
                              state : {"idle", "waiting", "given up", "backoff", "elsewhere",
                                       "answered elsewhere", "done"},
                              reply : {"none", "Ok", "NotRunning", "ChannelFull", "Cancelled"},
                              slot : Slot \cup {Nil}]]
    /\ queue \in Seq(Caller)
    /\ Len(queue) <= PROPOSAL_CHANNEL_CAPACITY
    /\ pending \subseteq Caller
    /\ proposing \subseteq Caller \X {1, 2}
    /\ log \in Seq([nonce : Nonce, value : Value])
    /\ learned \subseteq Slot
    /\ draining \in Seq([slot : Slot, live : BOOLEAN])

\* A call that returns Ok returns a slot in which the cluster decided its payload,
\* also when the decision came without its nonce.
AnswersTrue ==
    \A c \in Caller : caller[c].reply = "Ok" => log[caller[c].slot + 1].value = caller[c].value

\* The calls this node has completed, also those whose caller has given up.
Completed == {c \in Caller : caller[c].slot # Nil /\ caller[c].state # "answered elsewhere"}

\* The node never completes two calls with one slot, even if their payloads are the
\* same and decisions come without their nonces.  A call that was answered by another
\* node may share its slot: there, too, the match is by value.
SlotsNotShared ==
    \A c, d \in Completed : caller[c].slot = caller[d].slot => c = d

\* The slots whose decisions the loop has dealt with.
Processed == learned \ {draining[i].slot : i \in DOMAIN draining}

\* A caller is left in PendingMap after its own decision only if this node completed
\* a call with the same payload by it: the match by value is all that stands between
\* a recovered entry and a caller that hangs.
NotStranded ==
    \A c \in pending, s \in Processed :
        log[s + 1].nonce = <<c, 1>> =>
            \E d \in Completed \ {c} : caller[d].slot = s /\ caller[d].value = caller[c].value

\* A call refused with ChannelFull or NotRunning leaves nothing behind: its first
\* attempt is never decided.
RefusedNotProposed ==
    \A c \in Caller : caller[c].reply \in {"ChannelFull", "NotRunning"} =>
        /\ <<c, 1>> \notin proposing
        /\ \A s \in DOMAIN log : log[s].nonce # <<c, 1>>

\* Once Node::run returns, no call goes on waiting for this node, whether its
\* submission is registered, queued, or arrives while the node is being dropped.
EndAnswers ==
    \A c \in Caller : (loop # "running" /\ caller[c].state = "waiting")
                          ~> caller[c].state # "waiting"

=============================================================================
