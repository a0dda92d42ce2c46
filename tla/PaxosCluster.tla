---------------------------- MODULE PaxosCluster -----------------------------
(***************************************************************************)
(* A cluster of Paxos nodes: the event loop of daccord/src/node.rs around  *)
(* the protocol of module PaxosProtocol.  As in RaftCluster an event is    *)
(* one step.  A Paxos node stores its decisions and nothing else, so the   *)
(* only writes a crash can separate are those of drain_decisions, which    *)
(* come after the messages are sent.  A crash before that is a lost        *)
(* message followed by a crash.                                            *)
(***************************************************************************)
EXTENDS PaxosProtocol

CONSTANTS
    MaxRound,     \* bound: no retry or election uses a higher round
    MaxInFlight,  \* bound: messages on all links together; the rest is lost
    MaxCrashes    \* bound: crashes in a behaviour

ASSUME BoundsAssumption ==
    MaxRound \in Nat /\ MaxInFlight \in Nat /\ MaxCrashes \in Nat

VARIABLES
    mem,          \* mem[n]: the protocol state of node n
    disk,         \* disk[n]: the value node n has stored for each slot, or Nil
    net,          \* net[i][j]: the messages sent by i and not yet received by j
    reproposing,  \* reproposing[n]: lost proposals node n is about to propose again
    proposed,     \* the values clients have submitted
    saves,        \* saves[n][slot]: how often node n has called save_decision (history)
    crashes       \* how many crashes have happened

vars == <<mem, disk, net, reproposing, proposed, saves, crashes>>

EmptyDisk == [slot \in Slot |-> Nil]

Init ==
    /\ disk = [n \in Node |-> EmptyDisk]
    /\ mem = [n \in Node |-> recover(EmptyDisk)]
    /\ net = [i \in Node |-> [j \in Node |-> <<>>]]
    /\ reproposing = [n \in Node |-> <<>>]
    /\ proposed = {}
    /\ saves = [n \in Node |-> [slot \in Slot |-> 0]]
    /\ crashes = 0

-----------------------------------------------------------------------------
(* The end of an event: send, save the decisions.                          *)

\* The links together hold no more than the bound.
Fits(links) ==
    Cardinality(UNION {{<<i, j, k>> : k \in DOMAIN links[i][j]} : i, j \in Node}) <= MaxInFlight

\* The senders' errors are ignored, so any part of what is sent may be lost.
send_outgoing(n, links, out) ==
    \E reached \in SUBSET {p \in Node : out[p] # <<>>} :
        /\ net' = [links EXCEPT ![n] =
                      [p \in Node |-> IF p \in reached
                                      THEN links[n][p] \o out[p]
                                      ELSE links[n][p]]]
        /\ Fits(net')

\* The storage after the first k pending decisions of s are saved, nonces dropped.
drain_decisions(s, d, k) ==
    LET saved == {s.pending_decisions[l] : l \in 1..k}
    IN  [slot \in Slot |-> IF slot \in saved THEN s.decided_slots[slot].value ELSE d[slot]]

\* The calls of save_decision per slot, c before the first k pending decisions of s.
Calls(s, c, k) ==
    [slot \in Slot |-> c[slot] + Cardinality({l \in 1..k : s.pending_decisions[l] = slot})]

\* A handler's result r takes full effect; links is the network without the
\* message that was handled.
Finish(n, r, links) ==
    /\ disk' = [disk EXCEPT ![n] =
                   drain_decisions(r.st, disk[n], Len(r.st.pending_decisions))]
    /\ saves' = [saves EXCEPT ![n] = Calls(r.st, saves[n], Len(r.st.pending_decisions))]
    /\ mem' = [mem EXCEPT ![n] = [r.st EXCEPT !.pending_decisions = <<>>]]
    /\ send_outgoing(n, links, r.out)
    /\ UNCHANGED crashes

\* The node restarts from what the storage then holds.
RestartFrom(n, d) ==
    /\ crashes < MaxCrashes
    /\ crashes' = crashes + 1
    /\ disk' = [disk EXCEPT ![n] = d]
    /\ mem' = [mem EXCEPT ![n] = recover(d)]

\* The node stops with only k of its decisions saved, its messages sent.
CrashInDrain(n, r, links) ==
    \E k \in 0..(Len(r.st.pending_decisions) - 1) :
        /\ RestartFrom(n, drain_decisions(r.st, disk[n], k))
        /\ saves' = [saves EXCEPT ![n] = Calls(r.st, saves[n], k)]
        /\ send_outgoing(n, links, r.out)

\* An event of node n; todo is what it leaves to be proposed again.
Event(n, r, links, todo) ==
    \/ /\ Finish(n, r, links)
       /\ reproposing' = [reproposing EXCEPT ![n] = todo]
    \/ /\ CrashInDrain(n, r, links)
       /\ reproposing' = [reproposing EXCEPT ![n] = <<>>]

\* The loop takes its next event once the previous one is over.
Ready(n) == reproposing[n] = <<>>

\* Bound: k further proposals of node n have a slot.
HasSlots(n, k) == mem[n].next_slot + k <= MaxSlot + 1

-----------------------------------------------------------------------------
(* The events.                                                             *)

\* A client submits v to node n.
handle_submission(n, v) ==
    /\ Ready(n)
    /\ HasSlots(n, 1)
    /\ v \notin proposed
    /\ proposed' = proposed \cup {v}
    /\ Event(n, propose(n, mem[n], Submitted(v)), net, <<>>)

Received(i, n) == [net EXCEPT ![i][n] = Tail(net[i][n])]

\* Node n handles the next message of node i; proposals that lost their slot are
\* taken and proposed again before the next event.
handle_incoming_bytes(n, i) ==
    /\ Ready(n)
    /\ net[i][n] # <<>>
    /\ LET m == Head(net[i][n])
           r == handle_message(n, mem[n], i, m)
       IN  /\ ~unwraps_none(mem[n], i, m)
           /\ m.type = "Forward" => HasSlots(n, 1)
           /\ Event(n, Result([r.st EXCEPT !.lost_proposals = <<>>], r.out),
                    Received(i, n), r.st.lost_proposals)
    /\ UNCHANGED proposed

\* A handler panics: the loop is gone and the node starts again.
handler_panics(n, i) ==
    /\ Ready(n)
    /\ net[i][n] # <<>>
    /\ unwraps_none(mem[n], i, Head(net[i][n]))
    /\ net' = Received(i, n)
    /\ mem' = [mem EXCEPT ![n] = recover(disk[n])]
    /\ UNCHANGED <<disk, reproposing, proposed, saves, crashes>>

\* The end of handle_incoming_bytes: the next lost proposal is proposed.
repropose_lost(n) ==
    /\ ~Ready(n)
    /\ HasSlots(n, 1)
    /\ Event(n, propose(n, mem[n], Head(reproposing[n])), net, Tail(reproposing[n]))
    /\ UNCHANGED proposed

\* Slots in some order, each at most once.
Arrangements(slots) ==
    {due \in UNION {[1..k -> slots] : k \in 0..Cardinality(slots)} :
        \A a, b \in DOMAIN due : due[a] = due[b] => a = b}

\* The timers that mean anything to a node in state s.
Timers(s) ==
    {t \in {"heartbeat", "election", "leader"} :
        /\ MultiPaxos
        /\ t = "heartbeat" => s.role = "Leader"
        /\ t = "election" => s.election # Nil
        /\ t = "leader" => check_leader_timeout(s) /\ s.highest_seen_round < MaxRound}

\* A tick with any of its timers due.
handle_retries(n) ==
    LET s == mem[n]
        retries == {slot \in Slot : retryable(s.instances[slot])
                                    /\ new_round(s.instances[slot]) <= MaxRound}
    IN  /\ Ready(n)
        /\ \E due \in Arrangements(retries), expired \in 0..Len(s.recent_decisions),
              late \in 0..Len(s.forwarded_proposals), timers \in SUBSET Timers(s) :
             /\ ~{"election", "leader"} \subseteq timers
             /\ HasSlots(n, late)
             /\ Event(n, on_tick(n, s, due, expired, late, timers), net, <<>>)
        /\ UNCHANGED proposed

\* A crash between two events.
Crash(n) ==
    /\ RestartFrom(n, disk[n])
    /\ reproposing' = [reproposing EXCEPT ![n] = <<>>]
    /\ UNCHANGED <<net, proposed, saves>>

\* The network loses the oldest message of a link.
Lose(i, j) ==
    /\ net[i][j] # <<>>
    /\ net' = Received(i, j)
    /\ UNCHANGED <<mem, disk, reproposing, proposed, saves, crashes>>

Next ==
    \/ \E n \in Node, v \in Value : handle_submission(n, v)
    \/ \E n, i \in Node : handle_incoming_bytes(n, i)
    \/ \E n, i \in Node : handler_panics(n, i)
    \/ \E n \in Node : repropose_lost(n)
    \/ \E n \in Node : handle_retries(n)
    \/ \E n \in Node : Crash(n)
    \/ \E i, j \in Node : Lose(i, j)

Spec == Init /\ [][Next]_vars

-----------------------------------------------------------------------------
(* Properties.                                                             *)

\* The state has the shape the code's types give it.
TypeOK ==
    /\ mem \in [Node -> State]
    /\ disk \in [Node -> [Slot -> Value \cup {Nil}]]
    /\ net \in [Node -> [Node -> Seq(Message)]]
    /\ reproposing \in [Node -> Seq(Pending)]
    /\ proposed \subseteq Value
    /\ saves \in [Node -> [Slot -> Nat]]
    /\ crashes \in Nat

\* Two nodes never store different values for a slot.
Agreement ==
    \A i, j \in Node, slot \in Slot :
        disk[i][slot] # Nil /\ disk[j][slot] # Nil => disk[i][slot] = disk[j][slot]

\* save_decision is called at most once per slot of a node, as its documentation says,
\* restarts included: no late answer to an old number, no announcement, repeated or
\* late, and no crash between two saves makes a node decide a slot again, not even
\* with the same value.
DecidedOnce == \A n \in Node, slot \in Slot : saves[n][slot] <= 1

\* A slot a node has decided has no instance any more, and a new proposal never
\* takes a slot the node has decided or is already proposing for.
SlotsFresh ==
    \A n \in Node, slot \in Slot :
        /\ mem[n].instances[slot] # Nil => disk[n][slot] = Nil
        /\ disk[n][slot] # Nil => slot < mem[n].next_slot
        /\ mem[n].instances[slot] # Nil /\ mem[n].instances[slot].is_proposer
                => slot < mem[n].next_slot

\* A node leads only while a quorum has promised its number or a higher one to
\* a leader, which is what lets the fast path skip the first phase.
LeaderHoldsQuorum ==
    \A l \in Node : mem[l].role = "Leader" =>
        Cardinality({n \in Node : /\ mem[n].leader_promise # Nil
                                  /\ Allowed(mem[n].leader_promise, <<mem[l].term, l>>)})
            >= quorum_size

\* In a cluster of three in which no node has crashed, handle_accepted finds a
\* value of its own to decide whenever it has counted a quorum of answers: the
\* node that made it promise a higher number will not accept the lower one.
OwnValueAccepted ==
    crashes = 0 =>
        \A n, i \in Node : net[i][n] # <<>> => ~unwraps_none(mem[n], i, Head(net[i][n]))

=============================================================================
