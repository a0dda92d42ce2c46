----------------------------- MODULE RaftCluster -----------------------------
(***************************************************************************)
(* A cluster of Raft nodes: the event loop of daccord/src/node.rs around   *)
(* the protocol of module RaftProtocol, the storage each node writes       *)
(* through, and the links between the nodes.                               *)
(*                                                                         *)
(* One event of the loop runs a protocol method, flushes its persistence   *)
(* intents, sends its messages and saves its decisions.  Nothing of that   *)
(* is visible to another node before the messages are sent, so an event is *)
(* one step; a crash (or a storage error, which ends Node::run) inside it  *)
(* is a step that leaves the storage as it was after one of the writes.    *)
(***************************************************************************)
EXTENDS RaftProtocol

CONSTANTS
    Ordered,      \* TRUE: a link delivers in the order of sending
    MaxTerm,      \* bound: no election is started past this term
    MaxInFlight,  \* bound: messages on all links together; the rest is lost
    MaxCrashes,   \* bound: crashes in a behaviour
    LeaderOnly    \* bound: TRUE when clients submit to nodes that lead only

ASSUME BoundsAssumption ==
    /\ Ordered \in BOOLEAN /\ LeaderOnly \in BOOLEAN
    /\ MaxTerm \in Nat /\ MaxInFlight \in Nat /\ MaxCrashes \in Nat

VARIABLES
    mem,          \* mem[n]: the protocol state of node n
    disk,         \* disk[n]: the storage of node n
    net,          \* net[i][j]: the messages sent by i and not yet received by j
    reproposing,  \* reproposing[n]: lost proposals node n is about to propose again
    proposed,     \* the values clients have submitted
    crashes       \* how many crashes have happened

vars == <<mem, disk, net, reproposing, proposed, crashes>>

Init ==
    /\ disk = [n \in Node |-> EmptyDisk]
    /\ mem = [n \in Node |-> restore_state(n, EmptyDisk)]
    /\ net = [i \in Node |-> [j \in Node |-> <<>>]]
    /\ reproposing = [n \in Node |-> <<>>]
    /\ proposed = {}
    /\ crashes = 0

-----------------------------------------------------------------------------
(* The end of an event: flush, send, save the decisions.                   *)

\* The links together hold no more than the bound.
Fits(links) ==
    Cardinality(UNION {{<<i, j, k>> : k \in DOMAIN links[i][j]} : i, j \in Node}) <= MaxInFlight

\* The senders' errors are ignored, so any part of what is sent may be lost.
send_outgoing(n, links, out) ==
    \E reached \in SUBSET {p \in Node : out[p] # <<>>} :
        /\ net' = [links EXCEPT ![n] =
                      [p \in Node |-> IF p \in reached
                                      THEN links[n][p] \o out[p]
                                      ELSE links[n][p]]]
        /\ Fits(net')

save_decisions(d, decisions) == [d EXCEPT !.decisions = @ \o decisions]

\* A handler's result r takes full effect; links is the network without the
\* message that was handled.
Finish(n, r, links) ==
    /\ disk' = [disk EXCEPT ![n] =
                   save_decisions(flush_persist(r.st, disk[n], FlushWrites),
                                  r.st.pending_decisions)]
    /\ mem' = [mem EXCEPT ![n] =
                  [drain_persist_intent(r.st) EXCEPT !.pending_decisions = <<>>]]
    /\ send_outgoing(n, links, r.out)
    /\ UNCHANGED crashes

\* The node restarts from what the storage then holds.
RestartFrom(n, d) ==
    /\ crashes < MaxCrashes
    /\ crashes' = crashes + 1
    /\ disk' = [disk EXCEPT ![n] = d]
    /\ mem' = [mem EXCEPT ![n] = restore_state(n, d)]

\* The node stops inside flush_persist, after k of its writes: nothing is sent.
CrashInFlush(n, r, links) ==
    \E k \in 0..(FlushWrites - 1) :
        /\ RestartFrom(n, flush_persist(r.st, disk[n], k))
        /\ net' = links

\* The node stops after the flush with only k of its decisions saved.
CrashInDrain(n, r, links) ==
    \E k \in 0..(Len(r.st.pending_decisions) - 1) :
        /\ RestartFrom(n, save_decisions(flush_persist(r.st, disk[n], FlushWrites),
                                         SubSeq(r.st.pending_decisions, 1, k)))
        /\ send_outgoing(n, links, r.out)

\* An event of node n; todo is what it leaves to be proposed again.
Event(n, r, links, todo) ==
    \/ /\ Finish(n, r, links)
       /\ reproposing' = [reproposing EXCEPT ![n] = todo]
    \/ /\ CrashInFlush(n, r, links) \/ CrashInDrain(n, r, links)
       /\ reproposing' = [reproposing EXCEPT ![n] = <<>>]

\* The queue q without its k-th message.
Without(q, k) == SubSeq(q, 1, k - 1) \o SubSeq(q, k + 1, Len(q))

\* The loop takes its next event once the previous one is over.
Ready(n) == reproposing[n] = <<>>

-----------------------------------------------------------------------------
(* The events.                                                             *)

\* A client submits v to node n.
handle_submission(n, v) ==
    /\ Ready(n)
    /\ v \notin proposed
    /\ LeaderOnly => mem[n].role = "Leader"
    /\ proposed' = proposed \cup {v}
    /\ Event(n, propose(n, mem[n], v), net, <<>>)

\* Node n handles a message of node i; proposals the protocol gave up are taken
\* and proposed again before the next event.
handle_incoming_bytes(n, i) ==
    /\ Ready(n)
    /\ \E k \in DOMAIN net[i][n] :
         /\ Ordered => k = 1
         /\ LET r == handle_message(n, mem[n], i, net[i][n][k])
            IN  Event(n, Result([r.st EXCEPT !.lost_proposals = <<>>], r.out),
                      [net EXCEPT ![i][n] = Without(net[i][n], k)],
                      r.st.lost_proposals)
    /\ UNCHANGED proposed

\* The end of handle_incoming_bytes: the next lost proposal is proposed.
repropose_lost(n) ==
    /\ ~Ready(n)
    /\ Event(n, propose(n, mem[n], Head(reproposing[n])), net, Tail(reproposing[n]))
    /\ UNCHANGED proposed

\* A tick of a leader whose heartbeat is due.
heartbeat_tick(n) ==
    /\ Ready(n)
    /\ mem[n].role = "Leader"
    /\ Event(n, broadcast_heartbeat(n, mem[n]), net, <<>>)
    /\ UNCHANGED proposed

\* A tick past the election deadline.
election_tick(n) ==
    /\ Ready(n)
    /\ mem[n].role # "Leader"
    /\ mem[n].current_term < MaxTerm
    /\ Event(n, start_election(n, mem[n]), net, <<>>)
    /\ UNCHANGED proposed

\* A tick with no timer due still saves the decisions that recovery found.
idle_tick(n) ==
    /\ Ready(n)
    /\ mem[n].pending_decisions # <<>>
    /\ Event(n, Result(mem[n], Silence), net, <<>>)
    /\ UNCHANGED proposed

\* A crash between two events.
Crash(n) ==
    /\ RestartFrom(n, disk[n])
    /\ reproposing' = [reproposing EXCEPT ![n] = <<>>]
    /\ UNCHANGED <<net, proposed>>

\* The network loses the oldest message of a link.
Lose(i, j) ==
    /\ net[i][j] # <<>>
    /\ net' = [net EXCEPT ![i][j] = Tail(net[i][j])]
    /\ UNCHANGED <<mem, disk, reproposing, proposed, crashes>>

Next ==
    \/ \E n \in Node, v \in Value : handle_submission(n, v)
    \/ \E n, i \in Node : handle_incoming_bytes(n, i)
    \/ \E n \in Node : repropose_lost(n)
    \/ \E n \in Node : heartbeat_tick(n)
    \/ \E n \in Node : election_tick(n)
    \/ \E n \in Node : idle_tick(n)
    \/ \E n \in Node : Crash(n)
    \/ \E i, j \in Node : Lose(i, j)

Spec == Init /\ [][Next]_vars

-----------------------------------------------------------------------------
(* Properties.                                                             *)

Values(log) == [i \in 1..Len(log) |-> log[i].value]

IsPrefixOf(a, b) == Len(a) <= Len(b) /\ \A i \in 1..Len(a) : a[i] = b[i]

\* What node n has decided, slot by slot.
Decided(n) == disk[n].decisions \o mem[n].pending_decisions

\* The state has the shape the code's types give it.
TypeOK ==
    /\ mem \in [Node -> State]
    /\ disk \in [Node -> Disk]
    /\ net \in [Node -> [Node -> Seq(Message)]]
    /\ reproposing \in [Node -> Seq(Value)]
    /\ proposed \subseteq Value
    /\ crashes \in Nat

\* handle_request_vote and start_election never let two nodes lead one term,
\* whatever crash separates the saving of a term from the saving of a vote.
ElectionSafety ==
    \A i, j \in Node :
        /\ mem[i].role = "Leader"
        /\ mem[j].role = "Leader"
        /\ mem[i].current_term = mem[j].current_term
        => i = j

\* handle_append_entries keeps the logs of two nodes identical up to any entry
\* that has the same index and term in both.
LogMatching ==
    \A i, j \in Node : \A k \in 1..Smaller(Len(mem[i].log), Len(mem[j].log)) :
        mem[i].log[k].term = mem[j].log[k].term
            => \A l \in 1..k : mem[i].log[l] = mem[j].log[l]

\* Two nodes never decide differently for a slot, before or after a restart:
\* what one has decided extends what the other has.
StateMachineSafety ==
    \A i, j \in Node :
        IsPrefixOf(Decided(i), Decided(j)) \/ IsPrefixOf(Decided(j), Decided(i))

\* A leader that nobody has overtaken holds every decided value in its log: the
\* election restriction never elects a node that misses one.
LeaderCompleteness ==
    \A l \in Node :
        /\ mem[l].role = "Leader"
        /\ \A n \in Node : mem[n].current_term <= mem[l].current_term
        => \A n \in Node : IsPrefixOf(Decided(n), Values(mem[l].log))

\* Once decided, a value stays in the stored log of a quorum: no AppendEntries,
\* truncation or half-done flush takes it away again.
DecidedOnQuorum ==
    \A n \in Node :
        Cardinality({m \in Node : IsPrefixOf(Decided(n), Values(disk[m].log))}) >= quorum

\* Between two events the storage holds exactly the term, vote and log the node
\* works with: the persistence intents of the handlers miss nothing, and a flush
\* cut short leaves a state the node recovers to.
StorageMirrorsMemory ==
    \A n \in Node :
        /\ disk[n].term = mem[n].current_term
        /\ disk[n].voted_for = mem[n].voted_for
        /\ disk[n].log = mem[n].log

\* What a node has committed is stored as committed, is in its log, and is exactly
\* what it has decided, also when a crash separates the two writes.
DecidedUpToCommit ==
    \A n \in Node :
        /\ disk[n].commit_index = mem[n].commit_index
        /\ mem[n].commit_index <= Len(mem[n].log)
        /\ Len(Decided(n)) = mem[n].commit_index

\* No step, crash or restart takes a node back to an earlier term, or changes or
\* forgets a vote within a term.
NothingForgotten ==
    [][\A n \in Node :
          /\ mem'[n].current_term >= mem[n].current_term
          /\ mem'[n].current_term = mem[n].current_term /\ mem[n].voted_for # Nil
                => mem'[n].voted_for = mem[n].voted_for]_vars

\* A rejected AppendEntries always makes progress: where follower f would fail
\* the check at prev, its hint takes a leader of the same term to an earlier prev.
HintsRewind ==
    \A l, f \in Node :
        mem[l].role = "Leader" /\ mem[f].current_term = mem[l].current_term =>
            \A prev \in 1..Len(mem[l].log) :
                ~prev_ok(mem[f].log, prev, mem[l].log[prev].term) =>
                    rewound_next(mem[l], f, Rejected(mem[f], conflict_hint(mem[f].log, prev)))
                        < prev

\* However a submission travels (buffered, forwarded, given up by a candidate and
\* proposed again), it is decided in at most one slot, and nothing else is decided.
DecidedAtMostOnce ==
    \A n \in Node :
        /\ \A i \in 1..Len(Decided(n)) : Decided(n)[i] \in proposed
        /\ \A i, j \in 1..Len(Decided(n)) : Decided(n)[i] = Decided(n)[j] => i = j

=============================================================================
