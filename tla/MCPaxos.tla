------------------------------ MODULE MCPaxos -------------------------------
(* The Paxos cluster on small instances.                                   *)
EXTENDS PaxosCluster

\* Nodes are ordered by their numbers, so only the values are interchangeable.
Symmetry == Permutations(Value)

\* A round above the first has been promised for a slot.
Retried ==
    \E n \in Node, slot \in Slot :
        LET i == mem[n].instances[slot]
        IN  i # Nil /\ i.highest_promised # Nil /\ i.highest_promised[1] > 1

\* Bound: while a node has promised a retry's number no node has crashed, and the
\* messages in flight, old and new ones, are between two nodes.
RetriesBetweenTwo ==
    Retried =>
        /\ crashes = 0
        /\ \E n, o \in Node : \A i, j \in Node : net[i][j] # <<>> => {i, j} = {n, o}

\* Bound: a slot's number is above the first round only where a new leader replays
\* the slot; paxos_slot has the retries.
ReplaysOnly ==
    \A n \in Node, slot \in Slot :
        LET i == mem[n].instances[slot]
        IN  i # Nil /\ i.is_proposer /\ i.proposal_number[1] > 1 => i.accepts_received # {}

(***************************************************************************)
(* Behaviours of a multi-paxos build that start later: node l proposed v,  *)
(* which every node has decided in slot 0, and the election l started      *)
(* meanwhile succeeded, so that it leads term 1 and every node follows it. *)
(***************************************************************************)
LedBy(l, v) ==
    LET d == [EmptyDisk EXCEPT ![0] = v]
        start == [recover(d) EXCEPT !.decided_slots[0] = Submitted(v),
                                    !.leader_promise = <<1, l>>,
                                    !.highest_seen_round = 1]
    IN  /\ disk = [n \in Node |-> d]
        /\ mem = [n \in Node |-> IF n = l
                                 THEN [start EXCEPT !.role = "Leader", !.term = 1]
                                 ELSE [start EXCEPT !.leader = l]]
        /\ net = [i \in Node |-> [j \in Node |-> <<>>]]
        /\ reproposing = [n \in Node |-> <<>>]
        /\ proposed = {v}
        /\ saves = [n \in Node |-> [slot \in Slot |-> IF slot = 0 THEN 1 ELSE 0]]
        /\ crashes = 0

\* The leader is the node in the middle of the order of proposal numbers.
LedSpec == (\E v \in Value : LedBy(2, v)) /\ [][Next]_vars

=============================================================================
