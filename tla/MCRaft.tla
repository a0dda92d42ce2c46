------------------------------- MODULE MCRaft -------------------------------
(* The Raft cluster on small instances.                                    *)
EXTENDS RaftCluster, TLC

Symmetry == Permutations(Node) \cup Permutations(Value)

(***************************************************************************)
(* What distinguishes two states.  Fields that are overwritten before they *)
(* are read again are left out: the leader's bookkeeping in a node that    *)
(* does not lead (become_leader resets it), the votes of a node that is no *)
(* candidate (start_election resets them), and the known leader when       *)
(* nothing is ever forwarded.                                              *)
(***************************************************************************)
Live(s) ==
    [s EXCEPT !.match_index = IF s.role = "Leader" THEN @ ELSE Nil,
              !.next_index = IF s.role = "Leader" THEN @ ELSE Nil,
              !.votes_received = IF s.role = "Candidate" THEN @ ELSE Nil,
              !.leader = IF LeaderOnly THEN Nil ELSE @]

View == <<[n \in Node |-> Live(mem[n])], disk, net, reproposing, proposed, crashes>>

(***************************************************************************)
(* Behaviours that start later: some node l leads term 1, every node has   *)
(* voted for it and heard from it, and the entries it has appended so far  *)
(* have been replicated to every node, committed and decided, except for   *)
(* those it has just appended and whose AppendEntries was lost.            *)
(***************************************************************************)
FirstQuorum(l) == CHOOSE Q \in SUBSET Node : l \in Q /\ Cardinality(Q) = quorum

LedBy(l, values, appended) ==
    LET len == Len(values)
        d == [term |-> 1, voted_for |-> l, log |-> LogEntries(1, values),
              commit_index |-> len, decisions |-> values]
        dl == [d EXCEPT !.log = LogEntries(1, values \o appended)]
        Lead(s) == [s EXCEPT !.role = "Leader",
                             !.votes_received = FirstQuorum(l),
                             !.match_index = [p \in Node |->
                                 IF p = l THEN Len(dl.log) ELSE len],
                             !.next_index = [p \in Node |->
                                 IF p = l \/ len = 0 THEN Nil ELSE len]]
        Start(f) == [restore_state(l, f) EXCEPT !.leader = l]
    IN  /\ disk = [n \in Node |-> IF n = l THEN dl ELSE d]
        /\ mem = [n \in Node |-> IF n = l THEN Lead(Start(dl)) ELSE Start(d)]
        /\ net = [i \in Node |-> [j \in Node |-> <<>>]]
        /\ reproposing = [n \in Node |-> <<>>]
        /\ proposed = {(values \o appended)[i] : i \in DOMAIN (values \o appended)}
        /\ crashes = 0

\* The first value is in the leader's log only.
AppendedSpec == (\E l \in Node, v \in Value : LedBy(l, <<>>, <<v>>)) /\ [][Next]_vars

\* One value decided everywhere.
LedSpec == (\E l \in Node, v \in Value : LedBy(l, <<v>>, <<>>)) /\ [][Next]_vars

=============================================================================
