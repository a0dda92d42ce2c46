---------------------------- MODULE PaxosProtocol ----------------------------
(***************************************************************************)
(* The Multi-Paxos state machine of daccord/src/protocol/paxos.rs: every   *)
(* method of PaxosProtocol as a function from the state of one node to its *)
(* next state and the messages it sends.                                   *)
(*                                                                         *)
(* Time.  Deadlines and back-off are not modelled: on_tick takes as its    *)
(* parameters which of the timers are due.                                 *)
(***************************************************************************)
EXTENDS Naturals, Sequences, FiniteSets, SequencesExt

CONSTANTS
    Node,        \* the members of the cluster: positive numbers, ordered as NodeId is
    Value,       \* the values clients propose, each at most once
    Nil,         \* Rust's None
    MaxSlot,     \* bound: slots 0 .. MaxSlot
    MultiPaxos   \* TRUE: built with the multi-paxos feature

ASSUME NodeAssumption == IsFiniteSet(Node) /\ Node # {} /\ Node \subseteq Nat \ {0}
ASSUME ValueAssumption == Nil \notin Value
ASSUME BuildAssumption == MaxSlot \in Nat /\ MultiPaxos \in BOOLEAN

Slot == 0..MaxSlot

quorum_size == (Cardinality(Node) \div 2) + 1

Larger(a, b) == IF a < b THEN b ELSE a

\* Proposal numbers are pairs of a round and a node, in lexicographic order.
ProposalNumber == Nat \X Node
NoNumber == <<0, 0>>
Below(a, b) == a[1] < b[1] \/ (a[1] = b[1] /\ a[2] < b[2])

\* None is below every proposal number.
Supersedes(pn, promise) == promise = Nil \/ Below(promise, pn)
Allowed(pn, promise) == promise = Nil \/ ~Below(pn, promise)

-----------------------------------------------------------------------------
(* The state of one node.                                                  *)

\* Pending<V>: a client's value with the nonce of its submission.  A value is
\* submitted once, so 1 stands for that nonce; 0 is the nonce of a value that
\* was read from the storage.
Pending == [nonce : {0, 1}, value : Value]
Submitted(v) == [nonce |-> 1, value |-> v]

Accepted == [pn : ProposalNumber, value : Pending]

Instance == [proposal_number : ProposalNumber \cup {NoNumber},
             promises_received : SUBSET Node,
             accepts_received : SUBSET Node,
             highest_accepted : Accepted \cup {Nil},
             proposed_value : Pending \cup {Nil},
             highest_promised : ProposalNumber \cup {Nil},
             accepted : Accepted \cup {Nil},
             is_proposer : BOOLEAN,
             nacked : BOOLEAN,
             highest_seen_nack : Nat]

NewInstance == [proposal_number |-> NoNumber,
                promises_received |-> {},
                accepts_received |-> {},
                highest_accepted |-> Nil,
                proposed_value |-> Nil,
                highest_promised |-> Nil,
                accepted |-> Nil,
                is_proposer |-> FALSE,
                nacked |-> FALSE,
                highest_seen_nack |-> 0]

\* What an acceptor reports about a slot in an election.
Report == [slot : Slot, pn : ProposalNumber, value : Pending]

Election == [proposal_number : ProposalNumber,
             promises_received : SUBSET Node,
             accepted : Seq(Report)]

State == [instances : [Slot -> Instance \cup {Nil}],
          next_slot : Nat,
          decided_slots : [Slot -> Pending \cup {Nil}],
          pending_decisions : Seq(Slot),
          lost_proposals : Seq(Pending),
          recent_decisions : Seq(Slot),
          role : {"Leader", "Follower", "Candidate"},
          leader : Node \cup {Nil},
          term : Nat,
          highest_seen_round : Nat,
          forwarded_proposals : Seq(Pending),
          leader_promise : ProposalNumber \cup {Nil},
          election : Election \cup {Nil}]

\* The storage adapter drops the nonce of a decision it saves.
load_decisions(disk) ==
    [slot \in Slot |-> IF disk[slot] = Nil THEN Nil
                       ELSE [nonce |-> 0, value |-> disk[slot]]]

\* What a node starts with, given the decisions its storage holds.
recover(disk) ==
    LET known == {slot \in Slot : disk[slot] # Nil}
    IN  [instances |-> [slot \in Slot |-> Nil],
         next_slot |-> IF known = {} THEN 0 ELSE Max(known) + 1,
         decided_slots |-> load_decisions(disk),
         pending_decisions |-> <<>>,
         lost_proposals |-> <<>>,
         recent_decisions |-> <<>>,
         role |-> "Follower",
         leader |-> Nil,
         term |-> 0,
         highest_seen_round |-> 0,
         forwarded_proposals |-> <<>>,
         leader_promise |-> Nil,
         election |-> Nil]

get_or_create_instance(s, slot) ==
    IF s.instances[slot] = Nil THEN NewInstance ELSE s.instances[slot]

SetInstance(s, slot, i) == [s EXCEPT !.instances[slot] = i]

Undecided(s, slot) == s.decided_slots[slot] = Nil

-----------------------------------------------------------------------------
(* Messages.  NackPrepare and NackAccept are handled alike: both are Nack. *)

Message ==
    [type : {"Prepare"}, slot : Slot, pn : ProposalNumber]
    \cup [type : {"Promise"}, slot : Slot, pn : ProposalNumber, accepted : Accepted \cup {Nil}]
    \cup [type : {"Accept", "Accepted"}, slot : Slot, pn : ProposalNumber, value : Pending]
    \cup [type : {"Decide"}, slot : Slot, value : Pending]
    \cup [type : {"Nack"}, slot : Slot, highest_promised : ProposalNumber]
    \cup [type : {"Forward"}, value : Pending]
    \cup [type : {"Heartbeat"}, term : Nat]
    \cup [type : {"PrepareLeader"}, pn : ProposalNumber, since_slot : Nat]
    \cup [type : {"PromiseLeader"}, pn : ProposalNumber, accepted : Seq(Report)]
    \cup [type : {"NackLeader"}, highest_promised : ProposalNumber]

Prepare(slot, pn) == [type |-> "Prepare", slot |-> slot, pn |-> pn]
Accept(slot, pn, v) == [type |-> "Accept", slot |-> slot, pn |-> pn, value |-> v]
Decide(slot, v) == [type |-> "Decide", slot |-> slot, value |-> v]

Silence == [p \in Node |-> <<>>]
ToPeer(q, m) == [Silence EXCEPT ![q] = <<m>>]
Broadcast(n, m) == [p \in Node |-> IF p = n THEN <<>> ELSE <<m>>]
Then(out, more) == [p \in Node |-> out[p] \o more[p]]

\* A handler's result, and a second operation on the state the first one leaves.
Result(s, out) == [st |-> s, out |-> out]
AndThen(r, Op(_)) == LET q == Op(r.st) IN Result(q.st, Then(r.out, q.out))

-----------------------------------------------------------------------------
(* Deciding and proposing.                                                 *)

\* ack_decided_value: at most one forwarded copy of the value is cleared.
ack_decided_value(forwarded, v) ==
    LET at == {k \in DOMAIN forwarded : forwarded[k] = v}
    IN  IF at = {} THEN forwarded ELSE RemoveAt(forwarded, Min(at))

\* decide, with the removal of the instance that follows it everywhere.
decide(s, slot, v) ==
    [s EXCEPT !.decided_slots[slot] = v,
              !.recent_decisions = Append(@, slot),
              !.next_slot = Larger(@, slot + 1),
              !.forwarded_proposals = ack_decided_value(@, v),
              !.pending_decisions = Append(@, slot),
              !.instances[slot] = Nil]

\* Phase 2 of instance i, whose own vote has been cast: decided when that is a
\* quorum already, announced otherwise.
AskToAccept(n, s, slot, i, v) ==
    IF Cardinality(i.accepts_received) >= quorum_size
    THEN Result(decide(s, slot, v), Broadcast(n, Decide(slot, v)))
    ELSE Result(SetInstance(s, slot, i), Broadcast(n, Accept(slot, i.proposal_number, v)))

start_phase2(n, s, slot, i) ==
    LET v == IF i.highest_accepted # Nil THEN i.highest_accepted.value ELSE i.proposed_value
        pn == i.proposal_number
        voted == [i EXCEPT !.highest_promised = pn,
                           !.accepted = [pn |-> pn, value |-> v],
                           !.accepts_received = @ \cup {n}]
        can_self_accept == Allowed(pn, i.highest_promised)
    IN  AskToAccept(n, s, slot, IF can_self_accept THEN voted ELSE i, v)

\* Phase 1 of instance i, whose own promise has been given.
AskToPromise(n, s, slot, i) ==
    IF Cardinality(i.promises_received) >= quorum_size
    THEN start_phase2(n, s, slot, i)
    ELSE Result(SetInstance(s, slot, i), Broadcast(n, Prepare(slot, i.proposal_number)))

propose_full_paxos(n, s, v) ==
    LET slot == s.next_slot
        i == get_or_create_instance(s, slot)
    IN  AskToPromise(n, [s EXCEPT !.next_slot = slot + 1], slot,
            [i EXCEPT !.proposal_number = <<1, n>>,
                      !.proposed_value = v,
                      !.is_proposer = TRUE,
                      !.highest_promised = <<1, n>>,
                      !.promises_received = @ \cup {n}])

propose_fast_path(n, s, v) ==
    LET slot == s.next_slot
        pn == <<s.term, n>>
        i == get_or_create_instance(s, slot)
    IN  AskToAccept(n, [s EXCEPT !.next_slot = slot + 1], slot,
            [i EXCEPT !.proposal_number = pn,
                      !.proposed_value = v,
                      !.is_proposer = TRUE,
                      !.highest_promised = pn,
                      !.accepted = [pn |-> pn, value |-> v],
                      !.accepts_received = @ \cup {n},
                      !.promises_received = @ \cup {n}],
            v)

inner_propose(n, s, v) ==
    IF s.role = "Leader" THEN propose_fast_path(n, s, v) ELSE propose_full_paxos(n, s, v)

\* A node that knows another node as its leader forwards (multi-paxos only).
propose(n, s, v) ==
    IF s.leader \in Node \ {n}
    THEN Result([s EXCEPT !.forwarded_proposals = Append(@, v)],
                ToPeer(s.leader, [type |-> "Forward", value |-> v]))
    ELSE inner_propose(n, s, v)

-----------------------------------------------------------------------------
(* The acceptor.                                                           *)

Nack(slot, promised) == [type |-> "Nack", slot |-> slot, highest_promised |-> promised]

\* Mutant: the promise is given whatever was promised before.
PromiseAlways(s, from, m) ==
    LET i == get_or_create_instance(s, m.slot)
    IN  IF Undecided(s, m.slot)
        THEN Result(SetInstance(s, m.slot, [i EXCEPT !.highest_promised = m.pn]),
                    ToPeer(from, [type |-> "Promise", slot |-> m.slot, pn |-> m.pn,
                                  accepted |-> i.accepted]))
        ELSE Result(s, ToPeer(from, Decide(m.slot, s.decided_slots[m.slot])))

handle_prepare(s, from, m) ==
    LET i == get_or_create_instance(s, m.slot)
    IN  CASE ~Undecided(s, m.slot) ->
               Result(s, ToPeer(from, Decide(m.slot, s.decided_slots[m.slot])))
          [] Undecided(s, m.slot) /\ Supersedes(m.pn, i.highest_promised) ->
               Result(SetInstance(s, m.slot, [i EXCEPT !.highest_promised = m.pn]),
                      ToPeer(from, [type |-> "Promise", slot |-> m.slot, pn |-> m.pn,
                                    accepted |-> i.accepted]))
          [] OTHER -> Result(SetInstance(s, m.slot, i),
                             ToPeer(from, Nack(m.slot, i.highest_promised)))

\* The higher of the promise for the slot and the promise to a leader.
effective_floor(s, i) ==
    IF s.leader_promise # Nil /\ Supersedes(s.leader_promise, i.highest_promised)
    THEN s.leader_promise ELSE i.highest_promised

handle_accept(s, from, m) ==
    LET i == get_or_create_instance(s, m.slot)
        floor == effective_floor(s, i)
    IN  CASE ~Undecided(s, m.slot) ->
               Result(s, ToPeer(from, Decide(m.slot, s.decided_slots[m.slot])))
          [] Undecided(s, m.slot) /\ Allowed(m.pn, floor) ->
               Result(SetInstance(s, m.slot,
                          [i EXCEPT !.highest_promised = m.pn,
                                    !.accepted = [pn |-> m.pn, value |-> m.value]]),
                      ToPeer(from, [m EXCEPT !.type = "Accepted"]))
          [] OTHER -> Result(SetInstance(s, m.slot, i), ToPeer(from, Nack(m.slot, floor)))

-----------------------------------------------------------------------------
(* The proposer.                                                           *)

\* The instance a Promise or Accepted is about, when the node still cares.
Current(s, m) ==
    /\ Undecided(s, m.slot)
    /\ s.instances[m.slot] # Nil
    /\ s.instances[m.slot].proposal_number = m.pn

\* The higher-numbered of the accepted value known so far and a reported one.
HigherAccepted(known, reported) ==
    IF reported # Nil /\ (known = Nil \/ Below(known.pn, reported.pn)) THEN reported ELSE known

handle_promise(n, s, from, m) ==
    LET i == s.instances[m.slot]
        j == [i EXCEPT !.promises_received = @ \cup {from},
                       !.highest_accepted = HigherAccepted(@, m.accepted)]
    IN  CASE ~Current(s, m) -> Result(s, Silence)
          [] Current(s, m) /\ Cardinality(j.promises_received) >= quorum_size ->
               start_phase2(n, s, m.slot, j)
          [] OTHER -> Result(SetInstance(s, m.slot, j), Silence)

\* A quorum of answers decides the value the node itself has accepted.
AcceptsQuorum(s, from, m) ==
    /\ Current(s, m)
    /\ Cardinality(s.instances[m.slot].accepts_received \cup {from}) >= quorum_size

handle_accepted(n, s, from, m) ==
    LET i == s.instances[m.slot]
        v == i.accepted.value
    IN  CASE ~Current(s, m) -> Result(s, Silence)
          [] AcceptsQuorum(s, from, m) ->
               Result(decide(s, m.slot, v), Broadcast(n, Decide(m.slot, v)))
          [] OTHER -> Result(SetInstance(s, m.slot,
                                 [i EXCEPT !.accepts_received = @ \cup {from}]),
                             Silence)

\* accepted.unwrap() on a node that could not accept its own proposal: a panic.
unwraps_none(s, from, m) ==
    /\ m.type = "Accepted"
    /\ AcceptsQuorum(s, from, m)
    /\ s.instances[m.slot].accepted = Nil

\* Mutant: any instance counts as a lost proposal, also one of an acceptor.
LostByAcceptor(s, slot, v) ==
    LET i == s.instances[slot]
    IN  IF i # Nil /\ i.proposed_value # v THEN <<i.proposed_value>> ELSE <<>>

\* A proposal whose slot went to another value is to be proposed again.
Lost(s, slot, v) ==
    LET i == s.instances[slot]
    IN  IF i # Nil /\ i.is_proposer /\ i.proposed_value # v THEN <<i.proposed_value>> ELSE <<>>

\* Mutant: an announced decision replaces an earlier one.
DecideAgain(s, m) ==
    decide([s EXCEPT !.lost_proposals = @ \o Lost(s, m.slot, m.value)], m.slot, m.value)

handle_decide(s, m) ==
    IF Undecided(s, m.slot)
    THEN decide([s EXCEPT !.lost_proposals = @ \o Lost(s, m.slot, m.value)], m.slot, m.value)
    ELSE s

step_down(s, new_leader) ==
    [s EXCEPT !.role = "Follower", !.leader = new_leader, !.term = 0]

update_highest_seen_round(s, round) ==
    IF MultiPaxos THEN [s EXCEPT !.highest_seen_round = Larger(@, round)] ELSE s

handle_nack(s, m) ==
    LET round == m.highest_promised[1]
        i == s.instances[m.slot]
        noted == IF i = Nil THEN s
                 ELSE SetInstance(s, m.slot,
                          [i EXCEPT !.nacked = TRUE, !.highest_seen_nack = Larger(@, round)])
        seen == update_highest_seen_round(noted, round)
    IN  IF s.role = "Leader" THEN step_down(seen, Nil) ELSE seen

\* A slot is due for a retry when it was refused, or lacks the quorum of the
\* phase it is in.
retryable(i) ==
    /\ i # Nil
    /\ i.is_proposer
    /\ \/ i.nacked
       \/ Cardinality(IF i.accepts_received # {} THEN i.accepts_received
                      ELSE i.promises_received) < quorum_size

new_round(i) ==
    1 + Max({IF i.highest_promised = Nil THEN 0 ELSE i.highest_promised[1],
             i.highest_seen_nack, i.proposal_number[1]})

retry_proposal(n, s, slot) ==
    LET i == s.instances[slot]
        pn == <<new_round(i), n>>
    IN  AskToPromise(n, s, slot,
            [i EXCEPT !.proposal_number = pn,
                      !.promises_received = {n},
                      !.accepts_received = {},
                      !.highest_accepted = Nil,
                      !.nacked = FALSE,
                      !.highest_seen_nack = 0,
                      !.highest_promised = pn])

-----------------------------------------------------------------------------
(* Leadership (multi-paxos).                                               *)

\* The accepted values of undecided slots, lowest slot first.
collect_accepted_for_promise(s, since_slot) ==
    LET known == {slot \in Slot : /\ slot >= since_slot
                                  /\ s.instances[slot] # Nil
                                  /\ Undecided(s, slot)
                                  /\ s.instances[slot].accepted # Nil}
        Reported(slot) == [slot |-> slot, pn |-> s.instances[slot].accepted.pn,
                           value |-> s.instances[slot].accepted.value]
        slots == SetToSortSeq(known, <)
    IN  [k \in DOMAIN slots |-> Reported(slots[k])]

replay_accept(n, s, slot, pn, v) ==
    LET i == get_or_create_instance(s, slot)
    IN  IF Undecided(s, slot)
        THEN AskToAccept(n, s, slot,
                 [i EXCEPT !.proposal_number = pn,
                           !.proposed_value = v,
                           !.is_proposer = TRUE,
                           !.highest_promised = pn,
                           !.accepted = [pn |-> pn, value |-> v],
                           !.accepts_received = {n},
                           !.promises_received = {n}],
                 v)
        ELSE Result(s, Silence)

\* The first report of the highest proposal number for a slot.
Recovered(reports, slot) ==
    LET about == {k \in DOMAIN reports : reports[k].slot = slot}
        highest == {k \in about : \A l \in about : ~Below(reports[k].pn, reports[l].pn)}
    IN  reports[Min(highest)].value

become_leader(s, term) ==
    [s EXCEPT !.role = "Leader",
              !.leader = Nil,
              !.term = term,
              !.highest_seen_round = Larger(@, term)]

\* Mutant: a new leader's next_slot stays below the slots it replays.
ReplayKeepsNextSlot(n, s) ==
    LET e == s.election
        recovered == {slot \in {e.accepted[k].slot : k \in DOMAIN e.accepted} : Undecided(s, slot)}
        led == [become_leader(s, e.proposal_number[1]) EXCEPT !.election = Nil]
        Replay(r, slot) ==
            LET Again(t) == replay_accept(n, t, slot, e.proposal_number,
                                          Recovered(e.accepted, slot))
            IN  AndThen(r, Again)
    IN  FoldLeft(Replay, Result(led, Silence), SetToSortSeq(recovered, <))

complete_leader_election(n, s) ==
    LET e == s.election
        recovered == {slot \in {e.accepted[k].slot : k \in DOMAIN e.accepted} : Undecided(s, slot)}
        local == {slot \in Slot : s.instances[slot] # Nil}
        led == [become_leader(s, e.proposal_number[1]) EXCEPT
                         !.election = Nil,
                         !.next_slot = Max({@} \cup {slot + 1 : slot \in recovered \cup local})]
        Replay(r, slot) ==
            LET Again(t) == replay_accept(n, t, slot, e.proposal_number,
                                          Recovered(e.accepted, slot))
            IN  AndThen(r, Again)
    IN  FoldLeft(Replay, Result(led, Silence), SetToSortSeq(recovered, <))

start_election(n, s) ==
    LET pn == <<s.highest_seen_round + 1, n>>
        local == {slot \in Slot : s.instances[slot] # Nil}
        since_slot == IF local = {} THEN s.next_slot ELSE Min(local)
        t == [s EXCEPT !.role = "Candidate",
                       !.leader = Nil,
                       !.election = [proposal_number |-> pn,
                                     promises_received |-> {n},
                                     accepted |-> collect_accepted_for_promise(s, since_slot)],
                       !.leader_promise = IF Supersedes(pn, @) THEN pn ELSE @,
                       !.highest_seen_round = pn[1]]
    IN  IF quorum_size = 1
        THEN complete_leader_election(n, t)
        ELSE Result(t, Broadcast(n, [type |-> "PrepareLeader", pn |-> pn,
                                     since_slot |-> since_slot]))

\* Mutant: the promise to the new leader is not recorded.
PromiseNotKept(s, from, m) ==
    IF Supersedes(m.pn, s.leader_promise)
    THEN Result(update_highest_seen_round(s, m.pn[1]),
                ToPeer(from, [type |-> "PromiseLeader", pn |-> m.pn,
                              accepted |-> collect_accepted_for_promise(s, m.since_slot)]))
    ELSE Result(s, ToPeer(from, [type |-> "NackLeader",
                                 highest_promised |-> s.leader_promise]))

handle_prepare_leader(s, from, m) ==
    LET seen == update_highest_seen_round([s EXCEPT !.leader_promise = m.pn], m.pn[1])
        t == IF s.role = "Leader" THEN step_down(seen, from) ELSE seen
        cancelled == t.election # Nil /\ Below(t.election.proposal_number, m.pn)
    IN  IF Supersedes(m.pn, s.leader_promise)
        THEN Result([t EXCEPT !.election = IF cancelled THEN Nil ELSE @],
                    ToPeer(from, [type |-> "PromiseLeader", pn |-> m.pn,
                                  accepted |-> collect_accepted_for_promise(s, m.since_slot)]))
        ELSE Result(s, ToPeer(from, [type |-> "NackLeader",
                                     highest_promised |-> s.leader_promise]))

handle_promise_leader(n, s, from, m) ==
    LET e == s.election
        f == [e EXCEPT !.promises_received = @ \cup {from}, !.accepted = @ \o m.accepted]
        t == [s EXCEPT !.election = f]
    IN  IF e = Nil \/ (e # Nil /\ e.proposal_number # m.pn) THEN Result(s, Silence)
        ELSE IF Cardinality(f.promises_received) >= quorum_size
        THEN complete_leader_election(n, t)
        ELSE Result(t, Silence)

handle_nack_leader(s, m) ==
    LET t == update_highest_seen_round([s EXCEPT !.election = Nil], m.highest_promised[1])
    IN  IF s.role = "Candidate" THEN step_down(t, Nil) ELSE t

\* A leader keeps leading unless the other's term is higher than its own.
update_leader_contact(s, from, term) ==
    LET seen == update_highest_seen_round(s, term)
    IN  IF s.role = "Leader" /\ term <= s.term THEN seen ELSE step_down(seen, from)

handle_heartbeat(s, from, m) ==
    IF m.term >= s.highest_seen_round THEN update_leader_contact(s, from, m.term) ELSE s

handle_forward(n, s, m) ==
    IF s.role = "Leader" THEN inner_propose(n, s, m.value) ELSE Result(s, Silence)

-----------------------------------------------------------------------------
(* What the event loop calls.                                              *)

handle_message(n, s, from, m) ==
    CASE m.type = "Prepare" -> handle_prepare(s, from, m)
      [] m.type = "Promise" -> handle_promise(n, s, from, m)
      [] m.type = "Accept" -> handle_accept(s, from, m)
      [] m.type = "Accepted" -> handle_accepted(n, s, from, m)
      [] m.type = "Decide" -> Result(handle_decide(s, m), Silence)
      [] m.type = "Nack" -> Result(handle_nack(s, m), Silence)
      [] m.type = "Forward" -> handle_forward(n, s, m)
      [] m.type = "Heartbeat" -> Result(handle_heartbeat(s, from, m), Silence)
      [] m.type = "PrepareLeader" -> handle_prepare_leader(s, from, m)
      [] m.type = "PromiseLeader" -> handle_promise_leader(n, s, from, m)
      [] m.type = "NackLeader" -> Result(handle_nack_leader(s, m), Silence)

\* The oldest recent decisions have expired; the others are announced again.
get_decision_rebroadcasts(n, s, expired) ==
    LET recent == SubSeq(s.recent_decisions, expired + 1, Len(s.recent_decisions))
    IN  Result([s EXCEPT !.recent_decisions = recent],
               [p \in Node |-> IF p = n THEN <<>>
                               ELSE [k \in DOMAIN recent |->
                                        Decide(recent[k], s.decided_slots[recent[k]])]])

make_heartbeat(n, s) ==
    Result(s, IF s.role = "Leader"
              THEN Broadcast(n, [type |-> "Heartbeat", term |-> s.term])
              ELSE Silence)

check_election_timeout(s) ==
    IF s.election = Nil THEN s ELSE step_down([s EXCEPT !.election = Nil], Nil)

\* Whether the leader timeout applies: a leader is known, or there is work.
check_leader_timeout(s) ==
    /\ s.role = "Follower"
    /\ s.leader # Nil \/ \E slot \in Slot : s.instances[slot] # Nil

\* The oldest forwarded proposals have timed out and are proposed here.
handle_forwarded_proposal_timeouts(n, s, late) ==
    LET Direct(r, v) ==
            LET Here(t) == inner_propose(n, t, v)
            IN  AndThen(r, Here)
        kept == SubSeq(s.forwarded_proposals, late + 1, Len(s.forwarded_proposals))
    IN  FoldLeft(Direct, Result([s EXCEPT !.forwarded_proposals = kept], Silence),
                 SubSeq(s.forwarded_proposals, 1, late))

\* A tick: due are the slots whose retry time has come, in any order; expired
\* and late count old decisions and forwards; timers are the timers that fire.
\* An election that timed out leaves the leader timeout for a later tick.
on_tick(n, s, due, expired, late, timers) ==
    LET Retry(r, slot) ==
            LET Again(t) == retry_proposal(n, t, slot) IN AndThen(r, Again)
        Rebroadcast(t) == get_decision_rebroadcasts(n, t, expired)
        Beat(t) == IF "heartbeat" \in timers THEN make_heartbeat(n, t) ELSE Result(t, Silence)
        GiveUp(t) == Result(IF "election" \in timers THEN check_election_timeout(t) ELSE t,
                            Silence)
        Elect(t) == IF "leader" \in timers /\ check_leader_timeout(t)
                    THEN start_election(n, t) ELSE Result(t, Silence)
        TimeOut(t) == handle_forwarded_proposal_timeouts(n, t, late)
        retried == FoldLeft(Retry, Result(s, Silence), due)
        announced == AndThen(AndThen(retried, Rebroadcast), Beat)
    IN  AndThen(AndThen(AndThen(announced, GiveUp), Elect), TimeOut)

=============================================================================
