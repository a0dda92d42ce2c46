---------------------------- MODULE RaftProtocol ----------------------------
(***************************************************************************)
(* The Raft state machine of daccord/src/protocol/raft.rs: every method of *)
(* RaftProtocol as a function from the state of one node to its next state *)
(* and the messages it sends.                                              *)
(*                                                                         *)
(* Indices.  The code numbers log entries from 0 and writes "no index" as  *)
(* None.  Here Some(i) is i + 1 and None is 0, so an index also counts the *)
(* entries up to it.  next_index and conflict_index, which the code uses   *)
(* as the position of the first entry to send, stay as they are: they      *)
(* count the entries before that position.                                 *)
(*                                                                         *)
(* Time.  Deadlines are not modelled: a timer may fire at any moment.      *)
(***************************************************************************)
EXTENDS Naturals, Sequences, FiniteSets

CONSTANTS
    Node,   \* the members of the cluster
    Value,  \* the values clients propose
    Nil     \* Rust's None

ASSUME NodeAssumption == IsFiniteSet(Node) /\ Node # {}
ASSUME NilAssumption == Nil \notin Node /\ Nil \notin Nat

MAX_FORWARD_HOPS == 3

\* Mutant: half of the cluster is taken for a quorum.
HalfIsQuorum == Cardinality(Node) \div 2

quorum == (Cardinality(Node) \div 2) + 1

Smaller(a, b) == IF a < b THEN a ELSE b

\* The term of the entry at index i; 0 when there is no such entry to compare.
TermAt(log, i) == IF i = 0 THEN 0 ELSE log[i].term

last_log_term(s) == TermAt(s.log, Len(s.log))

LogEntries(term, values) ==
    [i \in 1..Len(values) |-> [term |-> term, value |-> values[i]]]

-----------------------------------------------------------------------------
(* The state of one node.  The pending_persist_* fields are the intents a  *)
(* handler leaves for flush_persist.                                       *)

Entry == [term : Nat, value : Value]

State == [current_term : Nat,
          voted_for : Node \cup {Nil},
          log : Seq(Entry),
          commit_index : Nat,
          last_applied : Nat,
          role : {"Follower", "Candidate", "Leader"},
          leader : Node \cup {Nil},
          next_index : [Node -> Nat \cup {Nil}],
          match_index : [Node -> Nat],
          votes_received : SUBSET Node,
          pending_decisions : Seq(Value),
          pending_proposals : Seq(Value),
          lost_proposals : Seq(Value),
          pending_persist_term : BOOLEAN,
          pending_persist_voted_for : BOOLEAN,
          pending_persist_log_from : Nat,
          pending_truncate_from : Nat,
          pending_persist_commit_index : BOOLEAN]

\* What RaftStorage holds.  Slots are decided in order and without gaps, so
\* the decisions table is the sequence of the values of slots 1, 2, ...
Disk == [term : Nat,
         voted_for : Node \cup {Nil},
         log : Seq(Entry),
         commit_index : Nat,
         decisions : Seq(Value)]

EmptyDisk == [term |-> 0, voted_for |-> Nil, log |-> <<>>,
              commit_index |-> 0, decisions |-> <<>>]

-----------------------------------------------------------------------------
(* Messages.  The envelope's sender is the candidate of a RequestVote and  *)
(* the leader of an AppendEntries.                                         *)

Message ==
    [type : {"RequestVote"}, term : Nat, last_log_index : Nat, last_log_term : Nat]
    \cup [type : {"RequestVoteResponse"}, term : Nat, vote_granted : BOOLEAN]
    \cup [type : {"AppendEntries"}, term : Nat, prev_log_index : Nat,
          prev_log_term : Nat, entries : Seq(Entry), leader_commit : Nat]
    \cup [type : {"AppendEntriesResponse"}, term : Nat, success : BOOLEAN,
          match_index : Nat, conflict_term : Nat \cup {Nil},
          conflict_index : Nat \cup {Nil}]
    \cup [type : {"Forward"}, value : Value, hops : Nat]

RequestVote(s) ==
    [type |-> "RequestVote", term |-> s.current_term,
     last_log_index |-> Len(s.log), last_log_term |-> last_log_term(s)]

RequestVoteResponse(s, granted) ==
    [type |-> "RequestVoteResponse", term |-> s.current_term, vote_granted |-> granted]

\* Every AppendEntries carries the log from prev + 1 to its end: all of the new
\* entries, the whole suffix on a retry, nothing on a heartbeat (prev is last).
AppendEntries(s, prev) ==
    [type |-> "AppendEntries", term |-> s.current_term,
     prev_log_index |-> prev, prev_log_term |-> TermAt(s.log, prev),
     entries |-> SubSeq(s.log, prev + 1, Len(s.log)),
     leader_commit |-> s.commit_index]

\* Mutant: the acknowledged index is one too low.
AcceptedOneLess(s, match_idx) ==
    [type |-> "AppendEntriesResponse", term |-> s.current_term, success |-> TRUE,
     match_index |-> match_idx - 1, conflict_term |-> Nil, conflict_index |-> Nil]

Accepted(s, match_idx) ==
    [type |-> "AppendEntriesResponse", term |-> s.current_term, success |-> TRUE,
     match_index |-> match_idx, conflict_term |-> Nil, conflict_index |-> Nil]

Rejected(s, conflict) ==
    [type |-> "AppendEntriesResponse", term |-> s.current_term, success |-> FALSE,
     match_index |-> 0, conflict_term |-> conflict.term, conflict_index |-> conflict.index]

NoHint == [term |-> Nil, index |-> Nil]

Forward(v, hops) == [type |-> "Forward", value |-> v, hops |-> hops]

\* What a handler sends, as the sequence of messages for each node.
Silence == [p \in Node |-> <<>>]
ToPeer(q, msgs) == [Silence EXCEPT ![q] = msgs]
Broadcast(n, m) == [p \in Node |-> IF p = n THEN <<>> ELSE <<m>>]

Result(s, out) == [st |-> s, out |-> out]

-----------------------------------------------------------------------------
(* Commitment.                                                             *)

\* Hand the newly committed entries to the node as decisions.
apply_committed_entries(s) ==
    IF s.commit_index > s.last_applied
    THEN [s EXCEPT
            !.pending_decisions =
                @ \o [i \in 1..(s.commit_index - s.last_applied) |->
                          s.log[s.last_applied + i].value],
            !.last_applied = s.commit_index]
    ELSE s

\* The index a quorum has reached (the quorum-th largest match_index) commits
\* when it holds an entry of the current term past commit_index.  A peer that
\* has no match_index yet counts as 0.
try_advance_commit(s) ==
    LET Reached(c) == {p \in Node : s.match_index[p] >= c}
        ready == {c \in (s.commit_index + 1)..Len(s.log) :
                      /\ Cardinality(Reached(c)) >= quorum
                      /\ Cardinality(Reached(c + 1)) < quorum
                      /\ s.log[c].term = s.current_term}
    IN  IF ready = {}
        THEN s
        ELSE apply_committed_entries(
                [s EXCEPT !.commit_index = CHOOSE c \in ready : TRUE,
                          !.pending_persist_commit_index = TRUE])

-----------------------------------------------------------------------------
(* Elections.                                                              *)

\* The step-down part of handle_message: a message of a higher term.
become_follower(s, term) ==
    IF term > s.current_term
    THEN [s EXCEPT !.current_term = term,
                   !.voted_for = Nil,
                   !.pending_persist_term = TRUE,
                   !.pending_persist_voted_for = TRUE,
                   !.role = "Follower",
                   !.leader = Nil,
                   !.votes_received = {},
                   !.pending_persist_log_from = 0]
    ELSE s

broadcast_heartbeat(n, s) == Result(s, Broadcast(n, AppendEntries(s, Len(s.log))))

\* A leader appends values of its own term and sends them to everyone.
AppendAsLeader(n, s, values) ==
    LET grown == [s EXCEPT
                    !.log = @ \o LogEntries(s.current_term, values),
                    !.pending_persist_log_from = IF @ = 0 THEN Len(s.log) + 1 ELSE @,
                    !.match_index = [@ EXCEPT ![n] = Len(s.log) + Len(values)]]
        st == try_advance_commit(grown)
    IN  Result(st, Broadcast(n, AppendEntries(st, Len(s.log))))

\* A new leader proposes what it buffered; with nothing buffered it only
\* announces itself.
become_leader(n, s) ==
    LET won == [s EXCEPT
                  !.role = "Leader",
                  !.leader = n,
                  !.next_index = [p \in Node |-> Nil],
                  !.match_index = [p \in Node |-> IF p = n THEN Len(s.log) ELSE 0],
                  !.pending_proposals = <<>>]
    IN  IF s.pending_proposals = <<>>
        THEN broadcast_heartbeat(n, won)
        ELSE AppendAsLeader(n, won, s.pending_proposals)

\* Mutant: proposals that are given up stay buffered.
GivenUpAndBuffered(n, s) ==
    LET st == [s EXCEPT !.current_term = @ + 1,
                        !.role = "Candidate",
                        !.voted_for = n,
                        !.votes_received = {n},
                        !.leader = Nil,
                        !.pending_persist_term = TRUE,
                        !.pending_persist_voted_for = TRUE]
    IN  IF Cardinality({n}) >= quorum
        THEN become_leader(n, st)
        ELSE IF s.role = "Candidate"
        THEN Result([st EXCEPT !.lost_proposals = @ \o s.pending_proposals],
                    Broadcast(n, RequestVote(st)))
        ELSE Result(st, Broadcast(n, RequestVote(st)))

\* A candidate whose earlier election failed gives up its buffered proposals.
start_election(n, s) ==
    LET st == [s EXCEPT !.current_term = @ + 1,
                        !.role = "Candidate",
                        !.voted_for = n,
                        !.votes_received = {n},
                        !.leader = Nil,
                        !.pending_persist_term = TRUE,
                        !.pending_persist_voted_for = TRUE]
    IN  IF Cardinality({n}) >= quorum
        THEN become_leader(n, st)
        ELSE IF s.role = "Candidate"
        THEN Result([st EXCEPT !.lost_proposals = @ \o s.pending_proposals,
                               !.pending_proposals = <<>>],
                    Broadcast(n, RequestVote(st)))
        ELSE Result(st, Broadcast(n, RequestVote(st)))

\* Mutant: the longer log wins, whatever its last term.
LongerLogWins(s, cand_last_term, cand_last_index) == cand_last_index >= Len(s.log)

candidate_log_at_least_as_up_to_date(s, cand_last_term, cand_last_index) ==
    \/ cand_last_term > last_log_term(s)
    \/ cand_last_term = last_log_term(s) /\ cand_last_index >= Len(s.log)

\* Mutant: an earlier vote of the same term is overlooked.
VoteAgain(n, s, from, m) ==
    LET grant == /\ m.term >= s.current_term
                 /\ candidate_log_at_least_as_up_to_date(s, m.last_log_term, m.last_log_index)
        st == IF grant
              THEN [s EXCEPT !.voted_for = from, !.pending_persist_voted_for = TRUE]
              ELSE s
    IN  Result(st, ToPeer(from, <<RequestVoteResponse(st, grant)>>))

handle_request_vote(n, s, from, m) ==
    LET grant == /\ m.term >= s.current_term
                 /\ s.voted_for \in {Nil, from}
                 /\ candidate_log_at_least_as_up_to_date(s, m.last_log_term, m.last_log_index)
        st == IF grant
              THEN [s EXCEPT !.voted_for = from, !.pending_persist_voted_for = TRUE]
              ELSE s
    IN  Result(st, ToPeer(from, <<RequestVoteResponse(st, grant)>>))

\* Mutant: a refusal counts as a vote.
RefusalCounts(n, s, from, m) ==
    LET st == [s EXCEPT !.votes_received = @ \cup {from}]
    IN  IF s.role # "Candidate" \/ m.term # s.current_term
        THEN Result(s, Silence)
        ELSE IF Cardinality(st.votes_received) >= quorum
        THEN become_leader(n, st)
        ELSE Result(st, Silence)

handle_request_vote_response(n, s, from, m) ==
    LET st == [s EXCEPT !.votes_received = @ \cup {from}]
    IN  IF s.role # "Candidate" \/ m.term # s.current_term \/ ~m.vote_granted
        THEN Result(s, Silence)
        ELSE IF Cardinality(st.votes_received) >= quorum
        THEN become_leader(n, st)
        ELSE Result(st, Silence)

-----------------------------------------------------------------------------
(* Replication.                                                            *)

\* Mutant: the term at prev is not compared.
PrevInLog(log, prev, prev_term) == prev <= Len(log)

\* The log check of AppendEntries: the entry at prev must have prev_term.
prev_ok(log, prev, prev_term) ==
    prev = 0 \/ (prev <= Len(log) /\ log[prev].term = prev_term)

\* Mutant: the hint is the position that was just rejected.
HintAtPrev(log, prev) ==
    IF prev > Len(log)
    THEN [term |-> Nil, index |-> Len(log)]
    ELSE [term |-> log[prev].term, index |-> prev]

\* Where a follower that fails the check tells the leader to resume: the end of
\* a log that is too short, else the first entry of the term found at prev.
conflict_hint(log, prev) ==
    IF prev > Len(log)
    THEN [term |-> Nil, index |-> Len(log)]
    ELSE LET same == {i \in 1..prev : log[i].term = log[prev].term}
         IN  [term |-> log[prev].term,
              index |-> (CHOOSE i \in same : \A j \in same : i <= j) - 1]

\* Mutant: everything past prev is dropped and written again.
RewritePastPrev(log, prev, entries) == Smaller(prev, Len(log))

\* How many of the follower's own entries survive an accepted AppendEntries: up
\* to the first conflict if there is one, else up to the last index the message
\* verifies.  A message that verifies nothing (no prev, no entries) keeps all.
KeptLength(log, prev, entries) ==
    LET clash == {i \in 1..Len(entries) :
                      prev + i <= Len(log) /\ log[prev + i].term # entries[i].term}
        match_idx == prev + Len(entries)
    IN  IF clash # {}
        THEN prev + (CHOOSE i \in clash : \A j \in clash : i <= j) - 1
        ELSE IF match_idx = 0 THEN Len(log) ELSE Smaller(match_idx, Len(log))

MergedLog(log, prev, entries, keep) ==
    SubSeq(log, 1, keep) \o SubSeq(entries, keep - prev + 1, Len(entries))

\* Take over the leader's entries and commit index, answer, and forward the
\* proposals buffered while no leader was known.
accept_entries(s, from, m) ==
    LET match_idx == m.prev_log_index + Len(m.entries)
        keep == KeptLength(s.log, m.prev_log_index, m.entries)
        merged == MergedLog(s.log, m.prev_log_index, m.entries, keep)
        commit == Smaller(m.leader_commit, match_idx)
        stored == [s EXCEPT
                     !.log = merged,
                     !.pending_truncate_from = IF keep < Len(s.log) THEN keep + 1 ELSE 0,
                     !.pending_persist_log_from = IF keep < Len(merged) THEN keep + 1 ELSE 0,
                     !.pending_proposals = <<>>]
        st == IF commit > s.commit_index
              THEN apply_committed_entries(
                      [stored EXCEPT !.commit_index = commit,
                                     !.pending_persist_commit_index = TRUE])
              ELSE stored
        forwards == [i \in 1..Len(s.pending_proposals) |->
                         Forward(s.pending_proposals[i], 0)]
    IN  Result(st, ToPeer(from, <<Accepted(st, match_idx)>> \o forwards))

handle_append_entries(n, s, from, m) ==
    LET follower == [s EXCEPT !.role = "Follower", !.leader = from]
    IN  IF m.term < s.current_term \/ s.role = "Leader"
        THEN Result(s, ToPeer(from, <<Rejected(s, NoHint)>>))
        ELSE IF prev_ok(s.log, m.prev_log_index, m.prev_log_term)
        THEN accept_entries(follower, from, m)
        ELSE Result(follower,
                    ToPeer(from, <<Rejected(follower, conflict_hint(s.log, m.prev_log_index))>>))

\* Where the leader resumes after a rejection.
rewound_next(s, from, m) ==
    LET same == {i \in 1..Len(s.log) : s.log[i].term = m.conflict_term}
        cur == IF s.next_index[from] = Nil THEN Len(s.log) ELSE s.next_index[from]
        next == IF m.conflict_index = Nil
                THEN (IF cur = 0 THEN 0 ELSE cur - 1)
                ELSE IF m.conflict_term # Nil /\ same # {}
                THEN CHOOSE i \in same : \A j \in same : i >= j
                ELSE m.conflict_index
    IN  Smaller(next, Len(s.log))

handle_append_entries_response(n, s, from, m) ==
    LET next == rewound_next(s, from, m)
        retry == [s EXCEPT !.next_index = [@ EXCEPT ![from] = next]]
    IN  IF s.role # "Leader" \/ m.term # s.current_term
        THEN Result(s, Silence)
        ELSE IF ~m.success
        THEN Result(retry, ToPeer(from, <<AppendEntries(retry, next)>>))
        ELSE IF m.match_index = 0 \/ m.match_index > Len(s.log)
        THEN Result(s, Silence)
        ELSE Result(try_advance_commit(
                       [s EXCEPT !.match_index = [@ EXCEPT ![from] = m.match_index],
                                 !.next_index = [@ EXCEPT ![from] = m.match_index]]),
                    Silence)

-----------------------------------------------------------------------------
(* Proposals and dispatch.                                                 *)

\* Mutant: a proposal that is forwarded stays buffered.
ForwardAndBuffer(n, s, v) ==
    IF s.role = "Leader"
    THEN AppendAsLeader(n, s, <<v>>)
    ELSE Result([s EXCEPT !.pending_proposals = Append(@, v)],
                IF s.leader = Nil THEN Silence ELSE ToPeer(s.leader, <<Forward(v, 0)>>))

propose(n, s, v) ==
    IF s.role = "Leader"
    THEN AppendAsLeader(n, s, <<v>>)
    ELSE IF s.leader # Nil
    THEN Result(s, ToPeer(s.leader, <<Forward(v, 0)>>))
    ELSE Result([s EXCEPT !.pending_proposals = Append(@, v)], Silence)

handle_forward(n, s, from, m) ==
    IF s.role = "Leader"
    THEN propose(n, s, m.value)
    ELSE IF s.leader \in {Nil, from}
    THEN Result([s EXCEPT !.pending_proposals = Append(@, m.value)], Silence)
    ELSE IF m.hops + 1 >= MAX_FORWARD_HOPS
    THEN Result(s, Silence)
    ELSE Result(s, ToPeer(s.leader, <<Forward(m.value, m.hops + 1)>>))

handle_message(n, s, from, m) ==
    IF m.type = "Forward"
    THEN handle_forward(n, s, from, m)
    ELSE LET st == become_follower(s, m.term)
         IN  CASE m.type = "RequestVote" -> handle_request_vote(n, st, from, m)
               [] m.type = "RequestVoteResponse" -> handle_request_vote_response(n, st, from, m)
               [] m.type = "AppendEntries" -> handle_append_entries(n, st, from, m)
               [] m.type = "AppendEntriesResponse" ->
                      handle_append_entries_response(n, st, from, m)

-----------------------------------------------------------------------------
(* Persistence and recovery.                                               *)

\* The number of separate writes of flush_persist, in their order: term, vote,
\* log truncation, log append, commit index.
FlushWrites == 5

\* What storage d holds once the first k writes for state s are done.
saved_term(s, d, k) == IF k >= 1 /\ s.pending_persist_term THEN s.current_term ELSE d.term

saved_voted_for(s, d, k) ==
    IF k >= 2 /\ s.pending_persist_voted_for THEN s.voted_for ELSE d.voted_for

\* Mutant: entries that were dropped from the log stay in the storage.
StaleSuffixKept(s, d, k) == d.log

truncate_log_from(s, d, k) ==
    IF k >= 3 /\ s.pending_truncate_from # 0
    THEN SubSeq(d.log, 1, s.pending_truncate_from - 1)
    ELSE d.log

append_log(s, d, k) ==
    IF k >= 4 /\ s.pending_persist_log_from # 0
    THEN truncate_log_from(s, d, k) \o SubSeq(s.log, s.pending_persist_log_from, Len(s.log))
    ELSE truncate_log_from(s, d, k)

\* Mutant: the commit index is not written.
CommitNotSaved(s, d, k) == d.commit_index

saved_commit_index(s, d, k) ==
    IF k >= 5 /\ s.pending_persist_commit_index THEN s.commit_index ELSE d.commit_index

flush_persist(s, d, k) ==
    [term |-> saved_term(s, d, k),
     voted_for |-> saved_voted_for(s, d, k),
     log |-> append_log(s, d, k),
     commit_index |-> saved_commit_index(s, d, k),
     decisions |-> d.decisions]

drain_persist_intent(s) ==
    [s EXCEPT !.pending_persist_term = FALSE,
              !.pending_persist_voted_for = FALSE,
              !.pending_persist_log_from = 0,
              !.pending_truncate_from = 0,
              !.pending_persist_commit_index = FALSE]

\* What a node starts with, given what its storage holds.
restore_state(n, d) ==
    LET max_decided == Len(d.decisions)
        resume_leader == Cardinality(Node) = 1 /\ d.term > 0 /\ d.voted_for = n
        known == IF d.commit_index > max_decided THEN d.commit_index ELSE max_decided
    IN  apply_committed_entries(
          [current_term |-> d.term,
           voted_for |-> d.voted_for,
           log |-> d.log,
           commit_index |-> Smaller(known, Len(d.log)),
           last_applied |-> max_decided,
           role |-> IF resume_leader THEN "Leader" ELSE "Follower",
           leader |-> IF resume_leader THEN n ELSE Nil,
           next_index |-> [p \in Node |-> Nil],
           match_index |-> [p \in Node |-> IF resume_leader THEN Len(d.log) ELSE 0],
           votes_received |-> {},
           pending_decisions |-> <<>>,
           pending_proposals |-> <<>>,
           lost_proposals |-> <<>>,
           pending_persist_term |-> FALSE,
           pending_persist_voted_for |-> FALSE,
           pending_persist_log_from |-> 0,
           pending_truncate_from |-> 0,
           pending_persist_commit_index |-> FALSE])

=============================================================================
