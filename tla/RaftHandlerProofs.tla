------------------------- MODULE RaftHandlerProofs --------------------------
(* What the handlers of module RaftProtocol may do to a node, what a flush *)
(* cut short leaves in its storage, and what a restart makes of that.      *)
EXTENDS RaftProtocol, FiniteSetTheorems, SequenceTheorems, WellFoundedInduction, TLAPS

-----------------------------------------------------------------------------
(* What the operators on logs and messages return.                         *)

\* quorum is a number, so that counts of votes and matches compare with it.
LEMMA QuorumType == quorum \in Nat /\ Cardinality(Node) \in Nat
  <1>1. Cardinality(Node) \in Nat
    BY NodeAssumption, FS_CardinalityType
  <1> QED
    BY <1>1 DEF quorum

\* Two sets of at least quorum nodes have a node in common.
LEMMA QuorumsIntersect ==
  ASSUME NEW A \in SUBSET Node, NEW B \in SUBSET Node,
         Cardinality(A) >= quorum, Cardinality(B) >= quorum
  PROVE  \E v \in Node : v \in A /\ v \in B
  <1>1. Cardinality(A) \in Nat /\ Cardinality(B) \in Nat
    BY NodeAssumption, FS_Subset, FS_CardinalityType
  <1>2. Cardinality(A) + Cardinality(B) > Cardinality(Node)
    BY <1>1, QuorumType DEF quorum
  <1>3. A \cap B # {}
    BY <1>2, NodeAssumption, FS_MajoritiesIntersect
  <1> QED
    BY <1>3

\* Every nonempty set of numbers has a least one, every bounded one a greatest.
LEMMA MinExists ==
  ASSUME NEW T \in SUBSET Nat, T # {}
  PROVE  \E x \in T : \A y \in T : x <= y
  <1> DEFINE R == OpToRel(<, Nat)
  <1>1. IsWellFoundedOn(R, Nat)
    BY NatLessThanWellFounded
  <1>2. \A x, y \in Nat : y < x => <<y, x>> \in R
    BY DEF OpToRel
  <1> HIDE DEF R
  <1>3. PICK x \in T : \A y \in T : ~(<<y, x>> \in R)
    BY <1>1, WFMin
  <1>4. \A y \in T : x <= y
    <2> TAKE y \in T
    <2>1. x \in Nat /\ y \in Nat
      OBVIOUS
    <2>2. ~(y < x)
      BY <1>2, <1>3, <2>1
    <2> QED
      BY <2>1, <2>2
  <1> QED
    BY <1>4

\* A set of indices that is not empty and bounded has a greatest element.
LEMMA MaxExists ==
  ASSUME NEW N \in Nat, NEW T \in SUBSET (0..N), T # {}
  PROVE  \E x \in T : \A y \in T : x >= y
  <1> DEFINE U == {N - y : y \in T}
  <1>1. U \in SUBSET Nat /\ U # {}
    <2>1. PICK z \in T : TRUE
      OBVIOUS
    <2>2. N - z \in U
      BY <2>1
    <2>3. \A y \in T : N - y \in Nat
      OBVIOUS
    <2> QED
      BY <2>2, <2>3
  <1>2. PICK u \in U : \A w \in U : u <= w
    BY <1>1, MinExists
  <1>3. PICK x \in T : u = N - x
    BY <1>2
  <1>4. \A y \in T : x >= y
    <2> TAKE y \in T
    <2>1. N - y \in U
      OBVIOUS
    <2>2. N - x <= N - y
      BY <1>2, <1>3, <2>1
    <2> QED
      BY <2>2
  <1> QED
    BY <1>4
\* The part of a log or of a queue between two positions is of its kind.
LEMMA SubSeqType ==
  ASSUME NEW S, NEW q \in Seq(S), NEW i \in Nat, NEW j \in Nat,
         i >= 1, j <= Len(q)
  PROVE  /\ SubSeq(q, i, j) \in Seq(S)
         /\ Len(SubSeq(q, i, j)) = IF i <= j THEN j - i + 1 ELSE 0
         /\ \A k \in 1..Len(SubSeq(q, i, j)) : SubSeq(q, i, j)[k] = q[i + k - 1]
  <1>1. \A k \in i..j : q[k] \in S
    OBVIOUS
  <1> QED
    BY <1>1, SubSeqProperties

\* Concatenation keeps what it starts with.
LEMMA ConcatType ==
  ASSUME NEW S, NEW a \in Seq(S), NEW b \in Seq(S)
  PROVE  /\ a \o b \in Seq(S)
         /\ Len(a \o b) = Len(a) + Len(b)
         /\ SubSeq(a \o b, 1, Len(a)) = SubSeq(a, 1, Len(a))
  <1>1. a \o b \in Seq(S) /\ Len(a \o b) = Len(a) + Len(b)
    BY ConcatProperties
  <1>2. CASE Len(a) = 0
    BY <1>2, SubSeqEmpty
  <1>3. CASE Len(a) # 0
    <2>1. 1 \in 1..Len(a) /\ Len(a) \in 1..Len(a)
      BY <1>3
    <2> QED
      BY <1>1, <2>1, SubSeqOfConcat1
  <1> QED
    BY <1>1, <1>2, <1>3

\* A log holds entries.
LEMMA EntryType ==
  ASSUME NEW log \in Seq(Entry), NEW i \in 1..Len(log)
  PROVE  /\ log[i] \in Entry
         /\ log[i].term \in Nat
         /\ log[i].value \in Value
  <1>1. log[i] \in Entry
    BY ElementOfSeq
  <1> QED
    BY <1>1 DEF Entry

\* The term of an entry of a log is a term, 0 before the first one.
LEMMA TermAtType ==
  ASSUME NEW log \in Seq(Entry), NEW i \in 0..Len(log)
  PROVE  TermAt(log, i) \in Nat
  <1>1. CASE i = 0
    BY <1>1 DEF TermAt
  <1>2. CASE i # 0
    <2>1. i \in 1..Len(log)
      BY <1>2
    <2> QED
      BY <1>2, <2>1, EntryType DEF TermAt
  <1> QED
    BY <1>1, <1>2

\* What broadcast_with_entries sends is a message.
LEMMA AppendEntriesType ==
  ASSUME NEW s \in State, NEW prev \in 0..Len(s.log)
  PROVE  AppendEntries(s, prev) \in Message
  <1>1. s.log \in Seq(Entry) /\ s.current_term \in Nat /\ s.commit_index \in Nat
    BY DEF State
  <1>2. SubSeq(s.log, prev + 1, Len(s.log)) \in Seq(Entry)
    BY <1>1, SubSeqType
  <1>3. TermAt(s.log, prev) \in Nat
    BY <1>1, TermAtType
  <1> QED
    BY <1>1, <1>2, <1>3 DEF AppendEntries, Message

\* What start_election sends is a message.
LEMMA RequestVoteType ==
  ASSUME NEW s \in State
  PROVE  RequestVote(s) \in Message
  <1>1. s.log \in Seq(Entry) /\ s.current_term \in Nat
    BY DEF State
  <1>2. last_log_term(s) \in Nat
    BY <1>1, TermAtType DEF last_log_term
  <1> QED
    BY <1>1, <1>2 DEF RequestVote, Message

\* What a handler sends is of the messages it is built from.
LEMMA OutputType ==
  /\ Silence \in [Node -> Seq(Message)]
  /\ \A q \in Node, msgs \in Seq(Message) : ToPeer(q, msgs) \in [Node -> Seq(Message)]
  /\ \A n \in Node, m \in Message : Broadcast(n, m) \in [Node -> Seq(Message)]
  <1>1. <<>> \in Seq(Message) /\ \A m \in Message : <<m>> \in Seq(Message)
    OBVIOUS
  <1> QED
    BY <1>1 DEF Silence, ToPeer, Broadcast

-----------------------------------------------------------------------------
(* What the methods of the protocol promise.                               *)

\* State t has the election state of s and asks for the same writes of it.
SameBallot(s, t) ==
    /\ t.current_term = s.current_term
    /\ t.voted_for = s.voted_for
    /\ t.role = s.role
    /\ t.votes_received = s.votes_received
    /\ t.pending_persist_term = s.pending_persist_term
    /\ t.pending_persist_voted_for = s.pending_persist_voted_for

\* State t has the log of s and asks for the same writes of it.
SameLog(s, t) ==
    /\ t.log = s.log
    /\ t.pending_persist_log_from = s.pending_persist_log_from
    /\ t.pending_truncate_from = s.pending_truncate_from

\* No write of the log is asked for.
Clean(s) == s.pending_persist_log_from = 0 /\ s.pending_truncate_from = 0

\* The writes that t asks for turn the stored log old into the log of t.
LogWritten(old, t) ==
    \E keep \in 0..Len(old) :
        /\ keep <= Len(t.log)
        /\ SubSeq(t.log, 1, keep) = SubSeq(old, 1, keep)
        /\ t.pending_truncate_from = IF keep < Len(old) THEN keep + 1 ELSE 0
        /\ t.pending_persist_log_from = IF keep < Len(t.log) THEN keep + 1 ELSE 0

\* How the election state may change from s to t when the votes of the nodes in
\* new arrive at node n.
BallotStep(n, s, new, t) ==
    /\ t.current_term >= s.current_term
    /\ t.current_term = s.current_term /\ s.voted_for # Nil => t.voted_for = s.voted_for
    /\ t.current_term # s.current_term => t.pending_persist_term
    /\ t.voted_for # s.voted_for => t.pending_persist_voted_for
    /\ s.pending_persist_term => t.pending_persist_term
    /\ s.pending_persist_voted_for => t.pending_persist_voted_for
    /\ t.role # "Follower" =>
          \/ /\ t.current_term = s.current_term
             /\ s.role # "Follower"
             /\ t.votes_received \subseteq s.votes_received \cup new
          \/ t.votes_received = {n} /\ t.voted_for = n
    /\ t.role = "Leader" =>
          \/ Cardinality(t.votes_received) >= quorum
          \/ s.role = "Leader" /\ t.votes_received = s.votes_received

IsGrant(m) == m.type = "RequestVoteResponse" /\ m.vote_granted

\* Votes are granted only to the node voted for, in the current term.
GrantsOK(t, out) ==
    \A p \in Node : \A k \in 1..Len(out[p]) :
        IsGrant(out[p][k]) => out[p][k].term = t.current_term /\ t.voted_for = p

HandlerOK(n, s, new, r) ==
    /\ r.st \in State
    /\ r.out \in [Node -> Seq(Message)]
    /\ LogWritten(s.log, r.st)
    /\ BallotStep(n, s, new, r.st)
    /\ GrantsOK(r.st, r.out)

\* Committed entries become decisions; nothing else of the state changes.
LEMMA ApplyOK ==
  ASSUME NEW s \in State, s.commit_index <= Len(s.log)
  PROVE  /\ apply_committed_entries(s) \in State
         /\ SameBallot(s, apply_committed_entries(s))
         /\ SameLog(s, apply_committed_entries(s))
  <1> DEFINE news == [i \in 1..(s.commit_index - s.last_applied) |->
                          s.log[s.last_applied + i].value]
  <1>1. /\ s.log \in Seq(Entry) /\ s.commit_index \in Nat /\ s.last_applied \in Nat
        /\ s.pending_decisions \in Seq(Value)
    BY DEF State
  <1>2. CASE s.commit_index > s.last_applied
    <2>1. s.commit_index - s.last_applied \in Nat
      BY <1>1, <1>2
    <2>2. \A i \in 1..(s.commit_index - s.last_applied) :
             s.log[s.last_applied + i].value \in Value
      <3> TAKE i \in 1..(s.commit_index - s.last_applied)
      <3>1. s.last_applied + i \in 1..Len(s.log)
        BY <1>1, <1>2
      <3> QED
        BY <1>1, <3>1, EntryType
    <2>3. news \in Seq(Value)
      BY <2>1, <2>2
    <2>4. s.pending_decisions \o news \in Seq(Value)
      BY <1>1, <2>3
    <2> QED
      BY <1>1, <1>2, <2>4 DEF apply_committed_entries, State, SameBallot, SameLog
  <1>3. CASE ~(s.commit_index > s.last_applied)
    BY <1>3 DEF apply_committed_entries, SameBallot, SameLog
  <1> QED
    BY <1>2, <1>3

\* An advance of the commit index stays within the log.
LEMMA AdvanceOK ==
  ASSUME NEW s \in State
  PROVE  /\ try_advance_commit(s) \in State
         /\ SameBallot(s, try_advance_commit(s))
         /\ SameLog(s, try_advance_commit(s))
  <1> DEFINE Reached(c) == {p \in Node : s.match_index[p] >= c}
             ready == {c \in (s.commit_index + 1)..Len(s.log) :
                          /\ Cardinality(Reached(c)) >= quorum
                          /\ Cardinality(Reached(c + 1)) < quorum
                          /\ s.log[c].term = s.current_term}
             c0 == CHOOSE c \in ready : TRUE
             t == [s EXCEPT !.commit_index = c0, !.pending_persist_commit_index = TRUE]
  <1>1. s.commit_index \in Nat /\ s.log \in Seq(Entry)
    BY DEF State
  <1>2. CASE ready = {}
    BY <1>2 DEF try_advance_commit, SameBallot, SameLog
  <1>3. CASE ready # {}
    <2>1. c0 \in ready
      BY <1>3
    <2> HIDE DEF c0
    <2>2. c0 \in Nat /\ c0 <= Len(s.log)
      <3>1. c0 \in (s.commit_index + 1)..Len(s.log)
        BY <2>1
      <3> HIDE DEF ready, Reached
      <3> QED
        BY <1>1, <3>1, SMTT(30)
    <2>3. /\ t \in State /\ t.commit_index = c0 /\ t.log = s.log
          /\ SameBallot(s, t) /\ SameLog(s, t)
      BY <2>2 DEF State, SameBallot, SameLog
    <2> HIDE DEF t
    <2>4. /\ apply_committed_entries(t) \in State
          /\ SameBallot(t, apply_committed_entries(t))
          /\ SameLog(t, apply_committed_entries(t))
      BY <2>2, <2>3, ApplyOK
    <2>5. try_advance_commit(s) = apply_committed_entries(t)
      BY <1>3 DEF try_advance_commit, t, c0
    <2> QED
      BY <2>3, <2>4, <2>5 DEF SameBallot, SameLog
  <1> QED
    BY <1>2, <1>3

\* An unchanged log needs no writes.
LEMMA SameLogWritten ==
  ASSUME NEW s \in State, NEW t \in State, SameLog(s, t), Clean(s)
  PROVE  LogWritten(s.log, t)
  <1>1. s.log \in Seq(Entry)
    BY DEF State
  <1>2. Len(s.log) \in 0..Len(s.log)
    BY <1>1
  <1> QED
    BY <1>2 DEF SameLog, Clean, LogWritten

\* An unchanged election state is a step of it.
LEMMA SameBallotStep ==
  ASSUME NEW n \in Node, NEW s \in State, NEW t \in State, NEW new, SameBallot(s, t)
  PROVE  BallotStep(n, s, new, t)
  <1>1. s.current_term \in Nat
    BY DEF State
  <1> QED
    BY <1>1 DEF SameBallot, BallotStep

\* No vote is granted by other messages than vote responses.
LEMMA NoGrants ==
  ASSUME NEW t, NEW n \in Node
  PROVE  /\ GrantsOK(t, Silence)
         /\ \A m \in Message : m.type # "RequestVoteResponse" => GrantsOK(t, Broadcast(n, m))
         /\ \A q \in Node, msgs \in Seq(Message) :
               (\A k \in 1..Len(msgs) : msgs[k].type # "RequestVoteResponse")
                  => GrantsOK(t, ToPeer(q, msgs))
  <1>1. GrantsOK(t, Silence)
    BY DEF GrantsOK, Silence
  <1>2. ASSUME NEW m \in Message, m.type # "RequestVoteResponse"
        PROVE  GrantsOK(t, Broadcast(n, m))
    <2>1. \A p \in Node : Broadcast(n, m)[p] = IF p = n THEN <<>> ELSE <<m>>
      BY DEF Broadcast
    <2> QED
      BY <1>2, <2>1 DEF GrantsOK, IsGrant
  <1>3. ASSUME NEW q \in Node, NEW msgs \in Seq(Message),
               \A k \in 1..Len(msgs) : msgs[k].type # "RequestVoteResponse"
        PROVE  GrantsOK(t, ToPeer(q, msgs))
    <2>1. \A p \in Node : ToPeer(q, msgs)[p] = IF p = q THEN msgs ELSE <<>>
      BY DEF ToPeer, Silence
    <2> QED
      BY <1>3, <2>1 DEF GrantsOK, IsGrant
  <1> QED
    BY <1>1, <1>2, <1>3

\* A leader that appends keeps its election state and asks for the new entries
\* to be stored.
LEMMA AppendAsLeaderOK ==
  ASSUME NEW n \in Node, NEW s \in State, Clean(s),
         NEW values \in Seq(Value), values # <<>>
  PROVE  LET r == AppendAsLeader(n, s, values)
         IN  /\ r.st \in State
             /\ r.out \in [Node -> Seq(Message)]
             /\ LogWritten(s.log, r.st)
             /\ SameBallot(s, r.st)
             /\ GrantsOK(r.st, r.out)
  <1> DEFINE news == LogEntries(s.current_term, values)
             log2 == s.log \o news
             from2 == IF s.pending_persist_log_from = 0 THEN Len(s.log) + 1
                                                        ELSE s.pending_persist_log_from
             match2 == [s.match_index EXCEPT ![n] = Len(s.log) + Len(values)]
             grown == [s EXCEPT !.log = log2, !.pending_persist_log_from = from2,
                                !.match_index = match2]
             st == try_advance_commit(grown)
             m == AppendEntries(st, Len(s.log))
  <1>1. /\ s.log \in Seq(Entry) /\ s.current_term \in Nat
        /\ s.match_index \in [Node -> Nat]
    BY DEF State
  <1>2. news \in Seq(Entry) /\ Len(news) = Len(values)
    <2>1. \A i \in 1..Len(values) : values[i] \in Value
      BY ElementOfSeq
    <2>2. \A i \in 1..Len(values) : [term |-> s.current_term, value |-> values[i]] \in Entry
      BY <1>1, <2>1 DEF Entry
    <2>3. Len(values) \in Nat
      OBVIOUS
    <2> QED
      BY <2>2, <2>3 DEF LogEntries
  <1> HIDE DEF news
  <1>3. /\ s.log \o news \in Seq(Entry)
        /\ Len(s.log \o news) = Len(s.log) + Len(values)
        /\ SubSeq(s.log \o news, 1, Len(s.log)) = SubSeq(s.log, 1, Len(s.log))
    <2>1. s.log \in Seq(Entry) /\ news \in Seq(Entry)
      BY <1>1, <1>2
    <2>2. /\ s.log \o news \in Seq(Entry)
          /\ Len(s.log \o news) = Len(s.log) + Len(news)
          /\ SubSeq(s.log \o news, 1, Len(s.log)) = SubSeq(s.log, 1, Len(s.log))
      BY <2>1, ConcatType, Zenon
    <2> QED
      BY <1>2, <2>2
  <1>4. /\ grown \in State
        /\ SameBallot(s, grown)
        /\ grown.log = s.log \o news
        /\ grown.pending_persist_log_from = Len(s.log) + 1
        /\ grown.pending_truncate_from = 0
    <2>1. /\ log2 \in Seq(Entry) /\ match2 \in [Node -> Nat]
          /\ from2 = Len(s.log) + 1 /\ from2 \in Nat /\ s.pending_truncate_from = 0
      BY <1>1, <1>3 DEF Clean
    <2> HIDE DEF log2, from2, match2
    <2>2. grown \in State /\ grown.log = log2 /\ grown.pending_persist_log_from = from2
      BY <2>1 DEF State
    <2>3. SameBallot(s, grown) /\ grown.pending_truncate_from = 0
      BY <2>1 DEF State, SameBallot
    <2> QED
      BY <2>1, <2>2, <2>3 DEF log2
  <1> HIDE DEF grown
  <1>5. st \in State /\ SameBallot(grown, st) /\ SameLog(grown, st)
    BY <1>4, AdvanceOK
  <1> HIDE DEF st
  <1>6. SameBallot(s, st)
    BY <1>4, <1>5 DEF SameBallot
  <1>7. LogWritten(s.log, st)
    <2>1. Len(values) > 0
      OBVIOUS
    <2>2. Len(s.log) \in 0..Len(s.log)
      BY <1>1
    <2>3. /\ st.log = s.log \o news
          /\ st.pending_persist_log_from = Len(s.log) + 1
          /\ st.pending_truncate_from = 0
      BY <1>4, <1>5 DEF SameLog
    <2>4. Len(s.log) < Len(st.log)
      BY <1>1, <1>3, <2>1, <2>3
    <2>5. SubSeq(st.log, 1, Len(s.log)) = SubSeq(s.log, 1, Len(s.log))
      BY <1>3, <2>3
    <2> QED
      <3> SUFFICES \E keep \in 0..Len(s.log) :
              /\ keep <= Len(st.log)
              /\ SubSeq(st.log, 1, keep) = SubSeq(s.log, 1, keep)
              /\ st.pending_truncate_from = IF keep < Len(s.log) THEN keep + 1 ELSE 0
              /\ st.pending_persist_log_from = IF keep < Len(st.log) THEN keep + 1 ELSE 0
        BY DEF LogWritten
      <3> WITNESS Len(s.log) \in 0..Len(s.log)
      <3> QED
        BY <1>1, <2>2, <2>3, <2>4, <2>5
  <1>8. m \in Message /\ m.type # "RequestVoteResponse"
    <2>1. Len(s.log) \in 0..Len(st.log)
      BY <1>1, <1>3, <1>4, <1>5 DEF SameLog
    <2> QED
      BY <1>5, <2>1, AppendEntriesType DEF AppendEntries
  <1> HIDE DEF m
  <1>9. Broadcast(n, m) \in [Node -> Seq(Message)] /\ GrantsOK(st, Broadcast(n, m))
    BY <1>8, OutputType, NoGrants
  <1>10. AppendAsLeader(n, s, values) = [st |-> st, out |-> Broadcast(n, m)]
    BY DEF AppendAsLeader, Result, news, log2, from2, match2, grown, st, m
  <1> QED
    BY <1>5, <1>6, <1>7, <1>9, <1>10

\* A heartbeat changes nothing.
LEMMA HeartbeatOK ==
  ASSUME NEW n \in Node, NEW s \in State, Clean(s)
  PROVE  LET r == broadcast_heartbeat(n, s)
         IN  /\ r.st = s
             /\ r.out \in [Node -> Seq(Message)]
             /\ LogWritten(s.log, r.st)
             /\ GrantsOK(r.st, r.out)
  <1> DEFINE m == AppendEntries(s, Len(s.log))
  <1>1. m \in Message /\ m.type # "RequestVoteResponse"
    <2>1. Len(s.log) \in 0..Len(s.log)
      BY DEF State
    <2> QED
      BY <2>1, AppendEntriesType DEF AppendEntries
  <1> HIDE DEF m
  <1>2. Broadcast(n, m) \in [Node -> Seq(Message)] /\ GrantsOK(s, Broadcast(n, m))
    BY <1>1, OutputType, NoGrants
  <1>3. LogWritten(s.log, s)
    BY SameLogWritten DEF SameLog
  <1>4. broadcast_heartbeat(n, s) = [st |-> s, out |-> Broadcast(n, m)]
    BY DEF broadcast_heartbeat, Result, m
  <1> QED
    BY <1>2, <1>3, <1>4

\* A node that becomes leader keeps its term, its vote and the votes it got.
LEMMA BecomeLeaderOK ==
  ASSUME NEW n \in Node, NEW s \in State, Clean(s)
  PROVE  LET r == become_leader(n, s)
         IN  /\ r.st \in State
             /\ r.out \in [Node -> Seq(Message)]
             /\ LogWritten(s.log, r.st)
             /\ SameBallot([s EXCEPT !.role = "Leader"], r.st)
             /\ GrantsOK(r.st, r.out)
  <1> DEFINE next2 == [p \in Node |-> Nil]
             match2 == [p \in Node |-> IF p = n THEN Len(s.log) ELSE 0]
             won == [s EXCEPT !.role = "Leader", !.leader = n, !.next_index = next2,
                              !.match_index = match2, !.pending_proposals = <<>>]
  <1>1. s.log \in Seq(Entry) /\ s.pending_proposals \in Seq(Value)
    BY DEF State
  <1>2. /\ won \in State
        /\ Clean(won)
        /\ won.log = s.log
        /\ SameBallot([s EXCEPT !.role = "Leader"], won)
    <2>1. next2 \in [Node -> Nat \cup {Nil}] /\ match2 \in [Node -> Nat]
      BY <1>1
    <2>2. <<>> \in Seq(Value)
      OBVIOUS
    <2> HIDE DEF next2, match2
    <2>3. won \in State
      BY <2>1, <2>2 DEF State
    <2> QED
      BY <2>3 DEF State, SameBallot, Clean
  <1> HIDE DEF won
  <1>3. CASE s.pending_proposals = <<>>
    <2>1. become_leader(n, s) = broadcast_heartbeat(n, won)
      BY <1>3 DEF become_leader, won, next2, match2
    <2> QED
      BY <1>2, <2>1, HeartbeatOK
  <1>4. CASE s.pending_proposals # <<>>
    <2>1. become_leader(n, s) = AppendAsLeader(n, won, s.pending_proposals)
      BY <1>4 DEF become_leader, won, next2, match2
    <2> DEFINE r == AppendAsLeader(n, won, s.pending_proposals)
    <2>2. /\ r.st \in State
          /\ r.out \in [Node -> Seq(Message)]
          /\ LogWritten(won.log, r.st)
          /\ SameBallot(won, r.st)
          /\ GrantsOK(r.st, r.out)
      BY <1>1, <1>2, <1>4, AppendAsLeaderOK
    <2> HIDE DEF r
    <2>3. SameBallot([s EXCEPT !.role = "Leader"], r.st)
      BY <1>2, <2>2 DEF SameBallot
    <2> QED
      BY <1>2, <2>1, <2>2, <2>3 DEF r
  <1> QED
    BY <1>3, <1>4

\* An election opens a new term in which the node has voted for itself.
LEMMA StartElectionOK ==
  ASSUME NEW n \in Node, NEW s \in State, Clean(s)
  PROVE  HandlerOK(n, s, {}, start_election(n, s))
  <1> DEFINE st == [s EXCEPT !.current_term = @ + 1,
                             !.role = "Candidate",
                             !.voted_for = n,
                             !.votes_received = {n},
                             !.leader = Nil,
                             !.pending_persist_term = TRUE,
                             !.pending_persist_voted_for = TRUE]
             lost == s.lost_proposals \o s.pending_proposals
             idle == [st EXCEPT !.lost_proposals = lost, !.pending_proposals = <<>>]
             m == RequestVote(st)
  <1>1. /\ s.current_term \in Nat /\ s.log \in Seq(Entry)
        /\ s.lost_proposals \in Seq(Value) /\ s.pending_proposals \in Seq(Value)
    BY DEF State
  <1>2. lost \in Seq(Value) /\ <<>> \in Seq(Value)
    BY <1>1
  <1> HIDE DEF lost
  <1>3. st \in State /\ SameLog(s, st) /\ Clean(st)
    <2>1. s.current_term + 1 \in Nat /\ {n} \in SUBSET Node
      BY <1>1
    <2>2. st \in State
      BY <2>1 DEF State
    <2> QED
      BY <2>2 DEF State, SameLog, Clean
  <1>4. /\ st.current_term = s.current_term + 1
        /\ st.voted_for = n /\ st.votes_received = {n} /\ st.role = "Candidate"
        /\ st.pending_persist_term /\ st.pending_persist_voted_for
    BY DEF State
  <1> HIDE DEF st
  <1>5. idle \in State /\ SameLog(st, idle) /\ SameBallot(st, idle)
    BY <1>2, <1>3 DEF State, SameLog, SameBallot
  <1> HIDE DEF idle
  <1>6. ASSUME NEW t \in State, SameBallot(st, t) \/ SameBallot([st EXCEPT !.role = "Leader"], t),
               t.role = "Leader" => Cardinality({n}) >= quorum
        PROVE  BallotStep(n, s, {}, t)
    <2>1. /\ t.current_term = s.current_term + 1
          /\ t.voted_for = n /\ t.votes_received = {n}
          /\ t.pending_persist_term /\ t.pending_persist_voted_for
      BY <1>3, <1>4, <1>6 DEF SameBallot, State
    <2> QED
      BY <1>1, <1>6, <2>1 DEF BallotStep
  <1>7. m \in Message /\ m.type # "RequestVoteResponse"
    BY <1>3, RequestVoteType DEF RequestVote
  <1> HIDE DEF m
  <1>8. /\ Broadcast(n, m) \in [Node -> Seq(Message)]
        /\ \A t : GrantsOK(t, Broadcast(n, m))
    BY <1>7, OutputType, NoGrants
  <1>9. CASE Cardinality({n}) >= quorum
    <2> DEFINE r == become_leader(n, st)
    <2>1. /\ r.st \in State /\ r.out \in [Node -> Seq(Message)]
          /\ LogWritten(st.log, r.st)
          /\ SameBallot([st EXCEPT !.role = "Leader"], r.st)
          /\ GrantsOK(r.st, r.out)
      BY <1>3, BecomeLeaderOK
    <2>2. start_election(n, s) = r
      BY <1>9 DEF start_election, st
    <2> HIDE DEF r
    <2>3. BallotStep(n, s, {}, r.st)
      BY <1>6, <1>9, <2>1
    <2> QED
      BY <1>3, <2>1, <2>2, <2>3 DEF HandlerOK, SameLog
  <1>10. CASE ~(Cardinality({n}) >= quorum) /\ s.role = "Candidate"
    <2>1. start_election(n, s) = [st |-> idle, out |-> Broadcast(n, m)]
      BY <1>10 DEF start_election, Result, st, idle, lost, m
    <2>2. BallotStep(n, s, {}, idle)
      BY <1>4, <1>5, <1>6 DEF SameBallot
    <2>3. SameLog(s, idle)
      BY <1>3, <1>5 DEF SameLog
    <2>4. LogWritten(s.log, idle)
      BY <1>5, <2>3, SameLogWritten
    <2> QED
      BY <1>5, <1>8, <2>1, <2>2, <2>4 DEF HandlerOK
  <1>11. CASE ~(Cardinality({n}) >= quorum) /\ s.role # "Candidate"
    <2>1. start_election(n, s) = [st |-> st, out |-> Broadcast(n, m)]
      BY <1>11 DEF start_election, Result, st, m
    <2>2. BallotStep(n, s, {}, st)
      BY <1>3, <1>4, <1>6 DEF SameBallot
    <2>3. LogWritten(s.log, st)
      BY <1>3, SameLogWritten
    <2> QED
      BY <1>3, <1>8, <2>1, <2>2, <2>3 DEF HandlerOK
  <1> QED
    BY <1>9, <1>10, <1>11

\* A granted vote is a vote for the sender in the current term, and the only one.
LEMMA RequestVoteOK ==
  ASSUME NEW n \in Node, NEW s \in State, Clean(s), NEW from \in Node, NEW m
  PROVE  HandlerOK(n, s, {}, handle_request_vote(n, s, from, m))
  <1> DEFINE grant == /\ m.term >= s.current_term
                      /\ s.voted_for \in {Nil, from}
                      /\ candidate_log_at_least_as_up_to_date(s, m.last_log_term,
                                                              m.last_log_index)
             st == IF grant
                   THEN [s EXCEPT !.voted_for = from, !.pending_persist_voted_for = TRUE]
                   ELSE s
             reply == RequestVoteResponse(st, grant)
             out == ToPeer(from, <<reply>>)
  <1>1. s.current_term \in Nat
    BY DEF State
  <1>2. st \in State /\ SameLog(s, st) /\ st.current_term = s.current_term
    BY DEF State, SameLog
  <1>3. BallotStep(n, s, {}, st)
    BY <1>1 DEF State, BallotStep
  <1>4. grant => st.voted_for = from
    BY DEF State
  <1>5. grant \in BOOLEAN
    OBVIOUS
  <1>6. handle_request_vote(n, s, from, m) = [st |-> st, out |-> out]
    BY DEF handle_request_vote, Result
  <1> HIDE DEF grant, st
  <1>7. /\ reply \in Message
        /\ IsGrant(reply) => reply.term = st.current_term /\ st.voted_for = from
    BY <1>1, <1>2, <1>4, <1>5 DEF RequestVoteResponse, Message, IsGrant
  <1> HIDE DEF reply
  <1>8. out \in [Node -> Seq(Message)]
    <2>1. <<reply>> \in Seq(Message)
      BY <1>7
    <2> QED
      BY <2>1, OutputType
  <1>9. GrantsOK(st, out)
    <2>1. \A p \in Node : out[p] = IF p = from THEN <<reply>> ELSE <<>>
      BY DEF ToPeer, Silence
    <2> QED
      BY <1>7, <2>1 DEF GrantsOK
  <1>10. LogWritten(s.log, st)
    BY <1>2, SameLogWritten
  <1> QED
    BY <1>2, <1>3, <1>6, <1>8, <1>9, <1>10 DEF HandlerOK

\* A granted vote of the current term is counted, and a quorum of them elects.
LEMMA RequestVoteResponseOK ==
  ASSUME NEW n \in Node, NEW s \in State, Clean(s), NEW from \in Node, NEW m, NEW new,
         m.type = "RequestVoteResponse",
         IsGrant(m) /\ m.term = s.current_term => from \in new
  PROVE  HandlerOK(n, s, new, handle_request_vote_response(n, s, from, m))
  <1> DEFINE votes == s.votes_received \cup {from}
             st == [s EXCEPT !.votes_received = votes]
  <1>1. s.current_term \in Nat /\ votes \in SUBSET Node
    BY DEF State
  <1>2. s.role = "Candidate" /\ m.term = s.current_term /\ IsGrant(m)
            => votes \subseteq s.votes_received \cup new
    OBVIOUS
  <1> HIDE DEF votes
  <1>3. st \in State /\ SameLog(s, st) /\ SameBallot([s EXCEPT !.votes_received = votes], st)
    BY <1>1 DEF State, SameLog, SameBallot
  <1>4. /\ st.current_term = s.current_term /\ st.voted_for = s.voted_for
        /\ st.role = s.role /\ st.votes_received = votes
        /\ st.pending_persist_term = s.pending_persist_term
        /\ st.pending_persist_voted_for = s.pending_persist_voted_for
    BY DEF State
  <1>5. Clean(st) /\ LogWritten(s.log, st) /\ st.log = s.log
    BY <1>3, SameLogWritten DEF SameLog, Clean
  <1>6. Silence \in [Node -> Seq(Message)] /\ \A t : GrantsOK(t, Silence)
    BY OutputType, NoGrants
  <1>7. CASE s.role # "Candidate" \/ m.term # s.current_term \/ ~m.vote_granted
    <2>1. handle_request_vote_response(n, s, from, m) = [st |-> s, out |-> Silence]
      BY <1>7 DEF handle_request_vote_response, Result
    <2>2. SameLog(s, s) /\ SameBallot(s, s)
      BY DEF SameLog, SameBallot
    <2> QED
      BY <1>6, <2>1, <2>2, SameLogWritten, SameBallotStep DEF HandlerOK
  <1>8. CASE s.role = "Candidate" /\ m.term = s.current_term /\ m.vote_granted
    <2>1. votes \subseteq s.votes_received \cup new
      BY <1>2, <1>8 DEF IsGrant
    <2>2. CASE Cardinality(st.votes_received) >= quorum
      <3> DEFINE r == become_leader(n, st)
      <3>1. /\ r.st \in State /\ r.out \in [Node -> Seq(Message)]
            /\ LogWritten(st.log, r.st)
            /\ SameBallot([st EXCEPT !.role = "Leader"], r.st)
            /\ GrantsOK(r.st, r.out)
        BY <1>3, <1>5, BecomeLeaderOK
      <3>2. handle_request_vote_response(n, s, from, m) = r
        BY <1>8, <2>2 DEF handle_request_vote_response, st, votes
      <3> HIDE DEF r
      <3>3. /\ r.st.current_term = s.current_term /\ r.st.voted_for = s.voted_for
            /\ r.st.votes_received = votes
            /\ r.st.pending_persist_term = s.pending_persist_term
            /\ r.st.pending_persist_voted_for = s.pending_persist_voted_for
        BY <1>3, <1>4, <3>1 DEF SameBallot, State
      <3>4. BallotStep(n, s, new, r.st)
        BY <1>1, <1>4, <1>8, <2>1, <2>2, <3>3 DEF BallotStep
      <3> QED
        BY <1>5, <3>1, <3>2, <3>4 DEF HandlerOK
    <2>3. CASE ~(Cardinality(st.votes_received) >= quorum)
      <3>1. handle_request_vote_response(n, s, from, m) = [st |-> st, out |-> Silence]
        BY <1>8, <2>3 DEF handle_request_vote_response, Result, st, votes
      <3>2. BallotStep(n, s, new, st)
        BY <1>1, <1>4, <1>8, <2>1 DEF BallotStep
      <3> QED
        BY <1>3, <1>5, <1>6, <3>1, <3>2 DEF HandlerOK
    <2> QED
      BY <2>2, <2>3
  <1> QED
    BY <1>7, <1>8

\* The entries that survive an accepted AppendEntries are a prefix of the log that
\* reaches at least to prev and, unless nothing is verified, at most to match_idx.
LEMMA KeptLengthOK ==
  ASSUME NEW log \in Seq(Entry), NEW entries \in Seq(Entry), NEW prev \in Nat,
         prev <= Len(log)
  PROVE  LET keep == KeptLength(log, prev, entries)
         IN  /\ keep \in Nat /\ keep <= Len(log) /\ keep >= prev
             /\ keep <= prev + Len(entries) \/ prev + Len(entries) = 0
  <1> DEFINE clash == {i \in 1..Len(entries) :
                          prev + i <= Len(log) /\ log[prev + i].term # entries[i].term}
             first == CHOOSE i \in clash : \A j \in clash : i <= j
  <1>1. Len(log) \in Nat /\ Len(entries) \in Nat
    OBVIOUS
  <1>2. CASE clash # {}
    <2>1. clash \in SUBSET Nat
      OBVIOUS
    <2> HIDE DEF clash
    <2>2. \E i \in clash : \A j \in clash : i <= j
      BY <1>2, <2>1, MinExists
    <2>3. first \in clash
      BY <2>2
    <2>4. first \in 1..Len(entries) /\ prev + first <= Len(log)
      BY <2>3 DEF clash
    <2>5. KeptLength(log, prev, entries) = prev + first - 1
      BY <1>2 DEF KeptLength, clash
    <2> HIDE DEF first
    <2> QED
      BY <1>1, <2>4, <2>5
  <1>3. CASE clash = {}
    <2>1. KeptLength(log, prev, entries) =
              IF prev + Len(entries) = 0 THEN Len(log)
                                         ELSE Smaller(prev + Len(entries), Len(log))
      BY <1>3 DEF KeptLength
    <2> HIDE DEF clash
    <2> QED
      BY <1>1, <2>1 DEF Smaller
  <1> QED
    BY <1>2, <1>3

\* The log after an accepted AppendEntries: the kept prefix, then entries up to
\* match_idx.
LEMMA MergedLogOK ==
  ASSUME NEW log \in Seq(Entry), NEW entries \in Seq(Entry), NEW prev \in Nat,
         NEW keep \in Nat, keep <= Len(log), keep >= prev,
         keep <= prev + Len(entries) \/ prev + Len(entries) = 0
  PROVE  LET merged == MergedLog(log, prev, entries, keep)
         IN  /\ merged \in Seq(Entry)
             /\ keep <= Len(merged)
             /\ prev + Len(entries) <= Len(merged)
             /\ SubSeq(merged, 1, keep) = SubSeq(log, 1, keep)
  <1> DEFINE a == SubSeq(log, 1, keep)
             b == SubSeq(entries, keep - prev + 1, Len(entries))
  <1>1. Len(log) \in Nat /\ Len(entries) \in Nat /\ keep - prev + 1 \in Nat
    OBVIOUS
  <1>2. a \in Seq(Entry) /\ Len(a) = keep
    BY <1>1, SubSeqType
  <1>3. /\ b \in Seq(Entry)
        /\ Len(b) = IF keep - prev + 1 <= Len(entries)
                    THEN Len(entries) - (keep - prev) ELSE 0
    BY <1>1, SubSeqType
  <1>4. MergedLog(log, prev, entries, keep) = a \o b
    BY DEF MergedLog
  <1>5. SubSeq(a, 1, Len(a)) = a
    BY <1>2, SubSeqFull
  <1> HIDE DEF a, b
  <1>6. /\ a \o b \in Seq(Entry)
        /\ Len(a \o b) = Len(a) + Len(b)
        /\ SubSeq(a \o b, 1, Len(a)) = SubSeq(a, 1, Len(a))
    BY <1>2, <1>3, ConcatType
  <1>7. SubSeq(a \o b, 1, keep) = a
    BY <1>2, <1>5, <1>6
  <1>8. Len(b) \in Nat /\ (Len(b) = Len(entries) - (keep - prev) \/ Len(b) = 0)
    BY <1>1, <1>3
  <1>9. prev + Len(entries) <= keep + Len(b) /\ keep <= keep + Len(b)
    BY <1>1, <1>3, <1>8
  <1> QED
    BY <1>2, <1>4, <1>6, <1>7, <1>9 DEF a

AppendEntriesMessage ==
    [type : {"AppendEntries"}, term : Nat, prev_log_index : Nat,
     prev_log_term : Nat, entries : Seq(Entry), leader_commit : Nat]

\* Accepting entries leaves the election state alone, and the truncation and the
\* append it asks for produce the merged log.
LEMMA AcceptEntriesOK ==
  ASSUME NEW s \in State, Clean(s), NEW from \in Node, NEW m \in AppendEntriesMessage,
         prev_ok(s.log, m.prev_log_index, m.prev_log_term)
  PROVE  LET r == accept_entries(s, from, m)
         IN  /\ r.st \in State
             /\ r.out \in [Node -> Seq(Message)]
             /\ LogWritten(s.log, r.st)
             /\ SameBallot(s, r.st)
             /\ GrantsOK(r.st, r.out)
  <1> DEFINE match_idx == m.prev_log_index + Len(m.entries)
             keep == KeptLength(s.log, m.prev_log_index, m.entries)
             merged == MergedLog(s.log, m.prev_log_index, m.entries, keep)
             commit == Smaller(m.leader_commit, match_idx)
             trunc == IF keep < Len(s.log) THEN keep + 1 ELSE 0
             log_from == IF keep < Len(merged) THEN keep + 1 ELSE 0
             stored == [s EXCEPT !.log = merged,
                                 !.pending_truncate_from = trunc,
                                 !.pending_persist_log_from = log_from,
                                 !.pending_proposals = <<>>]
             committed == [stored EXCEPT !.commit_index = commit,
                                         !.pending_persist_commit_index = TRUE]
             st == IF commit > s.commit_index
                   THEN apply_committed_entries(committed)
                   ELSE stored
             forwards == [i \in 1..Len(s.pending_proposals) |->
                              Forward(s.pending_proposals[i], 0)]
             reply == Accepted(st, match_idx)
             msgs == <<reply>> \o forwards
  <1>1. /\ s.log \in Seq(Entry) /\ s.pending_proposals \in Seq(Value)
        /\ s.commit_index \in Nat
        /\ m.entries \in Seq(Entry) /\ m.prev_log_index \in Nat /\ m.leader_commit \in Nat
    BY DEF State, AppendEntriesMessage
  <1>2. m.prev_log_index <= Len(s.log)
    BY <1>1 DEF prev_ok
  <1>3. /\ keep \in Nat /\ keep <= Len(s.log) /\ keep >= m.prev_log_index
        /\ keep <= m.prev_log_index + Len(m.entries) \/ m.prev_log_index + Len(m.entries) = 0
    BY <1>1, <1>2, KeptLengthOK
  <1> HIDE DEF keep
  <1>4. /\ merged \in Seq(Entry) /\ keep <= Len(merged) /\ match_idx <= Len(merged)
        /\ SubSeq(merged, 1, keep) = SubSeq(s.log, 1, keep)
    BY <1>1, <1>3, MergedLogOK, ZenonT(60)
  <1> HIDE DEF merged
  <1>5. match_idx \in Nat /\ commit \in Nat /\ commit <= Len(merged)
    <2>1. match_idx \in Nat
      BY <1>1
    <2> HIDE DEF match_idx
    <2> QED
      BY <1>1, <1>4, <2>1 DEF Smaller
  <1> HIDE DEF match_idx, commit
  <1>6. trunc \in Nat /\ log_from \in Nat
    BY <1>3
  <1>7. /\ stored \in State /\ SameBallot(s, stored) /\ stored.log = merged
        /\ stored.pending_truncate_from = trunc /\ stored.pending_persist_log_from = log_from
    <2> HIDE DEF trunc, log_from
    <2>1. <<>> \in Seq(Value)
      OBVIOUS
    <2>2. stored \in State
      BY <1>4, <1>6, <2>1 DEF State
    <2> QED
      BY <2>2 DEF State, SameBallot
  <1> HIDE DEF stored
  <1>8. /\ committed \in State /\ SameBallot(stored, committed) /\ SameLog(stored, committed)
        /\ committed.commit_index = commit
    BY <1>5, <1>7 DEF State, SameBallot, SameLog
  <1> HIDE DEF committed
  <1>9. st \in State /\ SameBallot(stored, st) /\ SameLog(stored, st)
    <2>1. CASE commit > s.commit_index
      <3>1. committed.commit_index <= Len(committed.log)
        BY <1>5, <1>7, <1>8 DEF SameLog
      <3>2. /\ apply_committed_entries(committed) \in State
            /\ SameBallot(committed, apply_committed_entries(committed))
            /\ SameLog(committed, apply_committed_entries(committed))
        BY <1>8, <3>1, ApplyOK
      <3> QED
        BY <1>8, <2>1, <3>2 DEF SameBallot, SameLog
    <2>2. CASE ~(commit > s.commit_index)
      BY <1>7, <2>2 DEF SameBallot, SameLog
    <2> QED
      BY <2>1, <2>2
  <1> HIDE DEF st
  <1>10. SameBallot(s, st)
    BY <1>7, <1>9 DEF SameBallot
  <1>11. LogWritten(s.log, st)
    <2>1. /\ st.log = merged /\ st.pending_truncate_from = trunc
          /\ st.pending_persist_log_from = log_from
      BY <1>7, <1>9 DEF SameLog
    <2>2. keep \in 0..Len(s.log)
      BY <1>1, <1>3
    <2> QED
      BY <1>4, <2>1, <2>2 DEF LogWritten
  <1>12. msgs \in Seq(Message) /\ \A k \in 1..Len(msgs) : msgs[k].type # "RequestVoteResponse"
    <2>1. reply \in Message /\ reply.type = "AppendEntriesResponse"
      BY <1>5, <1>9 DEF Accepted, Message, State
    <2>2. \A i \in 1..Len(s.pending_proposals) :
             /\ Forward(s.pending_proposals[i], 0) \in Message
             /\ Forward(s.pending_proposals[i], 0).type = "Forward"
      <3> TAKE i \in 1..Len(s.pending_proposals)
      <3>1. s.pending_proposals[i] \in Value
        BY <1>1, ElementOfSeq
      <3> QED
        BY <3>1 DEF Forward, Message
    <2>3. Len(s.pending_proposals) \in Nat
      BY <1>1
    <2>4. forwards \in Seq(Message) /\ Len(forwards) = Len(s.pending_proposals)
      BY <2>2, <2>3
    <2>5. \A i \in 1..Len(forwards) : forwards[i].type = "Forward"
      BY <2>2, <2>4
    <2> HIDE DEF forwards, reply
    <2>6. <<reply>> \in Seq(Message) /\ Len(<<reply>>) = 1 /\ <<reply>>[1] = reply
      BY <2>1
    <2> QED
      BY <2>1, <2>4, <2>5, <2>6, ConcatProperties
  <1> HIDE DEF msgs
  <1>13. ToPeer(from, msgs) \in [Node -> Seq(Message)] /\ GrantsOK(st, ToPeer(from, msgs))
    BY <1>12, OutputType, NoGrants
  <1>14. accept_entries(s, from, m) = [st |-> st, out |-> ToPeer(from, msgs)]
    BY DEF accept_entries, Result, match_idx, keep, merged, commit, stored, committed, st, msgs
  <1> QED
    BY <1>9, <1>10, <1>11, <1>13, <1>14

\* The hint of a rejection is a position.
LEMMA ConflictHintType ==
  ASSUME NEW log \in Seq(Entry), NEW prev \in Nat, prev # 0
  PROVE  /\ conflict_hint(log, prev).term \in Nat \cup {Nil}
         /\ conflict_hint(log, prev).index \in Nat \cup {Nil}
  <1> DEFINE same == {i \in 1..prev : log[i].term = log[prev].term}
             first == CHOOSE i \in same : \A j \in same : i <= j
  <1>1. CASE prev > Len(log)
    BY <1>1 DEF conflict_hint
  <1>2. CASE ~(prev > Len(log))
    <2>1. prev \in 1..Len(log) /\ prev \in same
      BY <1>2
    <2>2. same \in SUBSET Nat /\ same # {}
      BY <2>1
    <2>3. \E i \in same : \A j \in same : i <= j
      <3> HIDE DEF same
      <3> QED
        BY <2>2, MinExists
    <2>4. first \in same
      <3> HIDE DEF same
      <3> QED
        BY <2>3
    <2>5. first - 1 \in Nat
      <3>1. first \in 1..prev
        BY <2>4
      <3> HIDE DEF first
      <3> QED
        BY <3>1
    <2>6. log[prev].term \in Nat
      BY <2>1, EntryType
    <2>7. conflict_hint(log, prev) = [term |-> log[prev].term, index |-> first - 1]
      BY <1>2 DEF conflict_hint
    <2> HIDE DEF first
    <2> QED
      BY <2>5, <2>6, <2>7
  <1> QED
    BY <1>1, <1>2

\* A handler that sends nothing and changes neither ballot nor log is fine; so is
\* one that sends a single message that is not a vote.
LEMMA QuietOK ==
  ASSUME NEW n \in Node, NEW s \in State, Clean(s), NEW t \in State, NEW new,
         SameBallot(s, t), SameLog(s, t)
  PROVE  /\ HandlerOK(n, s, new, Result(t, Silence))
         /\ \A q \in Node, m \in Message :
               m.type # "RequestVoteResponse"
                  => HandlerOK(n, s, new, Result(t, ToPeer(q, <<m>>)))
  <1>1. LogWritten(s.log, t) /\ BallotStep(n, s, new, t)
    BY SameLogWritten, SameBallotStep
  <1>2. HandlerOK(n, s, new, Result(t, Silence))
    BY <1>1, OutputType, NoGrants DEF HandlerOK, Result
  <1>3. ASSUME NEW q \in Node, NEW m \in Message, m.type # "RequestVoteResponse"
        PROVE  HandlerOK(n, s, new, Result(t, ToPeer(q, <<m>>)))
    <2>1. <<m>> \in Seq(Message) /\ \A k \in 1..Len(<<m>>) : <<m>>[k] = m
      OBVIOUS
    <2>2. ToPeer(q, <<m>>) \in [Node -> Seq(Message)]
      BY <2>1, OutputType
    <2>3. GrantsOK(t, ToPeer(q, <<m>>))
      BY <1>3, <2>1, NoGrants
    <2> QED
      BY <1>1, <2>2, <2>3 DEF HandlerOK, Result
  <1> QED
    BY <1>2, <1>3

\* The refusal of handle_append_entries is a message.
LEMMA RejectedType ==
  ASSUME NEW s \in State, NEW c, c.term \in Nat \cup {Nil}, c.index \in Nat \cup {Nil}
  PROVE  Rejected(s, c) \in Message /\ Rejected(s, c).type = "AppendEntriesResponse"
  BY DEF Rejected, Message, State

\* An AppendEntries makes a node at most a follower.
LEMMA HandleAppendEntriesOK ==
  ASSUME NEW n \in Node, NEW s \in State, Clean(s), NEW from \in Node,
         NEW m \in AppendEntriesMessage
  PROVE  HandlerOK(n, s, {}, handle_append_entries(n, s, from, m))
  <1> DEFINE follower == [s EXCEPT !.role = "Follower", !.leader = from]
             hint == conflict_hint(s.log, m.prev_log_index)
  <1>1. /\ s.log \in Seq(Entry) /\ s.current_term \in Nat
        /\ m.prev_log_index \in Nat
    BY DEF State, AppendEntriesMessage
  <1>2. /\ follower \in State /\ SameLog(s, follower) /\ Clean(follower)
        /\ SameBallot([s EXCEPT !.role = "Follower"], follower)
        /\ follower.role = "Follower" /\ follower.log = s.log
    BY DEF State, SameLog, SameBallot, Clean
  <1>3. ASSUME NEW t \in State, SameBallot(follower, t)
        PROVE  BallotStep(n, s, {}, t)
    <2>1. /\ t.current_term = s.current_term /\ t.voted_for = s.voted_for
          /\ t.role = "Follower"
          /\ t.pending_persist_term = s.pending_persist_term
          /\ t.pending_persist_voted_for = s.pending_persist_voted_for
      BY <1>3 DEF SameBallot, State
    <2> QED
      BY <1>1, <2>1 DEF BallotStep
  <1> HIDE DEF follower
  <1>4. CASE m.term < s.current_term \/ s.role = "Leader"
    <2>1. handle_append_entries(n, s, from, m) =
              Result(s, ToPeer(from, <<Rejected(s, NoHint)>>))
      BY <1>4 DEF handle_append_entries
    <2>2. /\ Rejected(s, NoHint) \in Message
          /\ Rejected(s, NoHint).type = "AppendEntriesResponse"
      BY RejectedType DEF NoHint
    <2>3. SameBallot(s, s) /\ SameLog(s, s)
      BY DEF SameBallot, SameLog
    <2> QED
      BY <2>1, <2>2, <2>3, QuietOK
  <1>5. CASE /\ ~(m.term < s.current_term \/ s.role = "Leader")
             /\ prev_ok(s.log, m.prev_log_index, m.prev_log_term)
    <2> DEFINE r == accept_entries(follower, from, m)
    <2>1. /\ r.st \in State /\ r.out \in [Node -> Seq(Message)]
          /\ LogWritten(follower.log, r.st)
          /\ SameBallot(follower, r.st)
          /\ GrantsOK(r.st, r.out)
      BY <1>2, <1>5, AcceptEntriesOK
    <2>2. handle_append_entries(n, s, from, m) = r
      BY <1>5 DEF handle_append_entries, follower
    <2> HIDE DEF r
    <2> QED
      BY <1>2, <1>3, <2>1, <2>2 DEF HandlerOK
  <1>6. CASE /\ ~(m.term < s.current_term \/ s.role = "Leader")
             /\ ~prev_ok(s.log, m.prev_log_index, m.prev_log_term)
    <2>1. m.prev_log_index # 0
      BY <1>6 DEF prev_ok
    <2>2. hint.term \in Nat \cup {Nil} /\ hint.index \in Nat \cup {Nil}
      BY <1>1, <2>1, ConflictHintType
    <2>3. handle_append_entries(n, s, from, m) =
              Result(follower, ToPeer(from, <<Rejected(follower, hint)>>))
      BY <1>6 DEF handle_append_entries, follower
    <2> HIDE DEF hint
    <2>4. /\ Rejected(follower, hint) \in Message
          /\ Rejected(follower, hint).type = "AppendEntriesResponse"
      BY <1>2, <2>2, RejectedType
    <2>5. HandlerOK(n, follower, {}, Result(follower, ToPeer(from, <<Rejected(follower, hint)>>)))
      <3>1. SameBallot(follower, follower) /\ SameLog(follower, follower)
        BY DEF SameBallot, SameLog
      <3> QED
        BY <1>2, <2>4, <3>1, QuietOK
    <2>6. BallotStep(n, s, {}, follower)
      BY <1>2, <1>3 DEF SameBallot
    <2> QED
      BY <1>2, <2>3, <2>5, <2>6 DEF HandlerOK, Result
  <1> QED
    BY <1>4, <1>5, <1>6

\* The leader resumes at a position of its own log.
LEMMA RewoundNextType ==
  ASSUME NEW s \in State, NEW from \in Node, NEW m, m.conflict_index \in Nat \cup {Nil}
  PROVE  rewound_next(s, from, m) \in 0..Len(s.log)
  <1> DEFINE same == {i \in 1..Len(s.log) : s.log[i].term = m.conflict_term}
             last == CHOOSE i \in same : \A j \in same : i >= j
             cur == IF s.next_index[from] = Nil THEN Len(s.log) ELSE s.next_index[from]
             back == IF cur = 0 THEN 0 ELSE cur - 1
             next == IF m.conflict_index = Nil
                     THEN back
                     ELSE IF m.conflict_term # Nil /\ same # {}
                     THEN last
                     ELSE m.conflict_index
  <1>1. Len(s.log) \in Nat /\ s.next_index[from] \in Nat \cup {Nil}
    BY DEF State
  <1>2. back \in Nat
    BY <1>1
  <1> HIDE DEF back
  <1>3. ASSUME same # {}
        PROVE  last \in Nat
    <2>1. same \in SUBSET (0..Len(s.log))
      BY <1>1
    <2> HIDE DEF same
    <2>2. \E i \in same : \A j \in same : i >= j
      BY <1>1, <1>3, <2>1, MaxExists
    <2>3. last \in same
      BY <2>2
    <2> HIDE DEF last
    <2> QED
      BY <1>1, <2>1, <2>3
  <1> HIDE DEF last, same
  <1>4. next \in Nat
    BY <1>2, <1>3
  <1>5. rewound_next(s, from, m) = Smaller(next, Len(s.log))
    BY DEF rewound_next, back, last, same
  <1> HIDE DEF next
  <1> QED
    BY <1>1, <1>4, <1>5 DEF Smaller

\* An answer to an AppendEntries moves a leader's bookkeeping only.
LEMMA AppendEntriesResponseOK ==
  ASSUME NEW n \in Node, NEW s \in State, Clean(s), NEW from \in Node, NEW m,
         m.match_index \in Nat, m.conflict_index \in Nat \cup {Nil}
  PROVE  HandlerOK(n, s, {}, handle_append_entries_response(n, s, from, m))
  <1> DEFINE next == rewound_next(s, from, m)
             next2 == [s.next_index EXCEPT ![from] = next]
             retry == [s EXCEPT !.next_index = next2]
             match3 == [s.match_index EXCEPT ![from] = m.match_index]
             next3 == [s.next_index EXCEPT ![from] = m.match_index]
             acked == [s EXCEPT !.match_index = match3, !.next_index = next3]
             st == try_advance_commit(acked)
  <1>1. /\ s.log \in Seq(Entry) /\ s.next_index \in [Node -> Nat \cup {Nil}]
        /\ s.match_index \in [Node -> Nat]
    BY DEF State
  <1>2. next \in 0..Len(s.log)
    BY RewoundNextType
  <1> HIDE DEF next
  <1>3. /\ next2 \in [Node -> Nat \cup {Nil}] /\ next3 \in [Node -> Nat \cup {Nil}]
        /\ match3 \in [Node -> Nat]
    BY <1>1, <1>2
  <1> HIDE DEF next2, next3, match3
  <1>4. retry \in State /\ SameBallot(s, retry) /\ SameLog(s, retry)
    BY <1>3 DEF State, SameBallot, SameLog
  <1>5. acked \in State /\ SameBallot(s, acked) /\ SameLog(s, acked)
    BY <1>3 DEF State, SameBallot, SameLog
  <1> HIDE DEF retry, acked
  <1>6. st \in State /\ SameBallot(s, st) /\ SameLog(s, st)
    <2>1. st \in State /\ SameBallot(acked, st) /\ SameLog(acked, st)
      BY <1>5, AdvanceOK
    <2> QED
      BY <1>5, <2>1 DEF SameBallot, SameLog
  <1>7. SameBallot(s, s) /\ SameLog(s, s)
    BY DEF SameBallot, SameLog
  <1>8. CASE s.role # "Leader" \/ m.term # s.current_term
    <2>1. handle_append_entries_response(n, s, from, m) = Result(s, Silence)
      BY <1>8 DEF handle_append_entries_response
    <2> QED
      BY <1>7, <2>1, QuietOK
  <1>9. CASE ~(s.role # "Leader" \/ m.term # s.current_term) /\ ~m.success
    <2>1. handle_append_entries_response(n, s, from, m) =
              Result(retry, ToPeer(from, <<AppendEntries(retry, next)>>))
      BY <1>9 DEF handle_append_entries_response, retry, next2, next
    <2>2. next \in 0..Len(retry.log)
      BY <1>2, <1>4 DEF SameLog
    <2>3. AppendEntries(retry, next) \in Message
      BY <1>4, <2>2, AppendEntriesType
    <2>4. AppendEntries(retry, next).type # "RequestVoteResponse"
      BY DEF AppendEntries
    <2> QED
      BY <1>4, <2>1, <2>3, <2>4, QuietOK
  <1>10. CASE /\ ~(s.role # "Leader" \/ m.term # s.current_term) /\ m.success
              /\ m.match_index = 0 \/ m.match_index > Len(s.log)
    <2>1. handle_append_entries_response(n, s, from, m) = Result(s, Silence)
      BY <1>10 DEF handle_append_entries_response
    <2> QED
      BY <1>7, <2>1, QuietOK
  <1>11. CASE /\ ~(s.role # "Leader" \/ m.term # s.current_term) /\ m.success
              /\ ~(m.match_index = 0 \/ m.match_index > Len(s.log))
    <2>1. handle_append_entries_response(n, s, from, m) = Result(st, Silence)
      BY <1>11 DEF handle_append_entries_response, st, acked, next3, match3
    <2> HIDE DEF st
    <2> QED
      BY <1>6, <2>1, QuietOK
  <1> QED
    BY <1>8, <1>9, <1>10, <1>11

\* A proposal is appended, forwarded or buffered.
LEMMA ProposeOK ==
  ASSUME NEW n \in Node, NEW s \in State, Clean(s), NEW v \in Value
  PROVE  HandlerOK(n, s, {}, propose(n, s, v))
  <1> DEFINE queue == Append(s.pending_proposals, v)
             kept == [s EXCEPT !.pending_proposals = queue]
  <1>1. SameBallot(s, s) /\ SameLog(s, s)
    BY DEF SameBallot, SameLog
  <1>2. CASE s.role = "Leader"
    <2> DEFINE r == AppendAsLeader(n, s, <<v>>)
    <2>1. <<v>> \in Seq(Value) /\ <<v>> # <<>>
      OBVIOUS
    <2>2. /\ r.st \in State /\ r.out \in [Node -> Seq(Message)]
          /\ LogWritten(s.log, r.st)
          /\ SameBallot(s, r.st)
          /\ GrantsOK(r.st, r.out)
      BY <2>1, AppendAsLeaderOK
    <2>3. propose(n, s, v) = r
      BY <1>2 DEF propose
    <2> HIDE DEF r
    <2>4. BallotStep(n, s, {}, r.st)
      BY <2>2, SameBallotStep
    <2> QED
      BY <2>2, <2>3, <2>4 DEF HandlerOK
  <1>3. CASE s.role # "Leader" /\ s.leader # Nil
    <2>1. propose(n, s, v) = Result(s, ToPeer(s.leader, <<Forward(v, 0)>>))
      BY <1>3 DEF propose
    <2>2. s.leader \in Node
      BY <1>3 DEF State
    <2>3. Forward(v, 0) \in Message /\ Forward(v, 0).type # "RequestVoteResponse"
      BY DEF Forward, Message
    <2> QED
      BY <1>1, <2>1, <2>2, <2>3, QuietOK
  <1>4. CASE s.role # "Leader" /\ s.leader = Nil
    <2>1. propose(n, s, v) = Result(kept, Silence)
      BY <1>4 DEF propose
    <2>2. queue \in Seq(Value)
      BY DEF State
    <2> HIDE DEF queue
    <2>3. kept \in State /\ SameBallot(s, kept) /\ SameLog(s, kept)
      BY <2>2 DEF State, SameBallot, SameLog
    <2> HIDE DEF kept
    <2> QED
      BY <2>1, <2>3, QuietOK
  <1> QED
    BY <1>2, <1>3, <1>4

\* handle_message on a forwarded proposal keeps its promises.
LEMMA HandleForwardOK ==
  ASSUME NEW n \in Node, NEW s \in State, Clean(s), NEW from \in Node, NEW m,
         m.value \in Value, m.hops \in Nat
  PROVE  HandlerOK(n, s, {}, handle_forward(n, s, from, m))
  <1> DEFINE queue == Append(s.pending_proposals, m.value)
             kept == [s EXCEPT !.pending_proposals = queue]
  <1>1. SameBallot(s, s) /\ SameLog(s, s)
    BY DEF SameBallot, SameLog
  <1>2. CASE s.role = "Leader"
    <2>1. handle_forward(n, s, from, m) = propose(n, s, m.value)
      BY <1>2 DEF handle_forward
    <2> QED
      BY <2>1, ProposeOK
  <1>3. CASE s.role # "Leader" /\ s.leader \in {Nil, from}
    <2>1. handle_forward(n, s, from, m) = Result(kept, Silence)
      BY <1>3 DEF handle_forward
    <2>2. queue \in Seq(Value)
      BY DEF State
    <2> HIDE DEF queue
    <2>3. kept \in State /\ SameBallot(s, kept) /\ SameLog(s, kept)
      BY <2>2 DEF State, SameBallot, SameLog
    <2> HIDE DEF kept
    <2> QED
      BY <2>1, <2>3, QuietOK
  <1>4. CASE /\ s.role # "Leader" /\ s.leader \notin {Nil, from}
             /\ m.hops + 1 >= MAX_FORWARD_HOPS
    <2>1. handle_forward(n, s, from, m) = Result(s, Silence)
      BY <1>4 DEF handle_forward
    <2> QED
      BY <1>1, <2>1, QuietOK
  <1>5. CASE /\ s.role # "Leader" /\ s.leader \notin {Nil, from}
             /\ ~(m.hops + 1 >= MAX_FORWARD_HOPS)
    <2> DEFINE f == Forward(m.value, m.hops + 1)
    <2>1. handle_forward(n, s, from, m) = Result(s, ToPeer(s.leader, <<f>>))
      BY <1>5 DEF handle_forward
    <2>2. s.leader \in Node
      BY <1>5 DEF State
    <2>3. f \in Message /\ f.type # "RequestVoteResponse"
      BY DEF Forward, Message
    <2> HIDE DEF f
    <2> QED
      BY <1>1, <2>1, <2>2, <2>3, QuietOK
  <1> QED
    BY <1>2, <1>3, <1>4, <1>5

\* The votes a message brings to a node in state s.
NewVotes(s, from, m) == IF IsGrant(m) /\ m.term = s.current_term THEN {from} ELSE {}

\* A message of a higher term makes the node a follower of that term without a
\* vote; what the handler does after that is a step from the old state too.
LEMMA StepDownOK ==
  ASSUME NEW n \in Node, NEW s \in State, Clean(s), NEW term \in Nat, term > s.current_term
  PROVE  LET b == become_follower(s, term)
         IN  /\ b \in State /\ Clean(b)
             /\ \A r, old, new : HandlerOK(n, b, old, r) => HandlerOK(n, s, new, r)
  <1> DEFINE b == [s EXCEPT !.current_term = term,
                            !.voted_for = Nil,
                            !.pending_persist_term = TRUE,
                            !.pending_persist_voted_for = TRUE,
                            !.role = "Follower",
                            !.leader = Nil,
                            !.votes_received = {},
                            !.pending_persist_log_from = 0]
  <1>1. become_follower(s, term) = b
    BY DEF become_follower
  <1>2. b \in State
    BY DEF State
  <1>3. /\ Clean(b) /\ b.log = s.log /\ b.role = "Follower" /\ b.current_term = term
        /\ b.pending_persist_term /\ b.pending_persist_voted_for
    BY <1>2 DEF Clean, State
  <1>4. s.current_term \in Nat
    BY DEF State
  <1> HIDE DEF b
  <1>5. ASSUME NEW r, NEW old, NEW new, HandlerOK(n, b, old, r)
        PROVE  HandlerOK(n, s, new, r)
    <2>1. r.st \in State /\ BallotStep(n, b, old, r.st) /\ r.st.current_term \in Nat
      BY <1>5 DEF HandlerOK, State
    <2>2. BallotStep(n, s, new, r.st)
      BY <1>3, <1>4, <2>1 DEF BallotStep
    <2> QED
      BY <1>3, <1>5, <2>2 DEF HandlerOK
  <1> QED
    BY <1>1, <1>2, <1>3, <1>5

\* Every message is handled within these limits.
LEMMA HandleMessageOK ==
  ASSUME NEW n \in Node, NEW s \in State, Clean(s), NEW from \in Node, NEW m \in Message
  PROVE  HandlerOK(n, s, NewVotes(s, from, m), handle_message(n, s, from, m))
  <1> DEFINE new == NewVotes(s, from, m)
  <1>1. CASE m.type = "Forward"
    <2>1. m.value \in Value /\ m.hops \in Nat
      BY <1>1 DEF Message
    <2>2. HandlerOK(n, s, {}, handle_forward(n, s, from, m))
      BY <2>1, HandleForwardOK
    <2>3. handle_message(n, s, from, m) = handle_forward(n, s, from, m)
      BY <1>1 DEF handle_message
    <2>4. new = {}
      BY <1>1 DEF NewVotes, IsGrant
    <2> QED
      BY <2>2, <2>3, <2>4
  <1>2. CASE m.type # "Forward"
    <2>1. m.term \in Nat
      BY <1>2 DEF Message
    <2>2. ASSUME NEW b \in State, Clean(b), b = become_follower(s, m.term),
                 NEW votes, IsGrant(m) /\ m.term = b.current_term => from \in votes,
                 m.type # "RequestVoteResponse" => votes = {}
          PROVE  HandlerOK(n, b, votes, handle_message(n, s, from, m))
      <3>1. CASE m.type = "RequestVote"
        <4>1. handle_message(n, s, from, m) = handle_request_vote(n, b, from, m)
          BY <2>2, <3>1 DEF handle_message
        <4> QED
          BY <2>2, <3>1, <4>1, RequestVoteOK
      <3>2. CASE m.type = "RequestVoteResponse"
        <4>1. handle_message(n, s, from, m) = handle_request_vote_response(n, b, from, m)
          BY <2>2, <3>2 DEF handle_message
        <4> QED
          BY <2>2, <3>2, <4>1, RequestVoteResponseOK
      <3>3. CASE m.type = "AppendEntries"
        <4>1. handle_message(n, s, from, m) = handle_append_entries(n, b, from, m)
          BY <2>2, <3>3 DEF handle_message
        <4>2. m \in AppendEntriesMessage
          BY <3>3 DEF Message, AppendEntriesMessage
        <4> QED
          BY <2>2, <3>3, <4>1, <4>2, HandleAppendEntriesOK
      <3>4. CASE m.type = "AppendEntriesResponse"
        <4>1. handle_message(n, s, from, m) = handle_append_entries_response(n, b, from, m)
          BY <2>2, <3>4 DEF handle_message
        <4>2. m.match_index \in Nat /\ m.conflict_index \in Nat \cup {Nil}
          BY <3>4 DEF Message
        <4> QED
          BY <2>2, <3>4, <4>1, <4>2, AppendEntriesResponseOK
      <3> QED
        BY <1>2, <3>1, <3>2, <3>3, <3>4 DEF Message
    <2>3. CASE m.term > s.current_term
      <3> DEFINE b == become_follower(s, m.term)
                 votes == IF m.type = "RequestVoteResponse" THEN {from} ELSE {}
      <3>1. /\ b \in State /\ Clean(b)
            /\ \A r, old, nw : HandlerOK(n, b, old, r) => HandlerOK(n, s, nw, r)
        BY <2>1, <2>3, StepDownOK
      <3>2. /\ IsGrant(m) /\ m.term = b.current_term => from \in votes
            /\ m.type # "RequestVoteResponse" => votes = {}
        BY DEF IsGrant
      <3> HIDE DEF b, votes
      <3>3. HandlerOK(n, b, votes, handle_message(n, s, from, m))
        BY <2>2, <3>1, <3>2 DEF b
      <3> QED
        BY <3>1, <3>3
    <2>4. CASE ~(m.term > s.current_term)
      <3>1. s = become_follower(s, m.term)
        BY <2>4 DEF become_follower
      <3>2. /\ IsGrant(m) /\ m.term = s.current_term => from \in new
            /\ m.type # "RequestVoteResponse" => new = {}
        BY DEF NewVotes, IsGrant
      <3> HIDE DEF new
      <3>3. HandlerOK(n, s, new, handle_message(n, s, from, m))
        BY <2>2, <3>1, <3>2
      <3> QED
        BY <3>3 DEF new
    <2> QED
      BY <2>3, <2>4
  <1> QED
    BY <1>1, <1>2

-----------------------------------------------------------------------------
(* Flushing and restarting.                                                *)

\* However many writes of the flush are done, the storage holds a log; when all
\* are, it holds the log of the state.
LEMMA FlushLogOK ==
  ASSUME NEW t \in State, NEW d \in Disk, LogWritten(d.log, t), NEW k \in Nat
  PROVE  /\ append_log(t, d, k) \in Seq(Entry)
         /\ k >= 4 => append_log(t, d, k) = t.log
  <1>1. PICK keep \in 0..Len(d.log) :
            /\ keep <= Len(t.log)
            /\ SubSeq(t.log, 1, keep) = SubSeq(d.log, 1, keep)
            /\ t.pending_truncate_from = IF keep < Len(d.log) THEN keep + 1 ELSE 0
            /\ t.pending_persist_log_from = IF keep < Len(t.log) THEN keep + 1 ELSE 0
    BY DEF LogWritten
  <1>2. d.log \in Seq(Entry) /\ t.log \in Seq(Entry) /\ keep \in Nat
    BY DEF Disk, State
  <1>3. SubSeq(d.log, 1, keep) \in Seq(Entry)
    BY <1>2, SubSeqType
  <1>4. SubSeq(d.log, 1, Len(d.log)) = d.log /\ SubSeq(t.log, 1, Len(t.log)) = t.log
    BY <1>2, SubSeqFull
  <1>5. /\ truncate_log_from(t, d, k) \in Seq(Entry)
        /\ k >= 3 => truncate_log_from(t, d, k) = SubSeq(d.log, 1, keep)
    <2>1. CASE keep < Len(d.log)
      BY <1>1, <1>2, <1>3, <2>1 DEF truncate_log_from
    <2>2. CASE ~(keep < Len(d.log))
      <3>1. keep = Len(d.log) /\ t.pending_truncate_from = 0
        BY <1>1, <1>2, <2>2
      <3> QED
        BY <1>2, <1>4, <3>1 DEF truncate_log_from
    <2> QED
      BY <2>1, <2>2
  <1>6. CASE ~(k >= 4)
    <2>1. append_log(t, d, k) = truncate_log_from(t, d, k)
      BY <1>6 DEF append_log
    <2> QED
      BY <1>5, <1>6, <2>1
  <1>7. CASE k >= 4
    <2>1. truncate_log_from(t, d, k) = SubSeq(t.log, 1, keep)
      BY <1>1, <1>5, <1>7
    <2>2. CASE keep < Len(t.log)
      <3>1. t.pending_persist_log_from = keep + 1 /\ keep + 1 # 0
        BY <1>1, <1>2, <2>2
      <3>2. append_log(t, d, k) =
                SubSeq(t.log, 1, keep) \o SubSeq(t.log, keep + 1, Len(t.log))
        BY <1>7, <2>1, <3>1 DEF append_log
      <3>3. SubSeq(t.log, 1, keep) \o SubSeq(t.log, keep + 1, Len(t.log)) = t.log
        <4>1. CASE keep = 0
          BY <1>2, <1>4, <4>1, SubSeqEmpty, ConcatEmptySeq
        <4>2. CASE keep # 0
          <5>1. 1 \in 1..Len(t.log) + 1 /\ keep \in 1..Len(t.log) /\ Len(t.log) \in keep..Len(t.log)
            BY <1>2, <2>2, <4>2
          <5>2. SubSeq(t.log, 1, keep) \o SubSeq(t.log, keep + 1, Len(t.log))
                    = SubSeq(t.log, 1, Len(t.log))
            BY <1>2, <5>1, ConcatAdjacentSubSeq
          <5> QED
            BY <1>4, <5>2
        <4> QED
          BY <4>1, <4>2
      <3> QED
        BY <1>2, <3>2, <3>3
    <2>3. CASE ~(keep < Len(t.log))
      <3>1. keep = Len(t.log) /\ t.pending_persist_log_from = 0
        BY <1>1, <1>2, <2>3
      <3> QED
        BY <1>2, <1>4, <2>1, <3>1 DEF append_log
    <2> QED
      BY <2>2, <2>3
  <1> QED
    BY <1>6, <1>7

\* A flush that stops after k writes leaves a term and a vote the node may go on
\* with: no vote of an earlier state of the same term is lost.
LEMMA FlushOK ==
  ASSUME NEW n \in Node, NEW s \in State, NEW t \in State, NEW d \in Disk, NEW new,
         LogWritten(d.log, t), BallotStep(n, s, new, t),
         d.term = s.current_term, d.voted_for = s.voted_for, NEW k \in Nat
  PROVE  LET f == flush_persist(t, d, k)
         IN  /\ f \in Disk
             /\ f.term >= s.current_term
             /\ f.term = s.current_term /\ s.voted_for # Nil => f.voted_for = s.voted_for
             /\ k >= FlushWrites =>
                   f.term = t.current_term /\ f.voted_for = t.voted_for /\ f.log = t.log
  <1> DEFINE f == flush_persist(t, d, k)
             log2 == append_log(t, d, k)
             ci2 == saved_commit_index(t, d, k)
             term2 == saved_term(t, d, k)
             vote2 == saved_voted_for(t, d, k)
  <1>1. log2 \in Seq(Entry) /\ (k >= 4 => log2 = t.log)
    BY FlushLogOK
  <1>2. /\ ci2 \in Nat /\ term2 \in Nat /\ vote2 \in Node \cup {Nil}
        /\ d.decisions \in Seq(Value)
        /\ s.current_term \in Nat /\ t.current_term \in Nat
    BY DEF saved_commit_index, saved_term, saved_voted_for, State, Disk
  <1>3. /\ term2 >= s.current_term
        /\ term2 = s.current_term /\ s.voted_for # Nil => vote2 = s.voted_for
        /\ k >= 2 => term2 = t.current_term /\ vote2 = t.voted_for
    BY <1>2, SMTT(30) DEF BallotStep, saved_term, saved_voted_for
  <1>4. f = [term |-> term2, voted_for |-> vote2, log |-> log2,
             commit_index |-> ci2, decisions |-> d.decisions]
    BY DEF flush_persist
  <1> HIDE DEF f, log2, ci2, term2, vote2
  <1>5. f \in Disk
    BY <1>1, <1>2, <1>4 DEF Disk
  <1>6. f.term = term2 /\ f.voted_for = vote2 /\ f.log = log2
    BY <1>4
  <1>7. k >= FlushWrites => k >= 4 /\ k >= 2
    BY DEF FlushWrites
  <1> QED
    BY <1>1, <1>3, <1>5, <1>6, <1>7 DEF f

\* A restarted node has the stored term, vote and log, and no votes.
LEMMA RestoreOK ==
  ASSUME NEW n \in Node, NEW d \in Disk
  PROVE  LET u == restore_state(n, d)
         IN  /\ u \in State /\ Clean(u)
             /\ u.current_term = d.term /\ u.voted_for = d.voted_for /\ u.log = d.log
             /\ u.votes_received = {}
             /\ u.role = "Follower" \/ Cardinality(Node) = 1
  <1> DEFINE max_decided == Len(d.decisions)
             resume_leader == Cardinality(Node) = 1 /\ d.term > 0 /\ d.voted_for = n
             known == IF d.commit_index > max_decided THEN d.commit_index ELSE max_decided
             commit == Smaller(known, Len(d.log))
             role2 == IF resume_leader THEN "Leader" ELSE "Follower"
             leader2 == IF resume_leader THEN n ELSE Nil
             next2 == [p \in Node |-> Nil]
             match2 == [p \in Node |-> IF resume_leader THEN Len(d.log) ELSE 0]
             u0 == [current_term |-> d.term,
                    voted_for |-> d.voted_for,
                    log |-> d.log,
                    commit_index |-> commit,
                    last_applied |-> max_decided,
                    role |-> role2,
                    leader |-> leader2,
                    next_index |-> next2,
                    match_index |-> match2,
                    votes_received |-> {},
                    pending_decisions |-> <<>>,
                    pending_proposals |-> <<>>,
                    lost_proposals |-> <<>>,
                    pending_persist_term |-> FALSE,
                    pending_persist_voted_for |-> FALSE,
                    pending_persist_log_from |-> 0,
                    pending_truncate_from |-> 0,
                    pending_persist_commit_index |-> FALSE]
  <1>1. /\ d.term \in Nat /\ d.voted_for \in Node \cup {Nil} /\ d.log \in Seq(Entry)
        /\ d.commit_index \in Nat /\ max_decided \in Nat /\ Len(d.log) \in Nat
    BY DEF Disk
  <1>2. commit \in Nat /\ commit <= Len(d.log)
    BY <1>1 DEF Smaller
  <1>3. /\ role2 \in {"Follower", "Candidate", "Leader"} /\ leader2 \in Node \cup {Nil}
        /\ role2 = "Follower" \/ Cardinality(Node) = 1
    OBVIOUS
  <1>4. next2 \in [Node -> Nat \cup {Nil}] /\ match2 \in [Node -> Nat]
    BY <1>1
  <1>5. restore_state(n, d) = apply_committed_entries(u0)
    BY DEF restore_state
  <1> HIDE DEF commit, max_decided, role2, leader2, next2, match2, resume_leader
  <1>6. u0 \in State
    <2>1. <<>> \in Seq(Value)
      OBVIOUS
    <2> QED
      BY <1>1, <1>2, <1>3, <1>4, <2>1 DEF State
  <1>7. /\ u0.commit_index <= Len(u0.log) /\ Clean(u0)
        /\ u0.current_term = d.term /\ u0.voted_for = d.voted_for /\ u0.log = d.log
        /\ u0.votes_received = {} /\ u0.role = role2
    BY <1>2 DEF Clean
  <1> HIDE DEF u0
  <1>8. /\ apply_committed_entries(u0) \in State
        /\ SameBallot(u0, apply_committed_entries(u0))
        /\ SameLog(u0, apply_committed_entries(u0))
    BY <1>6, <1>7, ApplyOK
  <1> QED
    BY <1>3, <1>5, <1>7, <1>8 DEF SameBallot, SameLog, Clean

=============================================================================
