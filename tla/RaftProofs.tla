----------------------------- MODULE RaftProofs -----------------------------
(* Theorems about module RaftCluster, for every cluster and every bound.   *)
EXTENDS RaftCluster, RaftHandlerProofs

-----------------------------------------------------------------------------
(* The inductive invariant.  A vote of v for c in term t is visible as a   *)
(* granted response on its way to c, or among the votes of candidate or    *)
(* leader c.  A visible vote binds v for as long as it stays in t, and     *)
(* there is one per term; two quorums of them share a voter.               *)

Granted(v, c, t) ==
    \E k \in 1..Len(net[v][c]) : IsGrant(net[v][c][k]) /\ net[v][c][k].term = t

VoteFor(v, c, t) ==
    \/ Granted(v, c, t)
    \/ /\ v \in mem[c].votes_received
       /\ mem[c].role # "Follower"
       /\ mem[c].current_term = t

\* A vote that is visible binds the voter in that term.
VotesBinding ==
    \A v, c \in Node : \A t \in Nat :
        VoteFor(v, c, t) =>
            \/ t < mem[v].current_term
            \/ t = mem[v].current_term /\ mem[v].voted_for = c

\* Nobody is seen to vote twice in a term.
VotesUnique ==
    \A v, c1, c2 \in Node : \A t \in Nat :
        VoteFor(v, c1, t) /\ VoteFor(v, c2, t) => c1 = c2

\* A leader has a quorum of votes, unless it is alone.
LeadersElected ==
    \A c \in Node :
        mem[c].role = "Leader" =>
            Cardinality(Node) = 1 \/ Cardinality(mem[c].votes_received) >= quorum

AllClean == \A n \in Node : Clean(mem[n])

IInv ==
    /\ TypeOK
    /\ AllClean
    /\ StorageMirrorsMemory
    /\ VotesBinding
    /\ VotesUnique
    /\ LeadersElected

-----------------------------------------------------------------------------
(* What an event of node n leaves behind: its new state u and storage d.   *)

\* Every message of links is one of the network.
LinksWithin(links) ==
    /\ links \in [Node -> [Node -> Seq(Message)]]
    /\ \A i, j \in Node : \A k \in 1..Len(links[i][j]) :
          \E h \in 1..Len(net[i][j]) : links[i][j][k] = net[i][j][h]

\* State u may follow state s when the votes of the nodes in new have arrived.
BallotOutcome(n, s, new, u) ==
    /\ u.current_term >= s.current_term
    /\ u.current_term = s.current_term /\ s.voted_for # Nil => u.voted_for = s.voted_for
    /\ u.role # "Follower" =>
          \/ /\ u.current_term = s.current_term
             /\ s.role # "Follower"
             /\ u.votes_received \subseteq s.votes_received \cup new
          \/ u.votes_received = {n} /\ u.voted_for = n
          \/ u.votes_received = {}
    /\ u.role = "Leader" =>
          \/ Cardinality(Node) = 1
          \/ Cardinality(u.votes_received) >= quorum
          \/ s.role = "Leader" /\ u.votes_received = s.votes_received

\* The votes on the network were there before or are sent by n in state u.
SentWithin(n, u) ==
    /\ net' \in [Node -> [Node -> Seq(Message)]]
    /\ \A i, j \in Node : \A k \in 1..Len(net'[i][j]) :
          IsGrant(net'[i][j][k]) =>
             \/ \E h \in 1..Len(net[i][j]) : net'[i][j][k] = net[i][j][h]
             \/ i = n /\ net'[i][j][k].term = u.current_term /\ u.voted_for = j

Outcome(n, new, u, d) ==
    /\ mem' = [mem EXCEPT ![n] = u]
    /\ disk' = [disk EXCEPT ![n] = d]
    /\ u \in State /\ d \in Disk /\ Clean(u)
    /\ d.term = u.current_term /\ d.voted_for = u.voted_for /\ d.log = u.log
    /\ BallotOutcome(n, mem[n], new, u)
    /\ SentWithin(n, u)

\* What is sent joins the links; nothing else does.
LEMMA SendOK ==
  ASSUME NEW n \in Node, NEW links, LinksWithin(links), NEW t \in State,
         NEW out \in [Node -> Seq(Message)], GrantsOK(t, out),
         send_outgoing(n, links, out)
  PROVE  SentWithin(n, t)
  <1>1. PICK reached \in SUBSET {p \in Node : out[p] # <<>>} :
            net' = [links EXCEPT ![n] = [p \in Node |-> IF p \in reached
                                                        THEN links[n][p] \o out[p]
                                                        ELSE links[n][p]]]
    BY DEF send_outgoing
  <1>2. links \in [Node -> [Node -> Seq(Message)]]
    BY DEF LinksWithin
  <1>3. \A i, j \in Node :
            net'[i][j] = IF i = n /\ j \in reached THEN links[n][j] \o out[j] ELSE links[i][j]
    BY <1>1, <1>2
  <1>4. \A j \in Node :
            /\ links[n][j] \in Seq(Message) /\ out[j] \in Seq(Message)
            /\ links[n][j] \o out[j] \in Seq(Message)
    <2> TAKE j \in Node
    <2>1. links[n][j] \in Seq(Message) /\ out[j] \in Seq(Message)
      BY <1>2
    <2> QED
      BY <2>1, ConcatProperties
  <1>5. net' \in [Node -> [Node -> Seq(Message)]]
    <2> DEFINE row == [p \in Node |-> IF p \in reached THEN links[n][p] \o out[p] ELSE links[n][p]]
    <2>1. row \in [Node -> Seq(Message)]
      BY <1>4
    <2>2. net' = [links EXCEPT ![n] = row]
      BY <1>1
    <2> HIDE DEF row
    <2> QED
      BY <1>2, <2>1, <2>2
  <1>6. ASSUME NEW i \in Node, NEW j \in Node, NEW k \in 1..Len(net'[i][j]),
               IsGrant(net'[i][j][k])
        PROVE  \/ \E h \in 1..Len(net[i][j]) : net'[i][j][k] = net[i][j][h]
               \/ i = n /\ net'[i][j][k].term = t.current_term /\ t.voted_for = j
    <2>1. CASE ~(i = n /\ j \in reached)
      <3>1. net'[i][j] = links[i][j]
        BY <1>3, <2>1
      <3>2. \A h \in 1..Len(links[i][j]) :
                \E g \in 1..Len(net[i][j]) : links[i][j][h] = net[i][j][g]
        BY DEF LinksWithin
      <3> QED
        BY <3>1, <3>2
    <2>2. CASE i = n /\ j \in reached
      <3> DEFINE a == links[n][j]
                 b == out[j]
      <3>1. a \in Seq(Message) /\ b \in Seq(Message) /\ net'[i][j] = a \o b
        BY <1>3, <1>4, <2>2
      <3>2. \A h \in 1..Len(a) : \E g \in 1..Len(net[i][j]) : a[h] = net[i][j][g]
        BY <2>2, ZenonT(60) DEF LinksWithin
      <3>3. \A h \in 1..Len(b) : IsGrant(b[h]) => b[h].term = t.current_term /\ t.voted_for = j
        BY DEF GrantsOK
      <3> HIDE DEF a, b
      <3>4. /\ Len(a) \in Nat /\ Len(b) \in Nat /\ Len(a \o b) = Len(a) + Len(b)
            /\ (a \o b)[k] = IF k <= Len(a) THEN a[k] ELSE b[k - Len(a)]
        BY <3>1, ConcatProperties, SMTT(30)
      <3>5. CASE k <= Len(a)
        <4>1. k \in 1..Len(a) /\ net'[i][j][k] = a[k]
          BY <3>1, <3>4, <3>5
        <4> QED
          BY <3>2, <4>1
      <3>6. CASE ~(k <= Len(a))
        <4>1. k - Len(a) \in 1..Len(b) /\ net'[i][j][k] = b[k - Len(a)]
          BY <3>1, <3>4, <3>6
        <4> QED
          BY <1>6, <2>2, <3>3, <4>1
      <3> QED
        BY <3>5, <3>6
    <2> QED
      BY <2>1, <2>2
  <1> QED
    BY <1>5, <1>6 DEF SentWithin

\* A handler within its limits leaves a state that may follow, whether the event
\* completes or stops at one of its writes.
LEMMA EventOutcome ==
  ASSUME TypeOK, StorageMirrorsMemory, NEW n \in Node, NEW new, NEW r, NEW links, NEW todo,
         HandlerOK(n, mem[n], new, r), LinksWithin(links), Event(n, r, links, todo)
  PROVE  \E u, d : Outcome(n, new, u, d)
  <1> DEFINE s == mem[n]
             t == r.st
  <1>1. s \in State /\ disk[n] \in Disk
    BY DEF TypeOK
  <1>2. disk[n].term = s.current_term /\ disk[n].voted_for = s.voted_for /\ disk[n].log = s.log
    BY DEF StorageMirrorsMemory
  <1>3. /\ t \in State /\ r.out \in [Node -> Seq(Message)] /\ LogWritten(s.log, t)
        /\ BallotStep(n, s, new, t) /\ GrantsOK(t, r.out)
    BY DEF HandlerOK
  <1>4. t.current_term \in Nat /\ s.current_term \in Nat /\ t.pending_decisions \in Seq(Value)
    BY <1>1, <1>3 DEF State
  <1>5. \A k \in Nat :
          LET f == flush_persist(t, disk[n], k)
          IN  /\ f \in Disk
              /\ f.term >= s.current_term
              /\ f.term = s.current_term /\ s.voted_for # Nil => f.voted_for = s.voted_for
              /\ k >= FlushWrites =>
                    f.term = t.current_term /\ f.voted_for = t.voted_for /\ f.log = t.log
    BY <1>1, <1>2, <1>3, FlushOK, ZenonT(60)
  <1>6. FlushWrites \in Nat /\ FlushWrites >= FlushWrites
    BY DEF FlushWrites
  <1> DEFINE full == flush_persist(t, disk[n], FlushWrites)
  <1>7. /\ full \in Disk /\ full.term = t.current_term
        /\ full.voted_for = t.voted_for /\ full.log = t.log
    BY <1>5, <1>6
  <1> HIDE DEF full
  <1>8. ASSUME NEW ds \in Seq(Value)
        PROVE  LET d == save_decisions(full, ds)
               IN  /\ d \in Disk /\ d.term = t.current_term
                   /\ d.voted_for = t.voted_for /\ d.log = t.log
    <2>1. full.decisions \in Seq(Value)
      BY <1>7 DEF Disk
    <2> DEFINE dd == full.decisions \o ds
    <2>2. dd \in Seq(Value)
      BY <2>1, ConcatProperties
    <2>3. save_decisions(full, ds) = [full EXCEPT !.decisions = dd]
      BY DEF save_decisions
    <2> HIDE DEF dd
    <2> QED
      BY <1>7, <2>2, <2>3 DEF Disk
  <1>9. ASSUME NEW d \in Disk, d.term >= s.current_term,
               d.term = s.current_term /\ s.voted_for # Nil => d.voted_for = s.voted_for
        PROVE  LET u == restore_state(n, d)
               IN  /\ u \in State /\ Clean(u) /\ d.term = u.current_term
                   /\ d.voted_for = u.voted_for /\ d.log = u.log
                   /\ BallotOutcome(n, s, new, u)
    <2> DEFINE u == restore_state(n, d)
    <2>1. /\ u \in State /\ Clean(u)
          /\ u.current_term = d.term /\ u.voted_for = d.voted_for /\ u.log = d.log
          /\ u.votes_received = {}
          /\ u.role = "Follower" \/ Cardinality(Node) = 1
      BY RestoreOK
    <2> HIDE DEF u
    <2>2. BallotOutcome(n, s, new, u)
      BY <1>9, <2>1 DEF BallotOutcome
    <2> QED
      BY <2>1, <2>2 DEF u
  <1>10. CASE Finish(n, r, links)
    <2> DEFINE u == [drain_persist_intent(t) EXCEPT !.pending_decisions = <<>>]
               d == save_decisions(full, t.pending_decisions)
    <2>1. mem' = [mem EXCEPT ![n] = u] /\ disk' = [disk EXCEPT ![n] = d]
      BY <1>10 DEF Finish, full
    <2>2. d \in Disk /\ d.term = t.current_term /\ d.voted_for = t.voted_for /\ d.log = t.log
      BY <1>4, <1>8
    <2>3. u \in State
      <3>1. <<>> \in Seq(Value)
        OBVIOUS
      <3> QED
        BY <1>3, <3>1 DEF drain_persist_intent, State
    <2>4. /\ Clean(u) /\ u.current_term = t.current_term /\ u.voted_for = t.voted_for
          /\ u.log = t.log /\ u.role = t.role /\ u.votes_received = t.votes_received
      BY <1>3 DEF drain_persist_intent, State, Clean
    <2> HIDE DEF u, d
    <2>5. BallotOutcome(n, s, new, u)
      BY <1>3, <2>4 DEF BallotStep, BallotOutcome
    <2>6. send_outgoing(n, links, r.out)
      BY <1>10 DEF Finish
    <2>7. SentWithin(n, t) /\ SentWithin(n, u)
      <3>1. SentWithin(n, t)
        <4> HIDE DEF t
        <4> QED
          BY <1>3, <2>6, SendOK
      <3> QED
        BY <2>4, <3>1 DEF SentWithin
    <2>8. Outcome(n, new, u, d)
      BY <2>1, <2>2, <2>3, <2>4, <2>5, <2>7 DEF Outcome
    <2> QED
      BY <2>8
  <1>11. CASE CrashInFlush(n, r, links)
    <2>1. PICK k \in 0..(FlushWrites - 1) :
              RestartFrom(n, flush_persist(t, disk[n], k)) /\ net' = links
      BY <1>11 DEF CrashInFlush
    <2> DEFINE d == flush_persist(t, disk[n], k)
               u == restore_state(n, d)
    <2>2. k \in Nat
      BY DEF FlushWrites
    <2>3. /\ d \in Disk /\ d.term >= s.current_term
          /\ d.term = s.current_term /\ s.voted_for # Nil => d.voted_for = s.voted_for
      BY <1>5, <2>2
    <2>4. mem' = [mem EXCEPT ![n] = u] /\ disk' = [disk EXCEPT ![n] = d]
      BY <2>1 DEF RestartFrom
    <2> HIDE DEF d
    <2>5. /\ u \in State /\ Clean(u) /\ d.term = u.current_term
          /\ d.voted_for = u.voted_for /\ d.log = u.log /\ BallotOutcome(n, s, new, u)
      BY <1>9, <2>3
    <2> HIDE DEF u
    <2>6. Outcome(n, new, u, d)
      BY <2>1, <2>3, <2>4, <2>5 DEF Outcome, LinksWithin, SentWithin
    <2> QED
      BY <2>6
  <1>12. CASE CrashInDrain(n, r, links)
    <2>1. PICK k \in 0..(Len(t.pending_decisions) - 1) :
              /\ RestartFrom(n, save_decisions(full, SubSeq(t.pending_decisions, 1, k)))
              /\ send_outgoing(n, links, r.out)
      BY <1>12 DEF CrashInDrain, full
    <2> DEFINE d == save_decisions(full, SubSeq(t.pending_decisions, 1, k))
               u == restore_state(n, d)
    <2>2. SubSeq(t.pending_decisions, 1, k) \in Seq(Value)
      BY <1>4, SubSeqType
    <2>3. d \in Disk /\ d.term = t.current_term /\ d.voted_for = t.voted_for /\ d.log = t.log
      BY <1>8, <2>2
    <2>4. mem' = [mem EXCEPT ![n] = u] /\ disk' = [disk EXCEPT ![n] = d]
      BY <2>1 DEF RestartFrom
    <2> HIDE DEF d
    <2>5. /\ u \in State /\ Clean(u) /\ d.term = u.current_term
          /\ d.voted_for = u.voted_for /\ d.log = u.log /\ BallotOutcome(n, s, new, u)
      <3>1. /\ d.term >= s.current_term
            /\ d.term = s.current_term /\ s.voted_for # Nil => d.voted_for = s.voted_for
        BY <1>3, <2>3 DEF BallotStep
      <3> QED
        BY <1>9, <2>3, <3>1
    <2> HIDE DEF u
    <2>6. SentWithin(n, t) /\ SentWithin(n, u)
      <3>1. SentWithin(n, t)
        <4>1. send_outgoing(n, links, r.out)
          BY <2>1
        <4> HIDE DEF t
        <4> QED
          BY <1>3, <4>1, SendOK
      <3> QED
        BY <2>3, <2>5, <3>1 DEF SentWithin
    <2>7. Outcome(n, new, u, d)
      BY <2>3, <2>4, <2>5, <2>6 DEF Outcome
    <2> QED
      BY <2>7
  <1> QED
    BY <1>10, <1>11, <1>12 DEF Event

\* No node goes back to an earlier term or changes a vote within a term.
StepKept ==
    \A n \in Node :
        /\ mem'[n].current_term >= mem[n].current_term
        /\ mem'[n].current_term = mem[n].current_term /\ mem[n].voted_for # Nil
              => mem'[n].voted_for = mem[n].voted_for

\* The part of the invariant that is about nodes, storage and network.
NodesInv ==
    /\ mem \in [Node -> State]
    /\ disk \in [Node -> Disk]
    /\ net \in [Node -> [Node -> Seq(Message)]]
    /\ AllClean
    /\ StorageMirrorsMemory
    /\ VotesBinding
    /\ VotesUnique
    /\ LeadersElected

\* The heart of the argument: the outcome of an event preserves the invariant,
\* because a vote that becomes visible is the vote its voter has then.
LEMMA OutcomeKeeps ==
  ASSUME NodesInv, NEW n \in Node, NEW new, NEW u, NEW d, Outcome(n, new, u, d),
         \A v \in new : Granted(v, n, mem[n].current_term)
  PROVE  NodesInv' /\ StepKept
  <1> DEFINE s == mem[n]
  <1>1. /\ mem' = [mem EXCEPT ![n] = u] /\ disk' = [disk EXCEPT ![n] = d]
        /\ u \in State /\ d \in Disk /\ Clean(u)
        /\ d.term = u.current_term /\ d.voted_for = u.voted_for /\ d.log = u.log
        /\ BallotOutcome(n, s, new, u)
        /\ SentWithin(n, u)
    BY DEF Outcome
  <1>2. /\ mem \in [Node -> State] /\ disk \in [Node -> Disk]
        /\ net \in [Node -> [Node -> Seq(Message)]]
        /\ \A c \in Node : mem[c].current_term \in Nat
        /\ u.current_term \in Nat /\ u.voted_for \in Node \cup {Nil}
    BY <1>1 DEF NodesInv, State
  <1>3. \A c \in Node : mem'[c] = IF c = n THEN u ELSE mem[c]
    BY <1>1, <1>2
  <1>4. \A c \in Node : disk'[c] = IF c = n THEN d ELSE disk[c]
    BY <1>1, <1>2
  <1>5. /\ mem' \in [Node -> State] /\ disk' \in [Node -> Disk]
        /\ net' \in [Node -> [Node -> Seq(Message)]]
    BY <1>1, <1>2 DEF SentWithin
  <1>6. AllClean'
    BY <1>1, <1>3 DEF NodesInv, AllClean
  <1>7. StorageMirrorsMemory'
    BY <1>1, <1>3, <1>4 DEF NodesInv, StorageMirrorsMemory
  <1>8. StepKept
    <2> SUFFICES ASSUME NEW c \in Node
                 PROVE  /\ mem'[c].current_term >= mem[c].current_term
                        /\ mem'[c].current_term = mem[c].current_term /\ mem[c].voted_for # Nil
                              => mem'[c].voted_for = mem[c].voted_for
      BY DEF StepKept
    <2> QED
      BY <1>1, <1>2, <1>3 DEF BallotOutcome
  <1>9. ASSUME NEW v \in Node, NEW c \in Node, NEW t \in Nat, VoteFor(v, c, t)'
        PROVE  VoteFor(v, c, t) \/ (v = n /\ t = u.current_term /\ u.voted_for = c)
    <2>1. CASE Granted(v, c, t)'
      <3>1. PICK k \in 1..Len(net'[v][c]) : IsGrant(net'[v][c][k]) /\ net'[v][c][k].term = t
        BY <2>1 DEF Granted
      <3>2. \/ \E h \in 1..Len(net[v][c]) : net'[v][c][k] = net[v][c][h]
            \/ v = n /\ net'[v][c][k].term = u.current_term /\ u.voted_for = c
        BY <1>1, <3>1 DEF SentWithin
      <3> QED
        BY <3>1, <3>2 DEF VoteFor, Granted
    <2>2. CASE /\ v \in mem'[c].votes_received
               /\ mem'[c].role # "Follower"
               /\ mem'[c].current_term = t
      <3>1. CASE c # n
        BY <1>3, <2>2, <3>1 DEF VoteFor
      <3>2. CASE c = n
        <4>1. v \in u.votes_received /\ u.role # "Follower" /\ u.current_term = t
          BY <1>3, <2>2, <3>2
        <4>2. CASE /\ u.current_term = s.current_term /\ s.role # "Follower"
                   /\ u.votes_received \subseteq s.votes_received \cup new
          <5>1. CASE v \in s.votes_received
            BY <3>2, <4>1, <4>2, <5>1 DEF VoteFor
          <5>2. CASE v \in new
            <6>1. Granted(v, n, mem[n].current_term)
              BY <5>2
            <6>2. Granted(v, c, t)
              BY <3>2, <4>1, <4>2, <6>1
            <6> QED
              BY <6>2 DEF VoteFor
          <5> QED
            BY <4>1, <4>2, <5>1, <5>2
        <4>3. CASE u.votes_received = {n} /\ u.voted_for = n
          BY <3>2, <4>1, <4>3
        <4> QED
          BY <1>1, <4>1, <4>2, <4>3 DEF BallotOutcome
      <3> QED
        BY <3>1, <3>2
    <2> QED
      BY <1>9, <2>1, <2>2 DEF VoteFor
  <1>10. VotesBinding'
    <2> SUFFICES ASSUME NEW v \in Node, NEW c \in Node, NEW t \in Nat, VoteFor(v, c, t)'
                 PROVE  \/ t < mem'[v].current_term
                        \/ t = mem'[v].current_term /\ mem'[v].voted_for = c
      BY DEF VotesBinding
    <2>1. CASE VoteFor(v, c, t)
      <3>1. t < mem[v].current_term \/ (t = mem[v].current_term /\ mem[v].voted_for = c)
        BY <2>1 DEF NodesInv, VotesBinding
      <3>2. /\ mem'[v].current_term >= mem[v].current_term
            /\ mem'[v].current_term = mem[v].current_term /\ mem[v].voted_for # Nil
                  => mem'[v].voted_for = mem[v].voted_for
        BY <1>8 DEF StepKept
      <3>3. c # Nil /\ mem'[v].current_term \in Nat /\ mem[v].current_term \in Nat
        BY <1>2, <1>3, NilAssumption
      <3> QED
        BY <3>1, <3>2, <3>3
    <2>2. CASE v = n /\ t = u.current_term /\ u.voted_for = c
      BY <1>3, <2>2
    <2> QED
      BY <1>9, <2>1, <2>2
  <1>11. VotesUnique'
    <2> SUFFICES ASSUME NEW v \in Node, NEW c1 \in Node, NEW c2 \in Node, NEW t \in Nat,
                        VoteFor(v, c1, t)', VoteFor(v, c2, t)'
                 PROVE  c1 = c2
      BY DEF VotesUnique
    <2>1. CASE VoteFor(v, c1, t) /\ VoteFor(v, c2, t)
      BY <2>1 DEF NodesInv, VotesUnique
    <2>2. CASE v = n /\ t = u.current_term
      <3>1. mem'[v].current_term = t
        BY <1>3, <2>2
      <3>2. mem'[v].voted_for = c1 /\ mem'[v].voted_for = c2
        BY <1>10, <3>1 DEF VotesBinding
      <3> QED
        BY <3>2
    <2> QED
      BY <1>9, <2>1, <2>2
  <1>12. LeadersElected'
    <2> SUFFICES ASSUME NEW c \in Node, mem'[c].role = "Leader"
                 PROVE  \/ Cardinality(Node) = 1
                        \/ Cardinality(mem'[c].votes_received) >= quorum
      BY DEF LeadersElected
    <2>1. CASE c # n
      BY <1>3, <2>1 DEF NodesInv, LeadersElected
    <2>2. CASE c = n
      <3>1. u.role = "Leader" /\ mem'[c] = u
        BY <1>3, <2>2
      <3>2. \/ Cardinality(Node) = 1
            \/ Cardinality(u.votes_received) >= quorum
            \/ s.role = "Leader" /\ u.votes_received = s.votes_received
        BY <1>1, <3>1 DEF BallotOutcome
      <3> QED
        BY <2>2, <3>1, <3>2 DEF NodesInv, LeadersElected
    <2> QED
      BY <2>1, <2>2
  <1> QED
    BY <1>5, <1>6, <1>7, <1>8, <1>10, <1>11, <1>12 DEF NodesInv

\* The rest of the state after an event.
LEMMA EventFrame ==
  ASSUME TypeOK, NEW n \in Node, NEW r, NEW links, NEW todo \in Seq(Value),
         Event(n, r, links, todo)
  PROVE  reproposing' \in [Node -> Seq(Value)] /\ crashes' \in Nat
  <1>1. reproposing \in [Node -> Seq(Value)] /\ crashes \in Nat /\ <<>> \in Seq(Value)
    BY DEF TypeOK
  <1>2. /\ \/ reproposing' = [reproposing EXCEPT ![n] = todo]
           \/ reproposing' = [reproposing EXCEPT ![n] = <<>>]
        /\ crashes' = crashes \/ crashes' = crashes + 1
    BY DEF Event, Finish, CrashInFlush, CrashInDrain, RestartFrom
  <1>3. crashes' \in Nat
    BY <1>1, <1>2
  <1>4. CASE reproposing' = [reproposing EXCEPT ![n] = todo]
    BY <1>1, <1>3, <1>4
  <1>5. CASE reproposing' = [reproposing EXCEPT ![n] = <<>>]
    BY <1>1, <1>3, <1>5
  <1> QED
    BY <1>2, <1>4, <1>5

\* An event whose handler is within its limits preserves the invariant.
LEMMA EventKeeps ==
  ASSUME IInv, NEW n \in Node, NEW new, NEW r, NEW links, NEW todo \in Seq(Value),
         HandlerOK(n, mem[n], new, r), LinksWithin(links), Event(n, r, links, todo),
         \A v \in new : Granted(v, n, mem[n].current_term),
         proposed' \subseteq Value
  PROVE  IInv' /\ StepKept
  <1>1. TypeOK /\ StorageMirrorsMemory /\ NodesInv
    BY DEF IInv, NodesInv, TypeOK
  <1>2. PICK u, d : Outcome(n, new, u, d)
    BY <1>1, EventOutcome
  <1>3. NodesInv' /\ StepKept
    BY <1>1, <1>2, OutcomeKeeps
  <1>4. reproposing' \in [Node -> Seq(Value)] /\ crashes' \in Nat
    BY <1>1, EventFrame
  <1> QED
    BY <1>3, <1>4 DEF IInv, NodesInv, TypeOK

\* The same for an event that brings no votes and takes no message.
LEMMA QuietEventKeeps ==
  ASSUME IInv, NEW n \in Node, NEW r, NEW todo \in Seq(Value),
         HandlerOK(n, mem[n], {}, r), Event(n, r, net, todo), proposed' \subseteq Value
  PROVE  IInv' /\ StepKept
  <1> DEFINE new == {}
  <1>1. (\A v \in new : Granted(v, n, mem[n].current_term)) /\ HandlerOK(n, mem[n], new, r)
    OBVIOUS
  <1>2. LinksWithin(net)
    BY DEF IInv, TypeOK, LinksWithin
  <1> HIDE DEF new
  <1> QED
    BY <1>1, <1>2, EventKeeps

\* Taking the k-th message off a queue leaves messages of that queue.
LEMMA WithoutOK ==
  ASSUME NEW q \in Seq(Message), NEW k \in 1..Len(q)
  PROVE  /\ Without(q, k) \in Seq(Message)
         /\ \A h \in 1..Len(Without(q, k)) : \E g \in 1..Len(q) : Without(q, k)[h] = q[g]
  <1> DEFINE x == SubSeq(q, 1, k - 1)
             y == SubSeq(q, k + 1, Len(q))
             rest == x \o y
  <1>1. q \in Seq(Message) /\ Len(q) \in Nat /\ k \in 1..Len(q)
    OBVIOUS
  <1>2. /\ x \in Seq(Message) /\ Len(x) = k - 1
        /\ \A h \in 1..Len(x) : x[h] = q[h]
    <2>1. k - 1 \in Nat /\ k - 1 <= Len(q)
      BY <1>1
    <2>2. /\ x \in Seq(Message) /\ Len(x) = IF 1 <= k - 1 THEN (k - 1) - 1 + 1 ELSE 0
          /\ \A h \in 1..Len(x) : x[h] = q[1 + h - 1]
      BY <1>1, <2>1, SubSeqType
    <2> QED
      BY <1>1, <2>1, <2>2
  <1>3. /\ y \in Seq(Message) /\ Len(y) = Len(q) - k
        /\ \A h \in 1..Len(y) : y[h] = q[k + h]
    <2>1. k + 1 \in Nat /\ k + 1 >= 1
      BY <1>1
    <2>2. /\ y \in Seq(Message)
          /\ Len(y) = IF k + 1 <= Len(q) THEN Len(q) - (k + 1) + 1 ELSE 0
          /\ \A h \in 1..Len(y) : y[h] = q[(k + 1) + h - 1]
      BY <1>1, <2>1, SubSeqType
    <2> QED
      BY <1>1, <2>1, <2>2
  <1> HIDE DEF x, y
  <1>4. /\ rest \in Seq(Message) /\ Len(rest) = Len(x) + Len(y)
        /\ \A h \in 1..Len(x) + Len(y) : rest[h] = IF h <= Len(x) THEN x[h] ELSE y[h - Len(x)]
    BY <1>2, <1>3, ConcatProperties
  <1> HIDE DEF rest
  <1>5. \A h \in 1..Len(rest) : \E g \in 1..Len(q) : rest[h] = q[g]
    <2> TAKE h \in 1..Len(rest)
    <2>1. CASE h <= Len(x)
      <3>1. h \in 1..Len(x) /\ h \in 1..Len(q) /\ rest[h] = q[h]
        BY <1>1, <1>2, <1>3, <1>4, <2>1
      <3> QED
        BY <3>1
    <2>2. CASE ~(h <= Len(x))
      <3>1. /\ h - Len(x) \in 1..Len(y) /\ h + 1 \in 1..Len(q)
            /\ k + (h - Len(x)) = h + 1
        BY <1>1, <1>2, <1>3, <1>4, <2>2
      <3>2. rest[h] = q[h + 1]
        BY <1>1, <1>2, <1>3, <1>4, <2>2, <3>1
      <3> QED
        BY <3>1, <3>2
    <2> QED
      BY <2>1, <2>2
  <1>6. Without(q, k) = rest
    BY DEF Without, rest, x, y
  <1> QED
    BY <1>4, <1>5, <1>6

\* The network without one of its messages.
LEMMA ReceiveOK ==
  ASSUME net \in [Node -> [Node -> Seq(Message)]], NEW i \in Node, NEW n \in Node,
         NEW k \in 1..Len(net[i][n]), NEW links,
         links = [net EXCEPT ![i][n] = Without(net[i][n], k)]
  PROVE  LinksWithin(links)
  <1> DEFINE q == net[i][n]
             rest == Without(q, k)
  <1>4. q \in Seq(Message) /\ k \in 1..Len(q)
    OBVIOUS
  <1>5. rest \in Seq(Message) /\ \A h \in 1..Len(rest) : \E g \in 1..Len(q) : rest[h] = q[g]
    <2> HIDE DEF q
    <2> QED
      BY <1>4, WithoutOK
  <1> HIDE DEF rest
  <1>6. links \in [Node -> [Node -> Seq(Message)]]
    BY <1>5 DEF rest
  <1>7. \A a, b \in Node : links[a][b] = IF a = i /\ b = n THEN rest ELSE net[a][b]
    BY DEF rest
  <1>8. ASSUME NEW a \in Node, NEW b \in Node, NEW h \in 1..Len(links[a][b])
        PROVE  \E g \in 1..Len(net[a][b]) : links[a][b][h] = net[a][b][g]
    <2>1. CASE a = i /\ b = n
      <3>1. links[a][b] = rest /\ net[a][b] = q
        BY <1>7, <2>1
      <3> HIDE DEF q
      <3> QED
        BY <1>5, <3>1
    <2>2. CASE ~(a = i /\ b = n)
      BY <1>7, <2>2
    <2> QED
      BY <2>1, <2>2
  <1> QED
    BY <1>6, <1>8 DEF LinksWithin

\* Forgetting the lost proposals does not matter to a handler's limits.
LEMMA TakeLostOK ==
  ASSUME NEW n \in Node, NEW s, NEW new, NEW r, HandlerOK(n, s, new, r)
  PROVE  HandlerOK(n, s, new, Result([r.st EXCEPT !.lost_proposals = <<>>], r.out))
  <1> DEFINE t == [r.st EXCEPT !.lost_proposals = <<>>]
  <1>1. /\ r.st \in State /\ r.out \in [Node -> Seq(Message)]
        /\ LogWritten(s.log, r.st) /\ BallotStep(n, s, new, r.st) /\ GrantsOK(r.st, r.out)
    BY DEF HandlerOK
  <1>2. t \in State /\ SameBallot(r.st, t) /\ SameLog(r.st, t)
    <2>1. <<>> \in Seq(Value)
      OBVIOUS
    <2> QED
      BY <1>1, <2>1 DEF State, SameBallot, SameLog
  <1> HIDE DEF t
  <1>3. LogWritten(s.log, t)
    BY <1>1, <1>2 DEF LogWritten, SameLog
  <1>4. BallotStep(n, s, new, t)
    BY <1>1, <1>2 DEF BallotStep, SameBallot
  <1>5. GrantsOK(t, r.out)
    BY <1>1, <1>2 DEF GrantsOK, SameBallot
  <1> QED
    BY <1>1, <1>2, <1>3, <1>4, <1>5 DEF HandlerOK, Result, t

\* The initial state.
LEMMA InitIInv == Init => IInv
  <1> SUFFICES ASSUME Init PROVE IInv
    OBVIOUS
  <1>1. EmptyDisk \in Disk /\ EmptyDisk.term = 0 /\ EmptyDisk.voted_for = Nil
    BY DEF EmptyDisk, Disk
  <1>2. \A n \in Node :
          LET u == restore_state(n, EmptyDisk)
          IN  /\ u \in State /\ Clean(u)
              /\ u.current_term = EmptyDisk.term /\ u.voted_for = EmptyDisk.voted_for
              /\ u.log = EmptyDisk.log /\ u.votes_received = {}
              /\ u.role = "Follower" \/ Cardinality(Node) = 1
    BY <1>1, RestoreOK
  <1>3. \A n \in Node : mem[n] = restore_state(n, EmptyDisk) /\ disk[n] = EmptyDisk
    BY DEF Init
  <1>4. \A i, j \in Node : net[i][j] = <<>>
    BY DEF Init
  <1>5. TypeOK
    <2>1. mem \in [Node -> State]
      BY <1>2 DEF Init
    <2>2. disk \in [Node -> Disk]
      BY <1>1 DEF Init
    <2> QED
      BY <2>1, <2>2 DEF Init, TypeOK
  <1>6. AllClean
    BY <1>2, <1>3 DEF AllClean
  <1>7. StorageMirrorsMemory
    BY <1>2, <1>3 DEF StorageMirrorsMemory
  <1>8. \A v, c \in Node : \A t \in Nat : ~VoteFor(v, c, t)
    <2> TAKE v, c \in Node
    <2> TAKE t \in Nat
    <2>1. Len(net[v][c]) = 0
      BY <1>4
    <2>2. mem[c].votes_received = {}
      BY <1>2, <1>3
    <2> QED
      BY <2>1, <2>2 DEF VoteFor, Granted
  <1>9. VotesBinding /\ VotesUnique
    BY <1>8 DEF VotesBinding, VotesUnique
  <1>10. LeadersElected
    BY <1>2, <1>3 DEF LeadersElected
  <1> QED
    BY <1>5, <1>6, <1>7, <1>9, <1>10 DEF IInv

\* Every step preserves the invariant and forgets nothing.
LEMMA NextIInv == IInv /\ [Next]_vars => IInv' /\ (StepKept \/ UNCHANGED vars)
  <1> SUFFICES ASSUME IInv, [Next]_vars
               PROVE  IInv' /\ (StepKept \/ UNCHANGED vars)
    OBVIOUS
  <1>1. /\ mem \in [Node -> State] /\ disk \in [Node -> Disk]
        /\ net \in [Node -> [Node -> Seq(Message)]]
        /\ reproposing \in [Node -> Seq(Value)] /\ proposed \subseteq Value /\ crashes \in Nat
    BY DEF IInv, TypeOK
  <1>2. \A n \in Node : mem[n] \in State /\ Clean(mem[n])
    BY <1>1 DEF IInv, AllClean
  <1>4. <<>> \in Seq(Value)
    OBVIOUS
  <1>5. ASSUME NEW n \in Node, NEW v \in Value, handle_submission(n, v)
        PROVE  IInv' /\ StepKept
    <2>1. HandlerOK(n, mem[n], {}, propose(n, mem[n], v))
      BY <1>2, ProposeOK
    <2>2. Event(n, propose(n, mem[n], v), net, <<>>) /\ proposed' \subseteq Value
      BY <1>1, <1>5 DEF handle_submission
    <2> QED
      BY <1>4, <2>1, <2>2, QuietEventKeeps
  <1>6. ASSUME NEW n \in Node, NEW i \in Node, handle_incoming_bytes(n, i)
        PROVE  IInv' /\ StepKept
    <2>1. PICK k \in 1..Len(net[i][n]) :
            LET r == handle_message(n, mem[n], i, net[i][n][k])
            IN  Event(n, Result([r.st EXCEPT !.lost_proposals = <<>>], r.out),
                      [net EXCEPT ![i][n] = Without(net[i][n], k)],
                      r.st.lost_proposals)
      <3>1. net[i][n] \in Seq(Message)
        BY <1>1
      <3>2. DOMAIN net[i][n] = 1..Len(net[i][n])
        BY <3>1
      <3> QED
        BY <1>6, <3>2 DEF handle_incoming_bytes
    <2> DEFINE m == net[i][n][k]
               r == handle_message(n, mem[n], i, m)
               r2 == Result([r.st EXCEPT !.lost_proposals = <<>>], r.out)
               links == [net EXCEPT ![i][n] = Without(net[i][n], k)]
               new == NewVotes(mem[n], i, m)
    <2>2. m \in Message
      <3>1. net[i][n] \in Seq(Message)
        BY <1>1
      <3> QED
        BY <3>1, ElementOfSeq
    <2>3. Event(n, r2, links, r.st.lost_proposals)
      BY <2>1
    <2>4. LinksWithin(links)
      BY <1>1, ReceiveOK
    <2>5. \A v \in new : Granted(v, n, mem[n].current_term)
      BY DEF NewVotes, Granted
    <2> HIDE DEF m, links
    <2>6. HandlerOK(n, mem[n], new, r)
      BY <1>2, <2>2, HandleMessageOK
    <2> HIDE DEF r, new
    <2>7. HandlerOK(n, mem[n], new, r2)
      BY <2>6, TakeLostOK
    <2>8. r.st.lost_proposals \in Seq(Value)
      BY <2>6 DEF HandlerOK, State
    <2>9. proposed' \subseteq Value
      BY <1>1, <1>6 DEF handle_incoming_bytes
    <2> HIDE DEF r2
    <2> QED
      BY <2>3, <2>4, <2>5, <2>7, <2>8, <2>9, EventKeeps
  <1>7. ASSUME NEW n \in Node, repropose_lost(n)
        PROVE  IInv' /\ StepKept
    <2> DEFINE v == Head(reproposing[n])
               todo == Tail(reproposing[n])
    <2>1. v \in Value /\ todo \in Seq(Value)
      <3>1. reproposing[n] \in Seq(Value) /\ reproposing[n] # <<>>
        BY <1>1, <1>7 DEF repropose_lost, Ready
      <3> QED
        BY <3>1, HeadTailProperties
    <2>2. Event(n, propose(n, mem[n], v), net, todo) /\ proposed' \subseteq Value
      BY <1>1, <1>7 DEF repropose_lost
    <2> HIDE DEF v, todo
    <2>3. HandlerOK(n, mem[n], {}, propose(n, mem[n], v))
      BY <1>2, <2>1, ProposeOK
    <2> QED
      BY <2>1, <2>2, <2>3, QuietEventKeeps
  <1>8. ASSUME NEW n \in Node, heartbeat_tick(n)
        PROVE  IInv' /\ StepKept
    <2> DEFINE r == broadcast_heartbeat(n, mem[n])
    <2>1. Event(n, r, net, <<>>) /\ proposed' \subseteq Value
      BY <1>1, <1>8 DEF heartbeat_tick
    <2>2. /\ r.st = mem[n] /\ r.out \in [Node -> Seq(Message)]
          /\ LogWritten(mem[n].log, r.st) /\ GrantsOK(r.st, r.out)
      BY <1>2, HeartbeatOK
    <2> HIDE DEF r
    <2>3. BallotStep(n, mem[n], {}, r.st)
      BY <1>2, <2>2, SameBallotStep DEF SameBallot
    <2>4. HandlerOK(n, mem[n], {}, r)
      BY <1>2, <2>2, <2>3 DEF HandlerOK
    <2> QED
      BY <1>4, <2>1, <2>4, QuietEventKeeps
  <1>9. ASSUME NEW n \in Node, election_tick(n)
        PROVE  IInv' /\ StepKept
    <2>1. HandlerOK(n, mem[n], {}, start_election(n, mem[n]))
      BY <1>2, StartElectionOK
    <2>2. Event(n, start_election(n, mem[n]), net, <<>>) /\ proposed' \subseteq Value
      BY <1>1, <1>9 DEF election_tick
    <2> QED
      BY <1>4, <2>1, <2>2, QuietEventKeeps
  <1>10. ASSUME NEW n \in Node, idle_tick(n)
         PROVE  IInv' /\ StepKept
    <2>1. SameBallot(mem[n], mem[n]) /\ SameLog(mem[n], mem[n])
      BY DEF SameBallot, SameLog
    <2>2. HandlerOK(n, mem[n], {}, Result(mem[n], Silence))
      BY <1>2, <2>1, QuietOK
    <2>3. Event(n, Result(mem[n], Silence), net, <<>>) /\ proposed' \subseteq Value
      BY <1>1, <1>10 DEF idle_tick
    <2> QED
      BY <1>4, <2>2, <2>3, QuietEventKeeps
  <1>11. ASSUME NEW n \in Node, Crash(n)
         PROVE  IInv' /\ StepKept
    <2> DEFINE d == disk[n]
               u == restore_state(n, d)
    <2>1. /\ mem' = [mem EXCEPT ![n] = u] /\ disk' = [disk EXCEPT ![n] = d] /\ net' = net
          /\ reproposing' = [reproposing EXCEPT ![n] = <<>>] /\ proposed' = proposed
          /\ crashes' = crashes + 1
      BY <1>11 DEF Crash, RestartFrom
    <2>2. /\ d \in Disk /\ d.term = mem[n].current_term /\ d.voted_for = mem[n].voted_for
          /\ mem[n].current_term \in Nat
      BY <1>1, <1>2 DEF IInv, StorageMirrorsMemory, State
    <2>3. /\ u \in State /\ Clean(u)
          /\ u.current_term = d.term /\ u.voted_for = d.voted_for /\ u.log = d.log
          /\ u.votes_received = {}
          /\ u.role = "Follower" \/ Cardinality(Node) = 1
      BY <2>2, RestoreOK
    <2> HIDE DEF d, u
    <2>4. BallotOutcome(n, mem[n], {}, u)
      BY <2>2, <2>3 DEF BallotOutcome
    <2>5. SentWithin(n, u)
      BY <1>1, <2>1 DEF SentWithin
    <2>6. Outcome(n, {}, u, d)
      BY <2>1, <2>2, <2>3, <2>4, <2>5 DEF Outcome
    <2>7. NodesInv
      BY DEF IInv, NodesInv, TypeOK
    <2>8. NodesInv' /\ StepKept
      BY <2>6, <2>7, OutcomeKeeps
    <2>9. reproposing' \in [Node -> Seq(Value)] /\ proposed' \subseteq Value /\ crashes' \in Nat
      BY <1>1, <1>4, <2>1
    <2> QED
      BY <2>8, <2>9 DEF IInv, NodesInv, TypeOK
  <1>12. ASSUME NEW i \in Node, NEW j \in Node, Lose(i, j)
         PROVE  IInv' /\ StepKept
    <2> DEFINE q == net[i][j]
               links == [net EXCEPT ![i][j] = Without(net[i][j], 1)]
    <2>1. /\ net' = [net EXCEPT ![i][j] = Tail(net[i][j])]
          /\ UNCHANGED <<mem, disk, reproposing, proposed, crashes>>
      BY <1>12 DEF Lose
    <2>2. /\ 1 \in 1..Len(q)
          /\ Tail(q) = Without(q, 1)
      <3>1. q # <<>> /\ q \in Seq(Message)
        BY <1>1, <1>12 DEF Lose
      <3> HIDE DEF q
      <3>2. SubSeq(q, 1, 0) = <<>> /\ Tail(q) = SubSeq(q, 2, Len(q))
        BY <3>1, SubSeqEmpty, TailIsSubSeq
      <3>3. 1 \in 1..Len(q) /\ Tail(q) \in Seq(Message)
        BY <3>1
      <3> QED
        BY <3>2, <3>3, ConcatEmptySeq DEF Without
    <2>3. net' = links /\ LinksWithin(links)
      BY <1>1, <2>1, <2>2, ReceiveOK
    <2>4. \A v, c \in Node : \A t \in Nat : VoteFor(v, c, t)' => VoteFor(v, c, t)
      <3> HIDE DEF links
      <3> TAKE v, c \in Node
      <3> TAKE t \in Nat
      <3>1. Granted(v, c, t)' => Granted(v, c, t)
        <4> SUFFICES ASSUME NEW k \in 1..Len(links[v][c]), IsGrant(links[v][c][k]),
                            links[v][c][k].term = t
                     PROVE  Granted(v, c, t)
          BY <2>3 DEF Granted
        <4>1. PICK h \in 1..Len(net[v][c]) : links[v][c][k] = net[v][c][h]
          BY <2>3 DEF LinksWithin
        <4> QED
          BY <4>1 DEF Granted
      <3> QED
        BY <2>1, <3>1 DEF VoteFor
    <2>5. TypeOK'
      BY <1>1, <2>1, <2>3 DEF TypeOK, LinksWithin
    <2>6. AllClean' /\ StorageMirrorsMemory' /\ LeadersElected'
      BY <2>1 DEF IInv, AllClean, StorageMirrorsMemory, LeadersElected
    <2>7. VotesBinding' /\ VotesUnique'
      BY <2>1, <2>4 DEF IInv, VotesBinding, VotesUnique
    <2>8. StepKept
      BY <1>2, <2>1 DEF StepKept, State
    <2> QED
      BY <2>5, <2>6, <2>7, <2>8 DEF IInv
  <1>13. CASE UNCHANGED vars
    <2>1. /\ mem' = mem /\ disk' = disk /\ net' = net
          /\ reproposing' = reproposing /\ proposed' = proposed /\ crashes' = crashes
      BY <1>13 DEF vars
    <2>2. TypeOK'
      BY <1>1, <2>1 DEF TypeOK
    <2>3. AllClean' /\ StorageMirrorsMemory' /\ LeadersElected'
      BY <2>1 DEF IInv, AllClean, StorageMirrorsMemory, LeadersElected
    <2>4. \A v, c \in Node : \A t \in Nat : VoteFor(v, c, t)' <=> VoteFor(v, c, t)
      BY <2>1 DEF VoteFor, Granted
    <2>5. VotesBinding' /\ VotesUnique'
      BY <2>1, <2>4 DEF IInv, VotesBinding, VotesUnique
    <2> QED
      BY <1>13, <2>2, <2>3, <2>5 DEF IInv
  <1> QED
    BY <1>5, <1>6, <1>7, <1>8, <1>9, <1>10, <1>11, <1>12, <1>13 DEF Next

-----------------------------------------------------------------------------
(* The theorems.                                                           *)

\* The invariant holds in every state, and every step keeps terms and votes.
LEMMA Always == Spec => []IInv /\ [][StepKept]_vars
  <1>1. IInv /\ [Next]_vars => [StepKept]_vars
    BY NextIInv
  <1> QED
    BY InitIInv, NextIInv, <1>1, PTL DEF Spec

\* Every state reached by any interleaving of events, crashes and losses, in a
\* cluster of any size, has the shape the code's types give it.
THEOREM TypeCorrect == Spec => []TypeOK
  <1>1. IInv => TypeOK
    BY DEF IInv
  <1> QED
    BY <1>1, Always, PTL

\* flush_persist misses nothing: between two events the storage holds the term,
\* the vote and the log of the node, wherever a crash has cut a flush.
THEOREM StorageMirrors == Spec => []StorageMirrorsMemory
  <1>1. IInv => StorageMirrorsMemory
    BY DEF IInv
  <1> QED
    BY <1>1, Always, PTL

\* No step of any node, crash or restart included, takes a term back or changes a
\* vote within its term.
THEOREM TermsAndVotesKept == Spec => NothingForgotten
  <1>1. NothingForgotten <=> [][StepKept]_vars
    BY PTL DEF NothingForgotten, StepKept
  <1> QED
    BY <1>1, Always, PTL

\* Two leaders of one term are the same node, for every cluster size, with ordered
\* or reordering links, and with crashes in the middle of saving term and vote.
THEOREM OneLeaderPerTerm == Spec => []ElectionSafety
  <1>1. IInv => ElectionSafety
    <2> SUFFICES ASSUME IInv, NEW i \in Node, NEW j \in Node,
                        mem[i].role = "Leader", mem[j].role = "Leader",
                        mem[i].current_term = mem[j].current_term
                 PROVE  i = j
      BY DEF ElectionSafety
    <2>1. mem[i] \in State /\ mem[j] \in State
      BY DEF IInv, TypeOK
    <2>2. CASE Cardinality(Node) = 1
      <3>1. PICK x : Node = {x}
        BY <2>2, NodeAssumption, FS_Singleton
      <3> QED
        BY <3>1
    <2>3. CASE Cardinality(Node) # 1
      <3>1. /\ Cardinality(mem[i].votes_received) >= quorum
            /\ Cardinality(mem[j].votes_received) >= quorum
        BY <2>3 DEF IInv, LeadersElected
      <3>2. mem[i].votes_received \in SUBSET Node /\ mem[j].votes_received \in SUBSET Node
        BY <2>1 DEF State
      <3>3. PICK v \in Node : v \in mem[i].votes_received /\ v \in mem[j].votes_received
        BY <3>1, <3>2, QuorumsIntersect
      <3>4. VoteFor(v, i, mem[i].current_term) /\ VoteFor(v, j, mem[i].current_term)
        BY <3>3 DEF VoteFor
      <3>5. mem[i].current_term \in Nat
        BY <2>1 DEF State
      <3> QED
        BY <3>4, <3>5 DEF IInv, VotesUnique
    <2> QED
      BY <2>2, <2>3
  <1> QED
    BY <1>1, Always, PTL

=============================================================================
