----------------------------- MODULE RedbProofs -----------------------------
(***************************************************************************)
(* What the transactions of daccord/src/redb_storage.rs do to a good file: *)
(* it stays good, and what it holds changes as the traits say.             *)
(***************************************************************************)
EXTENDS StorageTableProofs

-----------------------------------------------------------------------------
(* The writes of the redb backend.                                         *)

\* What a write needs to have been created.
RedbReady(d, op) ==
    /\ op \in PaxosOp => Redb!PaxosTables \subseteq d.tables
    /\ op \in RaftOp => Redb!RaftTables \subseteq d.tables

\* The transactions on the table of decisions of Paxos.
LEMMA RedbPaxosDecision ==
    ASSUME NEW d, RedbOK(d), "paxos_decisions" \in d.tables,
           NEW slot, NEW v \in Value
    PROVE  LET u == Redb!paxos_save_decision(d, slot, v) IN
           /\ RedbOK(u) /\ u.tables = d.tables
           /\ RedbContents(u) = [RedbContents(d) EXCEPT !.paxos_decisions =
                                    Put(RedbContents(d).paxos_decisions, slot, v)]
  <1> DEFINE u == Redb!paxos_save_decision(d, slot, v)
             t == Put(d.paxos_decisions, slot, to_json(v))
  <1>1. u = [d EXCEPT !.paxos_decisions = t]
    BY DEF Redb!paxos_save_decision, Redb!Put, Redb!to_json, Put, to_json
  <1>2. Decoded(t) = Put(Decoded(d.paxos_decisions), slot, v) /\ t \in [DOMAIN t -> Json]
    BY DecodedPut DEF RedbOK
  <1> HIDE DEF t, u
  <1>3. u = [tables |-> d.tables, paxos_decisions |-> t,
             raft_decisions |-> d.raft_decisions, raft_log |-> d.raft_log,
             raft_term |-> d.raft_term, raft_voted_for |-> d.raft_voted_for,
             raft_commit_index |-> d.raft_commit_index]
    BY <1>1 DEF RedbOK
  <1>4. RedbOK(u)
    BY <1>2, <1>3 DEF RedbOK
  <1>5. RedbContents(u) = [RedbContents(d) EXCEPT !.paxos_decisions =
                               Put(RedbContents(d).paxos_decisions, slot, v)]
    BY <1>2, <1>3 DEF RedbContents
  <1> QED BY <1>3, <1>4, <1>5 DEF u

\* The transactions on the table of decisions of Raft.
LEMMA RedbDecision ==
    ASSUME NEW d, RedbOK(d), "raft_decisions" \in d.tables,
           NEW slot, NEW v \in Value
    PROVE  LET u == Redb!save_decision(d, slot, v) IN
           /\ RedbOK(u) /\ u.tables = d.tables
           /\ RedbContents(u) = [RedbContents(d) EXCEPT !.decisions =
                                    Put(RedbContents(d).decisions, slot, v)]
  <1> DEFINE u == Redb!save_decision(d, slot, v)
             t == Put(d.raft_decisions, slot, to_json(v))
  <1>1. u = [d EXCEPT !.raft_decisions = t]
    BY DEF Redb!save_decision, Redb!Put, Redb!to_json, Put, to_json
  <1>2. Decoded(t) = Put(Decoded(d.raft_decisions), slot, v) /\ t \in [DOMAIN t -> Json]
    BY DecodedPut DEF RedbOK
  <1> HIDE DEF t, u
  <1>3. u = [tables |-> d.tables, paxos_decisions |-> d.paxos_decisions,
             raft_decisions |-> t, raft_log |-> d.raft_log,
             raft_term |-> d.raft_term, raft_voted_for |-> d.raft_voted_for,
             raft_commit_index |-> d.raft_commit_index]
    BY <1>1 DEF RedbOK
  <1>4. RedbOK(u)
    BY <1>2, <1>3 DEF RedbOK
  <1>5. RedbContents(u) = [RedbContents(d) EXCEPT !.decisions =
                               Put(RedbContents(d).decisions, slot, v)]
    BY <1>2, <1>3 DEF RedbContents
  <1> QED BY <1>3, <1>4, <1>5 DEF u

\* The transaction of save_term.
LEMMA RedbTerm ==
    ASSUME NEW d, RedbOK(d), "raft_term" \in d.tables, NEW term \in Term
    PROVE  LET u == Redb!save_term(d, term) IN
           /\ RedbOK(u) /\ u.tables = d.tables
           /\ RedbContents(u) = [RedbContents(d) EXCEPT !.term = term]
  <1> DEFINE u == Redb!save_term(d, term)
             t == [k \in DOMAIN d.raft_term \cup {"k"} |->
                      IF k = "k" THEN term ELSE d.raft_term[k]]
  <1>1. u = [d EXCEPT !.raft_term = t]
    BY DEF Redb!save_term, Redb!Put, Redb!META_KEY
  <1>2. OnlyRow(t, 0) = term /\ t \in [DOMAIN t -> Term]
    BY DEF RedbOK, OnlyRow
  <1> HIDE DEF t, u
  <1>3. u = [tables |-> d.tables, paxos_decisions |-> d.paxos_decisions,
             raft_decisions |-> d.raft_decisions, raft_log |-> d.raft_log,
             raft_term |-> t, raft_voted_for |-> d.raft_voted_for,
             raft_commit_index |-> d.raft_commit_index]
    BY <1>1 DEF RedbOK
  <1>4. RedbOK(u)
    BY <1>2, <1>3 DEF RedbOK
  <1>5. RedbContents(u) = [RedbContents(d) EXCEPT !.term = term]
    BY <1>2, <1>3 DEF RedbContents
  <1> QED BY <1>3, <1>4, <1>5 DEF u

\* The transaction of save_voted_for.
LEMMA RedbVotedFor ==
    ASSUME NEW d, RedbOK(d), "raft_voted_for" \in d.tables, NEW id \in NodeId \cup {Nil}
    PROVE  LET u == Redb!save_voted_for(d, id) IN
           /\ RedbOK(u) /\ u.tables = d.tables
           /\ RedbContents(u) = [RedbContents(d) EXCEPT !.voted_for = id]
  <1> DEFINE u == Redb!save_voted_for(d, id)
             t == IF id = Nil
                  THEN [k \in DOMAIN d.raft_voted_for \ {"k"} |-> d.raft_voted_for[k]]
                  ELSE [k \in DOMAIN d.raft_voted_for \cup {"k"} |->
                           IF k = "k" THEN <<id.name, id.incarnation>> ELSE d.raft_voted_for[k]]
  <1>1. u = [d EXCEPT !.raft_voted_for = t]
    BY DEF Redb!save_voted_for, Redb!Put, Redb!Remove, Redb!META_KEY
  <1>2. RedbVote(t) = id /\ t \in [DOMAIN t -> Name \X Incarnation]
    <2>1. CASE id = Nil
      BY <2>1 DEF RedbOK, RedbVote
    <2>2. CASE id # Nil
      <3>1. id \in NodeId
        BY <2>2
      <3>2. t = [k \in DOMAIN d.raft_voted_for \cup {"k"} |->
                    IF k = "k" THEN <<id.name, id.incarnation>> ELSE d.raft_voted_for[k]]
        BY <2>2
      <3>3. id = [name |-> id.name, incarnation |-> id.incarnation]
            /\ id.name \in Name /\ id.incarnation \in Incarnation
        BY <3>1 DEF NodeId
      <3> HIDE DEF t
      <3>4. RedbVote(t) = id
        BY <3>2, <3>3 DEF RedbVote
      <3>5. t \in [DOMAIN t -> Name \X Incarnation]
        BY <3>2, <3>3 DEF RedbOK
      <3> QED BY <3>4, <3>5
    <2> QED BY <2>1, <2>2
  <1> HIDE DEF t, u
  <1>3. u = [tables |-> d.tables, paxos_decisions |-> d.paxos_decisions,
             raft_decisions |-> d.raft_decisions, raft_log |-> d.raft_log,
             raft_term |-> d.raft_term, raft_voted_for |-> t,
             raft_commit_index |-> d.raft_commit_index]
    BY <1>1 DEF RedbOK
  <1>4. RedbOK(u)
    BY <1>2, <1>3 DEF RedbOK
  <1>5. RedbContents(u) = [RedbContents(d) EXCEPT !.voted_for = id]
    BY <1>2, <1>3 DEF RedbContents
  <1> QED BY <1>3, <1>4, <1>5 DEF u

\* The transaction of save_commit_index.
LEMMA RedbCommitIndex ==
    ASSUME NEW d, RedbOK(d), "raft_commit_index" \in d.tables, NEW index \in Index \cup {Nil}
    PROVE  LET u == Redb!save_commit_index(d, index) IN
           /\ RedbOK(u) /\ u.tables = d.tables
           /\ RedbContents(u) = [RedbContents(d) EXCEPT !.commit_index = index]
  <1> DEFINE u == Redb!save_commit_index(d, index)
             old == d.raft_commit_index
             t == IF index = Nil
                  THEN [k \in DOMAIN old \ {"k"} |-> old[k]]
                  ELSE [k \in DOMAIN old \cup {"k"} |-> IF k = "k" THEN index ELSE old[k]]
  <1>1. u = [d EXCEPT !.raft_commit_index = t]
    BY DEF Redb!save_commit_index, Redb!Put, Redb!Remove, Redb!META_KEY
  <1>2. OnlyRow(t, Nil) = index /\ t \in [DOMAIN t -> Index]
    <2>1. CASE index = Nil
      BY <2>1 DEF RedbOK, OnlyRow
    <2>2. CASE index # Nil
      BY <2>2 DEF RedbOK, OnlyRow
    <2> QED BY <2>1, <2>2
  <1> HIDE DEF t, u
  <1>3. u = [tables |-> d.tables, paxos_decisions |-> d.paxos_decisions,
             raft_decisions |-> d.raft_decisions, raft_log |-> d.raft_log,
             raft_term |-> d.raft_term, raft_voted_for |-> d.raft_voted_for,
             raft_commit_index |-> t]
    BY <1>1 DEF RedbOK
  <1>4. RedbOK(u)
    BY <1>2, <1>3 DEF RedbOK
  <1>5. RedbContents(u) = [RedbContents(d) EXCEPT !.commit_index = index]
    BY <1>2, <1>3 DEF RedbContents
  <1> QED BY <1>3, <1>4, <1>5 DEF u

\* The transaction of append_log.
LEMMA RedbAppend ==
    ASSUME NEW d, RedbOK(d), "raft_log" \in d.tables, NEW entries \in Seq(LogEntry)
    PROVE  LET u == Redb!append_log(d, entries) IN
           /\ RedbOK(u) /\ u.tables = d.tables
           /\ RedbContents(u) = [RedbContents(d) EXCEPT !.log = RedbContents(d).log \o entries]
  <1> DEFINE u == Redb!append_log(d, entries)
             rows == [i \in 1..Len(entries) |->
                         <<entries[i].term, [json |-> entries[i].value]>>]
             t == AppendRows(d.raft_log, rows)
             n == Cardinality(DOMAIN d.raft_log)
  <1>1. u = [d EXCEPT !.raft_log = t]
    BY DEF Redb!append_log, Redb!AppendRows, Redb!next_index, Redb!to_json,
           AppendRows, next_index
  <1>a. Len(entries) \in Nat /\ \A i \in 1..Len(entries) :
            /\ entries[i].term \in Term /\ entries[i].value \in Value
            /\ entries[i] = [term |-> entries[i].term, value |-> entries[i].value]
    <2>1. Len(entries) \in Nat /\ \A i \in 1..Len(entries) : entries[i] \in LogEntry
      BY ElementOfSeq, LenProperties
    <2> QED BY <2>1 DEF LogEntry
  <1>b. rows \in [1..Len(entries) -> Term \X Json]
    BY <1>a DEF Json
  <1>c. \A i \in 1..Len(entries) : rows[i][1] = entries[i].term /\ rows[i][2].json = entries[i].value
    BY <1>a
  <1>d. n \in Nat /\ LogTable(d.raft_log, Term \X Json)
        /\ d.raft_log \in [0..(n - 1) -> Term \X Json]
    BY DEF RedbOK, LogTable, Contiguous
  <1> HIDE DEF rows, u
  <1>e. rows \in Seq(Term \X Json) /\ Len(rows) = Len(entries)
    BY <1>a, <1>b, FunctionIsSequence, Zenon
  <1>f. Appended(t, d.raft_log, rows, Term \X Json)
    BY <1>d, <1>e, AppendRowsAtEnd, Zenon
  <1>g. /\ Contiguous(t)
        /\ t \in [DOMAIN t -> Term \X Json]
        /\ Cardinality(DOMAIN t) = n + Len(entries)
        /\ \A k \in 0..(n - 1) : t[k] = d.raft_log[k]
        /\ \A i \in 1..Len(entries) : t[n + i - 1] = rows[i]
    <2> HIDE DEF t
    <2> QED BY <1>e, <1>f DEF Appended, LogTable
  <1> HIDE DEF t, n
  <1>2. RedbLog(t) = RedbLog(d.raft_log) \o entries
    <2> DEFINE a == RedbLog(d.raft_log)
               c == RedbLog(t)
    <2>0. DOMAIN t = 0..(Cardinality(DOMAIN t) - 1) /\ n \in Nat
      BY <1>d, <1>g, Zenon DEF Contiguous
    <2>1. DOMAIN t = 0..(n + Len(entries) - 1)
      BY <1>g, <2>0
    <2>2. a = [i \in 1..n |-> [term |-> d.raft_log[i - 1][1], value |-> d.raft_log[i - 1][2].json]]
      BY DEF RedbLog, n
    <2>3. c = [i \in 1..(n + Len(entries)) |-> [term |-> t[i - 1][1], value |-> t[i - 1][2].json]]
      BY <1>g DEF RedbLog
    <2> HIDE DEF a, c
    <2>4. a \in [1..n -> LogEntry]
      <3>1. \A i \in 1..n : d.raft_log[i - 1] \in Term \X Json
        BY <1>d
      <3> QED BY <2>2, <3>1 DEF LogEntry, Json
    <2>5. c \in [1..(n + Len(entries)) -> LogEntry]
      BY <1>a, <1>d, <1>g, <2>1, <2>3 DEF LogEntry, Json
    <2>6. \A i \in 1..n : c[i] = a[i]
      <3> SUFFICES ASSUME NEW i \in 1..n PROVE c[i] = a[i]
        OBVIOUS
      <3>1. i \in 1..(n + Len(entries)) /\ i - 1 \in 0..(n - 1)
        BY <1>a, <1>d
      <3>2. t[i - 1] = d.raft_log[i - 1]
        BY <1>g, <3>1
      <3> QED BY <2>2, <2>3, <3>1, <3>2
    <2>7. \A i \in 1..Len(entries) : c[n + i] = entries[i]
      <3> SUFFICES ASSUME NEW i \in 1..Len(entries) PROVE c[n + i] = entries[i]
        OBVIOUS
      <3>1. n + i \in 1..(n + Len(entries)) /\ (n + i) - 1 = n + i - 1
        BY <1>a, <1>d
      <3>2. c[n + i] = [term |-> t[n + i - 1][1], value |-> t[n + i - 1][2].json]
        BY <2>3, <3>1
      <3>3. t[n + i - 1] = rows[i]
        BY <1>g
      <3> QED BY <1>a, <1>c, <3>2, <3>3
    <2>8. Follows(c, a, n, entries, LogEntry)
      BY <2>0, <2>4, <2>5, <2>6, <2>7, Zenon DEF Follows
    <2> QED BY <2>8, FollowsIsConcat, Zenon DEF a, c
  <1>3. u = [tables |-> d.tables, paxos_decisions |-> d.paxos_decisions,
             raft_decisions |-> d.raft_decisions, raft_log |-> t,
             raft_term |-> d.raft_term, raft_voted_for |-> d.raft_voted_for,
             raft_commit_index |-> d.raft_commit_index]
    BY <1>1 DEF RedbOK
  <1>4. RedbOK(u)
    BY <1>g, <1>3 DEF RedbOK
  <1>5. RedbContents(u) = [RedbContents(d) EXCEPT !.log = RedbContents(d).log \o entries]
    <2> DEFINE new == RedbLog(d.raft_log) \o entries
    <2>1. RedbContents(d).log \o entries = new
      BY DEF RedbContents
    <2>2. RedbLog(t) = new
      BY <1>2
    <2> HIDE DEF new
    <2>3. RedbContents(u) = [RedbContents(d) EXCEPT !.log = new]
      BY <1>3, <2>2 DEF RedbContents
    <2> QED BY <2>1, <2>3
  <1> QED BY <1>3, <1>4, <1>5 DEF u

\* The transaction of truncate_log_from.
LEMMA RedbTruncate ==
    ASSUME NEW d, RedbOK(d), "raft_log" \in d.tables, NEW index \in Nat
    PROVE  LET u == Redb!truncate_log_from(d, index)
               log == RedbContents(d).log IN
           /\ RedbOK(u) /\ u.tables = d.tables
           /\ RedbContents(u) = [RedbContents(d) EXCEPT !.log =
                                    IF index < Len(log) THEN SubSeq(log, 1, index) ELSE log]
  <1> DEFINE u == Redb!truncate_log_from(d, index)
             t == RowsBelow(d.raft_log, index)
             n == Cardinality(DOMAIN d.raft_log)
             m == Cardinality(DOMAIN t)
             log == RedbLog(d.raft_log)
             new == IF index < Len(log) THEN SubSeq(log, 1, index) ELSE log
  <1>1. u = [d EXCEPT !.raft_log = t]
    BY DEF Redb!truncate_log_from, Redb!RowsBelow, RowsBelow
  <1>a. n \in Nat /\ LogTable(d.raft_log, Term \X Json)
        /\ d.raft_log \in [0..(n - 1) -> Term \X Json]
    BY DEF RedbOK, LogTable, Contiguous
  <1>b. Truncated(t, d.raft_log, index, Term \X Json)
    BY <1>a, RowsBelowIsPrefix, Zenon
  <1> HIDE DEF t, u
  <1>c. /\ Contiguous(t)
        /\ t \in [DOMAIN t -> Term \X Json]
        /\ m = IF index < n THEN index ELSE n
        /\ \A k \in DOMAIN t : t[k] = d.raft_log[k]
        /\ DOMAIN t = 0..(m - 1)
    BY <1>b DEF Truncated, LogTable, Contiguous
  <1> HIDE DEF n, m
  <1>2. RedbLog(t) = new
    <2>1. log = [i \in 1..n |-> [term |-> d.raft_log[i - 1][1], value |-> d.raft_log[i - 1][2].json]]
      BY DEF RedbLog, n
    <2>2. RedbLog(t) = [i \in 1..m |-> [term |-> t[i - 1][1], value |-> t[i - 1][2].json]]
      BY DEF RedbLog, m
    <2> HIDE DEF log
    <2>3. log \in [1..n -> LogEntry]
      <3>1. \A i \in 1..n : d.raft_log[i - 1] \in Term \X Json
        BY <1>a
      <3> QED BY <2>1, <3>1 DEF LogEntry, Json
    <2>4. log \in Seq(LogEntry) /\ Len(log) = n
      BY <1>a, <2>3, FunctionIsSequence, Zenon
    <2>5. m \in Nat /\ m <= n
      BY <1>a, <1>c
    <2>6. \A i \in 1..m : RedbLog(t)[i] = log[i]
      <3> SUFFICES ASSUME NEW i \in 1..m PROVE RedbLog(t)[i] = log[i]
        OBVIOUS
      <3>1. i \in 1..n /\ i - 1 \in DOMAIN t
        BY <1>a, <1>c, <2>5
      <3> QED BY <1>c, <2>1, <2>2, <3>1
    <2>7. RedbLog(t) = [i \in 1..m |-> log[i]]
      BY <2>2, <2>6
    <2>8. CASE index < n
      <3>1. m = index /\ new = SubSeq(log, 1, index)
        BY <1>c, <2>4, <2>8
      <3>2. SubSeq(log, 1, index) = [i \in 1..index |-> log[i]]
        BY <2>4, <2>8, <1>a
      <3> QED BY <2>7, <3>1, <3>2
    <2>9. CASE ~(index < n)
      <3>1. m = n /\ new = log
        BY <1>c, <2>4, <2>9
      <3> QED BY <2>3, <2>7, <3>1
    <2> QED BY <2>8, <2>9
  <1> HIDE DEF new
  <1>3. u = [tables |-> d.tables, paxos_decisions |-> d.paxos_decisions,
             raft_decisions |-> d.raft_decisions, raft_log |-> t,
             raft_term |-> d.raft_term, raft_voted_for |-> d.raft_voted_for,
             raft_commit_index |-> d.raft_commit_index]
    BY <1>1 DEF RedbOK
  <1>4. RedbOK(u)
    BY <1>c, <1>3 DEF RedbOK
  <1>5. RedbContents(u) = [RedbContents(d) EXCEPT !.log = new]
    BY <1>2, <1>3 DEF RedbContents
  <1>6. RedbContents(d).log = log
    BY DEF RedbContents
  <1> QED BY <1>3, <1>4, <1>5, <1>6 DEF u, new

\* Every write leaves a good file, creates no table and has its effect.
LEMMA RedbWritten ==
    ASSUME NEW d, RedbOK(d), NEW op, op \in PaxosOp \/ op \in RaftOp, RedbReady(d, op)
    PROVE  LET u == Redb!Written(d, op) IN
           /\ RedbOK(u) /\ u.tables = d.tables
           /\ RedbContents(u) = Effect(RedbContents(d), op)
  <1>1. CASE op \in PaxosOp
    <2>1. op.type = "paxos_save_decision" /\ op.arg.value \in Value
          /\ "paxos_decisions" \in d.tables
      BY <1>1 DEF PaxosOp, Decision, RedbReady, Redb!PaxosTables
    <2> QED BY <2>1, RedbPaxosDecision DEF Redb!Written, Effect
  <1>2. CASE op \in [type : {"save_decision"}, arg : Decision]
    <2>1. op.type = "save_decision" /\ op.arg.value \in Value /\ "raft_decisions" \in d.tables
      BY <1>2 DEF RaftOp, Decision, RedbReady, Redb!RaftTables
    <2> QED BY <2>1, RedbDecision DEF Redb!Written, Effect
  <1>3. CASE op \in [type : {"save_term"}, arg : Term]
    <2>1. op.type = "save_term" /\ op.arg \in Term /\ "raft_term" \in d.tables
      BY <1>3 DEF RaftOp, RedbReady, Redb!RaftTables
    <2> QED BY <2>1, RedbTerm DEF Redb!Written, Effect
  <1>4. CASE op \in [type : {"save_voted_for"}, arg : NodeId \cup {Nil}]
    <2>1. op.type = "save_voted_for" /\ op.arg \in NodeId \cup {Nil}
          /\ "raft_voted_for" \in d.tables
      BY <1>4 DEF RaftOp, RedbReady, Redb!RaftTables
    <2> QED BY <2>1, RedbVotedFor DEF Redb!Written, Effect
  <1>5. CASE op \in [type : {"append_log"}, arg : Batch]
    <2>1. op.type = "append_log" /\ op.arg \in Batch /\ "raft_log" \in d.tables
      BY <1>5 DEF RaftOp, RedbReady, Redb!RaftTables
    <2>2. op.arg \in Seq(LogEntry)
      BY <2>1, StorageAssumption DEF Batch
    <2> QED BY <2>1, <2>2, RedbAppend DEF Redb!Written, Effect
  <1>6. CASE op \in [type : {"truncate_log_from"}, arg : Index]
    <2>1. op.type = "truncate_log_from" /\ op.arg \in Nat /\ "raft_log" \in d.tables
      BY <1>6, StorageAssumption DEF RaftOp, RedbReady, Redb!RaftTables, Index
    <2> QED BY <2>1, RedbTruncate DEF Redb!Written, Effect
  <1>7. CASE op \in [type : {"save_commit_index"}, arg : Index \cup {Nil}]
    <2>1. op.type = "save_commit_index" /\ op.arg \in Index \cup {Nil}
          /\ "raft_commit_index" \in d.tables
      BY <1>7 DEF RaftOp, RedbReady, Redb!RaftTables
    <2> QED BY <2>1, RedbCommitIndex DEF Redb!Written, Effect
  <1> QED BY <1>1, <1>2, <1>3, <1>4, <1>5, <1>6, <1>7 DEF RaftOp

\* redb's opening transaction leaves a good file with the same contents.
LEMMA RedbOpened ==
    ASSUME NEW d, RedbOK(d), NEW protocol
    PROVE  LET u == Redb!from_database(d, protocol) IN
           /\ RedbOK(u)
           /\ RedbContents(u) = RedbContents(d)
           /\ u.tables = d.tables \cup IF protocol = "paxos" THEN Redb!PaxosTables
                                       ELSE Redb!RaftTables
  <1> DEFINE u == Redb!from_database(d, protocol)
             tables == d.tables \cup IF protocol = "paxos" THEN Redb!PaxosTables
                                     ELSE Redb!RaftTables
  <1>1. u = [d EXCEPT !.tables = tables]
    BY DEF Redb!from_database
  <1>2. d.tables \subseteq tables
    OBVIOUS
  <1> HIDE DEF u, tables
  <1>3. u = [tables |-> tables, paxos_decisions |-> d.paxos_decisions,
             raft_decisions |-> d.raft_decisions, raft_log |-> d.raft_log,
             raft_term |-> d.raft_term, raft_voted_for |-> d.raft_voted_for,
             raft_commit_index |-> d.raft_commit_index]
    BY <1>1 DEF RedbOK
  <1>4. RedbOK(u)
    BY <1>2, <1>3 DEF RedbOK
  <1>5. RedbContents(u) = RedbContents(d)
    BY <1>3 DEF RedbContents
  <1> QED BY <1>3, <1>4, <1>5 DEF u, tables

=============================================================================
