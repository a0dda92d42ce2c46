---------------------------- MODULE DuckdbProofs ----------------------------
(***************************************************************************)
(* What the statements of daccord/src/duckdb_storage.rs do to a good file: *)
(* it stays good, and what it holds changes as the traits say.             *)
(***************************************************************************)
EXTENDS StorageTableProofs

-----------------------------------------------------------------------------
(* The writes of the DuckDB backend.                                       *)

\* What a write needs to have been created.
DuckdbReady(d, op) ==
    /\ op \in PaxosOp => "paxos_decisions" \in d.tables
    /\ op \in RaftOp => /\ {"raft_decisions", "raft_meta", "raft_log"} \subseteq d.tables
                        /\ 0 \in DOMAIN d.raft_meta

\* The upsert into the table of decisions of Paxos.
LEMMA DuckdbPaxosDecision ==
    ASSUME NEW d, DuckdbOK(d), "paxos_decisions" \in d.tables, NEW slot, NEW v \in Value
    PROVE  LET u == Duckdb!paxos_save_decision(d, slot, v) IN
           /\ DuckdbOK(u) /\ u.tables = d.tables /\ DOMAIN u.raft_meta = DOMAIN d.raft_meta
           /\ DuckdbContents(u) = [DuckdbContents(d) EXCEPT !.paxos_decisions =
                                      Put(DuckdbContents(d).paxos_decisions, slot, v)]
  <1> DEFINE u == Duckdb!paxos_save_decision(d, slot, v)
             t == Put(d.paxos_decisions, slot, to_json(v))
  <1>1. u = [d EXCEPT !.paxos_decisions = t]
    BY DEF Duckdb!paxos_save_decision, Duckdb!Put, Duckdb!to_json, Put, to_json
  <1>2. Decoded(t) = Put(Decoded(d.paxos_decisions), slot, v) /\ t \in [DOMAIN t -> Json]
    BY DecodedPut DEF DuckdbOK
  <1> HIDE DEF t, u
  <1>3. u = [tables |-> d.tables, paxos_decisions |-> t,
             raft_decisions |-> d.raft_decisions, raft_log |-> d.raft_log,
             raft_meta |-> d.raft_meta]
    BY <1>1 DEF DuckdbOK
  <1>4. DuckdbOK(u)
    BY <1>2, <1>3 DEF DuckdbOK
  <1>5. DuckdbContents(u) = [DuckdbContents(d) EXCEPT !.paxos_decisions =
                                 Put(DuckdbContents(d).paxos_decisions, slot, v)]
    BY <1>2, <1>3 DEF DuckdbContents
  <1> QED BY <1>3, <1>4, <1>5 DEF u

\* The upsert into the table of decisions of Raft.
LEMMA DuckdbDecision ==
    ASSUME NEW d, DuckdbOK(d), "raft_decisions" \in d.tables, NEW slot, NEW v \in Value
    PROVE  LET u == Duckdb!save_decision(d, slot, v) IN
           /\ DuckdbOK(u) /\ u.tables = d.tables /\ DOMAIN u.raft_meta = DOMAIN d.raft_meta
           /\ DuckdbContents(u) = [DuckdbContents(d) EXCEPT !.decisions =
                                      Put(DuckdbContents(d).decisions, slot, v)]
  <1> DEFINE u == Duckdb!save_decision(d, slot, v)
             t == Put(d.raft_decisions, slot, to_json(v))
  <1>1. u = [d EXCEPT !.raft_decisions = t]
    BY DEF Duckdb!save_decision, Duckdb!Put, Duckdb!to_json, Put, to_json
  <1>2. Decoded(t) = Put(Decoded(d.raft_decisions), slot, v) /\ t \in [DOMAIN t -> Json]
    BY DecodedPut DEF DuckdbOK
  <1> HIDE DEF t, u
  <1>3. u = [tables |-> d.tables, paxos_decisions |-> d.paxos_decisions,
             raft_decisions |-> t, raft_log |-> d.raft_log,
             raft_meta |-> d.raft_meta]
    BY <1>1 DEF DuckdbOK
  <1>4. DuckdbOK(u)
    BY <1>2, <1>3 DEF DuckdbOK
  <1>5. DuckdbContents(u) = [DuckdbContents(d) EXCEPT !.decisions =
                                 Put(DuckdbContents(d).decisions, slot, v)]
    BY <1>2, <1>3 DEF DuckdbContents
  <1> QED BY <1>3, <1>4, <1>5 DEF u

\* The update of save_term.
LEMMA DuckdbTerm ==
    ASSUME NEW d, DuckdbOK(d), 0 \in DOMAIN d.raft_meta, NEW term \in Term
    PROVE  LET u == Duckdb!save_term(d, term) IN
           /\ DuckdbOK(u) /\ u.tables = d.tables /\ DOMAIN u.raft_meta = DOMAIN d.raft_meta
           /\ DuckdbContents(u) = [DuckdbContents(d) EXCEPT !.term = term]
  <1> DEFINE u == Duckdb!save_term(d, term)
             old == d.raft_meta[0]
             row == [old EXCEPT !.term = term]
             t == [id \in {0} |-> row]
  <1>a. DOMAIN d.raft_meta = {0} /\ old \in MetaRow
    BY DEF DuckdbOK
  <1>1. u = [d EXCEPT !.raft_meta = t]
    BY <1>a DEF Duckdb!save_term, DuckdbOK
  <1>b. row \in MetaRow
    BY <1>a DEF MetaRow
  <1>2. /\ DOMAIN t = {0} /\ t \in [DOMAIN t -> MetaRow]
        /\ MetaTerm(t) = row.term /\ MetaTerm(d.raft_meta) = old.term
        /\ MetaCommit(t) = row.commit_index /\ MetaCommit(d.raft_meta) = old.commit_index
    BY <1>a, <1>b DEF MetaTerm, MetaCommit
  <1>c. MetaVote(t) = MetaVote(d.raft_meta)
    BY <1>a DEF MetaVote, MetaRow
  <1>d. row.term = term /\ row.commit_index = old.commit_index
    BY <1>a DEF MetaRow
  <1> HIDE DEF t, u, row
  <1>3. u = [tables |-> d.tables, paxos_decisions |-> d.paxos_decisions,
             raft_decisions |-> d.raft_decisions, raft_log |-> d.raft_log,
             raft_meta |-> t]
    BY <1>1 DEF DuckdbOK
  <1>4. DuckdbOK(u)
    BY <1>2, <1>3, <1>a DEF DuckdbOK
  <1>5. DuckdbContents(u) = [DuckdbContents(d) EXCEPT !.term = term]
    BY <1>2, <1>3, <1>c, <1>d DEF DuckdbContents
  <1> QED BY <1>2, <1>3, <1>4, <1>5, <1>a DEF u

\* The update of save_commit_index.
LEMMA DuckdbCommitIndex ==
    ASSUME NEW d, DuckdbOK(d), 0 \in DOMAIN d.raft_meta, NEW index \in Index \cup {Nil}
    PROVE  LET u == Duckdb!save_commit_index(d, index) IN
           /\ DuckdbOK(u) /\ u.tables = d.tables /\ DOMAIN u.raft_meta = DOMAIN d.raft_meta
           /\ DuckdbContents(u) = [DuckdbContents(d) EXCEPT !.commit_index = index]
  <1> DEFINE u == Duckdb!save_commit_index(d, index)
             old == d.raft_meta[0]
             row == [old EXCEPT !.commit_index = index]
             t == [id \in {0} |-> row]
  <1>a. DOMAIN d.raft_meta = {0} /\ old \in MetaRow
    BY DEF DuckdbOK
  <1>1. u = [d EXCEPT !.raft_meta = t]
    BY <1>a DEF Duckdb!save_commit_index, DuckdbOK
  <1>b. row \in MetaRow
    BY <1>a DEF MetaRow
  <1>2. /\ DOMAIN t = {0} /\ t \in [DOMAIN t -> MetaRow]
        /\ MetaTerm(t) = row.term /\ MetaTerm(d.raft_meta) = old.term
        /\ MetaCommit(t) = row.commit_index /\ MetaCommit(d.raft_meta) = old.commit_index
    BY <1>a, <1>b DEF MetaTerm, MetaCommit
  <1>c. MetaVote(t) = MetaVote(d.raft_meta)
    BY <1>a DEF MetaVote, MetaRow
  <1>d. row.term = old.term /\ row.commit_index = index
    BY <1>a DEF MetaRow
  <1> HIDE DEF t, u, row
  <1>3. u = [tables |-> d.tables, paxos_decisions |-> d.paxos_decisions,
             raft_decisions |-> d.raft_decisions, raft_log |-> d.raft_log,
             raft_meta |-> t]
    BY <1>1 DEF DuckdbOK
  <1>4. DuckdbOK(u)
    BY <1>2, <1>3, <1>a DEF DuckdbOK
  <1>5. DuckdbContents(u) = [DuckdbContents(d) EXCEPT !.commit_index = index]
    BY <1>2, <1>3, <1>c, <1>d DEF DuckdbContents
  <1> QED BY <1>2, <1>3, <1>4, <1>5, <1>a DEF u

\* The one update of both columns of the vote.
LEMMA DuckdbVotedFor ==
    ASSUME NEW d, DuckdbOK(d), 0 \in DOMAIN d.raft_meta, NEW id \in NodeId \cup {Nil}
    PROVE  LET u == Duckdb!save_voted_for(d, id) IN
           /\ DuckdbOK(u) /\ u.tables = d.tables /\ DOMAIN u.raft_meta = DOMAIN d.raft_meta
           /\ DuckdbContents(u) = [DuckdbContents(d) EXCEPT !.voted_for = id]
  <1> DEFINE u == Duckdb!save_voted_for(d, id)
             old == d.raft_meta[0]
             name == IF id = Nil THEN Nil ELSE id.name
             inc == IF id = Nil THEN Nil ELSE id.incarnation
             named == [old EXCEPT !.voted_for_name = name]
             row == [named EXCEPT !.voted_for_incarnation = inc]
             t == [key \in {0} |-> row]
  <1>a. DOMAIN d.raft_meta = {0} /\ old \in MetaRow
    BY DEF DuckdbOK
  <1>1. u = [d EXCEPT !.raft_meta = t]
    BY <1>a DEF Duckdb!save_voted_for, DuckdbOK
  <1>e. id # Nil => /\ id.name \in Name /\ id.incarnation \in Incarnation
                    /\ id = [name |-> id.name, incarnation |-> id.incarnation]
    BY DEF NodeId
  <1>f. /\ name \in Name \cup {Nil} /\ inc \in Incarnation \cup {Nil}
        /\ name = Nil <=> inc = Nil
    BY <1>e, StorageAssumption
  <1> HIDE DEF name, inc
  <1>b. row \in MetaRow
    <2>a. old \in [term : Term \cup {0}, voted_for_name : Name \cup {Nil},
                   voted_for_incarnation : Incarnation \cup {Nil},
                   commit_index : Index \cup {Nil}]
      BY <1>a DEF MetaRow
    <2> HIDE DEF old
    <2>b. /\ old = [term |-> old.term, voted_for_name |-> old.voted_for_name,
                    voted_for_incarnation |-> old.voted_for_incarnation,
                    commit_index |-> old.commit_index]
          /\ old.term \in Term \cup {0} /\ old.commit_index \in Index \cup {Nil}
      BY <2>a
    <2>c. named = [term |-> old.term, voted_for_name |-> name,
                   voted_for_incarnation |-> old.voted_for_incarnation,
                   commit_index |-> old.commit_index]
      BY <2>a
    <2> HIDE DEF named
    <2>1. row = [term |-> old.term, voted_for_name |-> name, voted_for_incarnation |-> inc,
                 commit_index |-> old.commit_index]
      BY <2>c
    <2> HIDE DEF row
    <2>2. /\ row \in [term : Term \cup {0}, voted_for_name : Name \cup {Nil},
                     voted_for_incarnation : Incarnation \cup {Nil},
                     commit_index : Index \cup {Nil}]
          /\ row.voted_for_name = name /\ row.voted_for_incarnation = inc
      BY <1>f, <2>1, <2>b
    <2> QED BY <1>f, <2>2 DEF MetaRow
  <1>g. t[0] = row /\ DOMAIN t = {0}
    OBVIOUS
  <1>2. /\ DOMAIN t = {0} /\ t \in [DOMAIN t -> MetaRow]
        /\ MetaTerm(t) = row.term /\ MetaTerm(d.raft_meta) = old.term
        /\ MetaCommit(t) = row.commit_index /\ MetaCommit(d.raft_meta) = old.commit_index
    <2>1. t \in [DOMAIN t -> MetaRow]
      BY <1>b
    <2> HIDE DEF t, row
    <2> QED BY <1>a, <1>g, <2>1 DEF MetaTerm, MetaCommit
  <1>c. MetaVote(t) = id
    <2>1. row.voted_for_name = name /\ row.voted_for_incarnation = inc
      BY <1>a DEF MetaRow
    <2> HIDE DEF t, row
    <2> QED BY <1>e, <1>g, <2>1, StorageAssumption DEF MetaVote, name, inc
  <1>d. row.term = old.term /\ row.commit_index = old.commit_index
    BY <1>a DEF MetaRow
  <1> HIDE DEF t, u, row
  <1>3. u = [tables |-> d.tables, paxos_decisions |-> d.paxos_decisions,
             raft_decisions |-> d.raft_decisions, raft_log |-> d.raft_log,
             raft_meta |-> t]
    BY <1>1 DEF DuckdbOK
  <1>4. DuckdbOK(u)
    BY <1>2, <1>3, <1>a DEF DuckdbOK
  <1>5. DuckdbContents(u) = [DuckdbContents(d) EXCEPT !.voted_for = id]
    BY <1>2, <1>3, <1>c, <1>d DEF DuckdbContents
  <1> QED BY <1>2, <1>3, <1>4, <1>5, <1>a DEF u

\* The transaction that append_log opens.
LEMMA DuckdbAppend ==
    ASSUME NEW d, DuckdbOK(d), "raft_log" \in d.tables, NEW entries \in Seq(LogEntry)
    PROVE  LET u == Duckdb!append_log(d, entries) IN
           /\ DuckdbOK(u) /\ u.tables = d.tables /\ DOMAIN u.raft_meta = DOMAIN d.raft_meta
           /\ DuckdbContents(u) = [DuckdbContents(d) EXCEPT !.log = DuckdbContents(d).log \o entries]
  <1> DEFINE u == Duckdb!append_log(d, entries)
             rows == [i \in 1..Len(entries) |->
                         [term |-> entries[i].term, value |-> [json |-> entries[i].value]]]
             t == AppendRows(d.raft_log, rows)
             n == Cardinality(DOMAIN d.raft_log)
  <1>1. u = [d EXCEPT !.raft_log = t]
    BY DEF Duckdb!append_log, Duckdb!AppendRows, Duckdb!next_index, Duckdb!to_json,
           AppendRows, next_index
  <1>a. Len(entries) \in Nat /\ \A i \in 1..Len(entries) :
            /\ entries[i].term \in Term /\ entries[i].value \in Value
            /\ entries[i] = [term |-> entries[i].term, value |-> entries[i].value]
    <2>1. Len(entries) \in Nat /\ \A i \in 1..Len(entries) : entries[i] \in LogEntry
      BY ElementOfSeq, LenProperties
    <2> QED BY <2>1 DEF LogEntry
  <1>b. rows \in [1..Len(entries) -> [term : Term, value : Json]]
    BY <1>a DEF Json
  <1>c. \A i \in 1..Len(entries) : rows[i].term = entries[i].term /\ rows[i].value.json = entries[i].value
    BY <1>a
  <1>d. n \in Nat /\ LogTable(d.raft_log, [term : Term, value : Json])
        /\ d.raft_log \in [0..(n - 1) -> [term : Term, value : Json]]
    BY DEF DuckdbOK, LogTable, Contiguous
  <1> HIDE DEF rows, u
  <1>e. rows \in Seq([term : Term, value : Json]) /\ Len(rows) = Len(entries)
    BY <1>a, <1>b, FunctionIsSequence, Zenon
  <1>f. Appended(t, d.raft_log, rows, [term : Term, value : Json])
    BY <1>d, <1>e, AppendRowsAtEnd, Zenon
  <1>g. /\ Contiguous(t)
        /\ t \in [DOMAIN t -> [term : Term, value : Json]]
        /\ Cardinality(DOMAIN t) = n + Len(entries)
        /\ \A k \in 0..(n - 1) : t[k] = d.raft_log[k]
        /\ \A i \in 1..Len(entries) : t[n + i - 1] = rows[i]
    <2> HIDE DEF t
    <2> QED BY <1>e, <1>f DEF Appended, LogTable
  <1> HIDE DEF t, n
  <1>2. DuckdbLog(t) = DuckdbLog(d.raft_log) \o entries
    <2> DEFINE a == DuckdbLog(d.raft_log)
               c == DuckdbLog(t)
    <2>0. DOMAIN t = 0..(Cardinality(DOMAIN t) - 1) /\ n \in Nat
      BY <1>d, <1>g, Zenon DEF Contiguous
    <2>1. DOMAIN t = 0..(n + Len(entries) - 1)
      BY <1>g, <2>0
    <2>2. a = [i \in 1..n |-> [term |-> d.raft_log[i - 1].term, value |-> d.raft_log[i - 1].value.json]]
      BY DEF DuckdbLog, n
    <2>3. c = [i \in 1..(n + Len(entries)) |-> [term |-> t[i - 1].term, value |-> t[i - 1].value.json]]
      BY <1>g DEF DuckdbLog
    <2> HIDE DEF a, c
    <2>4. a \in [1..n -> LogEntry]
      <3>1. \A i \in 1..n : d.raft_log[i - 1] \in [term : Term, value : Json]
        BY <1>d
      <3> QED BY <2>2, <3>1 DEF LogEntry, Json
    <2>5. c \in [1..(n + Len(entries)) -> LogEntry]
      BY <1>a, <1>d, <1>g, <2>1, <2>3 DEF LogEntry, Json
    <2>6. \A i \in 1..n : c[i] = a[i]
      <3> SUFFICES ASSUME NEW i \in 1..n PROVE c[i] = a[i]
        OBVIOUS
      <3>1. i \in 1..(n + Len(entries)) /\ i - 1 \in 0..(n - 1)
        BY <1>a, <1>d
      <3>2. t[i - 1] = d.raft_log[i - 1]
        BY <1>g, <3>1
      <3> QED BY <2>2, <2>3, <3>1, <3>2
    <2>7. \A i \in 1..Len(entries) : c[n + i] = entries[i]
      <3> SUFFICES ASSUME NEW i \in 1..Len(entries) PROVE c[n + i] = entries[i]
        OBVIOUS
      <3>1. n + i \in 1..(n + Len(entries)) /\ (n + i) - 1 = n + i - 1
        BY <1>a, <1>d
      <3>2. c[n + i] = [term |-> t[n + i - 1].term, value |-> t[n + i - 1].value.json]
        BY <2>3, <3>1
      <3>3. t[n + i - 1] = rows[i]
        BY <1>g
      <3> QED BY <1>a, <1>c, <3>2, <3>3
    <2>8. Follows(c, a, n, entries, LogEntry)
      BY <2>0, <2>4, <2>5, <2>6, <2>7, Zenon DEF Follows
    <2> QED BY <2>8, FollowsIsConcat, Zenon DEF a, c
  <1>3. u = [tables |-> d.tables, paxos_decisions |-> d.paxos_decisions,
             raft_decisions |-> d.raft_decisions, raft_log |-> t,
             raft_meta |-> d.raft_meta]
    BY <1>1 DEF DuckdbOK
  <1>4. DuckdbOK(u)
    BY <1>g, <1>3 DEF DuckdbOK
  <1>5. DuckdbContents(u) = [DuckdbContents(d) EXCEPT !.log = DuckdbContents(d).log \o entries]
    <2> DEFINE new == DuckdbLog(d.raft_log) \o entries
    <2>1. DuckdbContents(d).log \o entries = new
      BY DEF DuckdbContents
    <2>2. DuckdbLog(t) = new
      BY <1>2
    <2> HIDE DEF new
    <2>3. DuckdbContents(u) = [DuckdbContents(d) EXCEPT !.log = new]
      BY <1>3, <2>2 DEF DuckdbContents
    <2> QED BY <2>1, <2>3
  <1> QED BY <1>3, <1>4, <1>5 DEF u

\* The delete of truncate_log_from.
LEMMA DuckdbTruncate ==
    ASSUME NEW d, DuckdbOK(d), "raft_log" \in d.tables, NEW index \in Nat
    PROVE  LET u == Duckdb!truncate_log_from(d, index)
               log == DuckdbContents(d).log IN
           /\ DuckdbOK(u) /\ u.tables = d.tables /\ DOMAIN u.raft_meta = DOMAIN d.raft_meta
           /\ DuckdbContents(u) = [DuckdbContents(d) EXCEPT !.log =
                                    IF index < Len(log) THEN SubSeq(log, 1, index) ELSE log]
  <1> DEFINE u == Duckdb!truncate_log_from(d, index)
             t == RowsBelow(d.raft_log, index)
             n == Cardinality(DOMAIN d.raft_log)
             m == Cardinality(DOMAIN t)
             log == DuckdbLog(d.raft_log)
             new == IF index < Len(log) THEN SubSeq(log, 1, index) ELSE log
  <1>1. u = [d EXCEPT !.raft_log = t]
    BY DEF Duckdb!truncate_log_from, Duckdb!RowsBelow, RowsBelow
  <1>a. n \in Nat /\ LogTable(d.raft_log, [term : Term, value : Json])
        /\ d.raft_log \in [0..(n - 1) -> [term : Term, value : Json]]
    BY DEF DuckdbOK, LogTable, Contiguous
  <1>b. Truncated(t, d.raft_log, index, [term : Term, value : Json])
    BY <1>a, RowsBelowIsPrefix, Zenon
  <1> HIDE DEF t, u
  <1>c. /\ Contiguous(t)
        /\ t \in [DOMAIN t -> [term : Term, value : Json]]
        /\ m = IF index < n THEN index ELSE n
        /\ \A k \in DOMAIN t : t[k] = d.raft_log[k]
        /\ DOMAIN t = 0..(m - 1)
    BY <1>b DEF Truncated, LogTable, Contiguous
  <1> HIDE DEF n, m
  <1>2. DuckdbLog(t) = new
    <2>1. log = [i \in 1..n |-> [term |-> d.raft_log[i - 1].term, value |-> d.raft_log[i - 1].value.json]]
      BY DEF DuckdbLog, n
    <2>2. DuckdbLog(t) = [i \in 1..m |-> [term |-> t[i - 1].term, value |-> t[i - 1].value.json]]
      BY DEF DuckdbLog, m
    <2> HIDE DEF log
    <2>3. log \in [1..n -> LogEntry]
      <3>1. \A i \in 1..n : d.raft_log[i - 1] \in [term : Term, value : Json]
        BY <1>a
      <3> QED BY <2>1, <3>1 DEF LogEntry, Json
    <2>4. log \in Seq(LogEntry) /\ Len(log) = n
      BY <1>a, <2>3, FunctionIsSequence, Zenon
    <2>5. m \in Nat /\ m <= n
      BY <1>a, <1>c
    <2>6. \A i \in 1..m : DuckdbLog(t)[i] = log[i]
      <3> SUFFICES ASSUME NEW i \in 1..m PROVE DuckdbLog(t)[i] = log[i]
        OBVIOUS
      <3>1. i \in 1..n /\ i - 1 \in DOMAIN t
        BY <1>a, <1>c, <2>5
      <3> QED BY <1>c, <2>1, <2>2, <3>1
    <2>7. DuckdbLog(t) = [i \in 1..m |-> log[i]]
      BY <2>2, <2>6
    <2>8. CASE index < n
      <3>1. m = index /\ new = SubSeq(log, 1, index)
        BY <1>c, <2>4, <2>8
      <3>2. SubSeq(log, 1, index) = [i \in 1..index |-> log[i]]
        BY <2>4, <2>8, <1>a
      <3> QED BY <2>7, <3>1, <3>2
    <2>9. CASE ~(index < n)
      <3>1. m = n /\ new = log
        BY <1>c, <2>4, <2>9
      <3> QED BY <2>3, <2>7, <3>1
    <2> QED BY <2>8, <2>9
  <1> HIDE DEF new
  <1>3. u = [tables |-> d.tables, paxos_decisions |-> d.paxos_decisions,
             raft_decisions |-> d.raft_decisions, raft_log |-> t,
             raft_meta |-> d.raft_meta]
    BY <1>1 DEF DuckdbOK
  <1>4. DuckdbOK(u)
    BY <1>c, <1>3 DEF DuckdbOK
  <1>5. DuckdbContents(u) = [DuckdbContents(d) EXCEPT !.log = new]
    BY <1>2, <1>3 DEF DuckdbContents
  <1>6. DuckdbContents(d).log = log
    BY DEF DuckdbContents
  <1> QED BY <1>3, <1>4, <1>5, <1>6 DEF u, new

\* Every write leaves a good file, creates no table and has its effect.
LEMMA DuckdbWritten ==
    ASSUME NEW d, DuckdbOK(d), NEW op, op \in PaxosOp \/ op \in RaftOp, DuckdbReady(d, op)
    PROVE  LET u == Duckdb!Written(d, op) IN
           /\ DuckdbOK(u) /\ u.tables = d.tables /\ DOMAIN u.raft_meta = DOMAIN d.raft_meta
           /\ DuckdbContents(u) = Effect(DuckdbContents(d), op)
  <1>1. CASE op \in PaxosOp
    <2>1. op.type = "paxos_save_decision" /\ op.arg.value \in Value
          /\ "paxos_decisions" \in d.tables
      BY <1>1 DEF PaxosOp, Decision, DuckdbReady
    <2> QED BY <2>1, DuckdbPaxosDecision DEF Duckdb!Written, Effect
  <1>2. CASE op \in [type : {"save_decision"}, arg : Decision]
    <2>1. op.type = "save_decision" /\ op.arg.value \in Value /\ "raft_decisions" \in d.tables
      BY <1>2 DEF RaftOp, Decision, DuckdbReady
    <2> QED BY <2>1, DuckdbDecision DEF Duckdb!Written, Effect
  <1>3. CASE op \in [type : {"save_term"}, arg : Term]
    <2>1. op.type = "save_term" /\ op.arg \in Term /\ 0 \in DOMAIN d.raft_meta
      BY <1>3 DEF RaftOp, DuckdbReady
    <2> QED BY <2>1, DuckdbTerm DEF Duckdb!Written, Effect
  <1>4. CASE op \in [type : {"save_voted_for"}, arg : NodeId \cup {Nil}]
    <2>1. op.type = "save_voted_for" /\ op.arg \in NodeId \cup {Nil}
          /\ 0 \in DOMAIN d.raft_meta
      BY <1>4 DEF RaftOp, DuckdbReady
    <2> QED BY <2>1, DuckdbVotedFor DEF Duckdb!Written, Effect
  <1>5. CASE op \in [type : {"append_log"}, arg : Batch]
    <2>1. op.type = "append_log" /\ op.arg \in Batch /\ "raft_log" \in d.tables
      BY <1>5 DEF RaftOp, DuckdbReady
    <2>2. op.arg \in Seq(LogEntry)
      BY <2>1, StorageAssumption DEF Batch
    <2> QED BY <2>1, <2>2, DuckdbAppend DEF Duckdb!Written, Effect
  <1>6. CASE op \in [type : {"truncate_log_from"}, arg : Index]
    <2>1. op.type = "truncate_log_from" /\ op.arg \in Nat /\ "raft_log" \in d.tables
      BY <1>6, StorageAssumption DEF RaftOp, DuckdbReady, Index
    <2> QED BY <2>1, DuckdbTruncate DEF Duckdb!Written, Effect
  <1>7. CASE op \in [type : {"save_commit_index"}, arg : Index \cup {Nil}]
    <2>1. op.type = "save_commit_index" /\ op.arg \in Index \cup {Nil}
          /\ 0 \in DOMAIN d.raft_meta
      BY <1>7 DEF RaftOp, DuckdbReady
    <2> QED BY <2>1, DuckdbCommitIndex DEF Duckdb!Written, Effect
  <1> QED BY <1>1, <1>2, <1>3, <1>4, <1>5, <1>6, <1>7 DEF RaftOp

\* A CREATE TABLE of DuckDB's schema leaves a good file with the same contents.
LEMMA DuckdbCreated ==
    ASSUME NEW d, DuckdbOK(d), NEW table
    PROVE  LET u == Duckdb!Created(d, table) IN
           /\ DuckdbOK(u)
           /\ DuckdbContents(u) = DuckdbContents(d)
           /\ u.tables = d.tables \cup {table}
           /\ u.raft_meta = d.raft_meta
  <1> DEFINE u == Duckdb!Created(d, table)
  <1>1. u = [d EXCEPT !.tables = d.tables \cup {table}]
    BY DEF Duckdb!Created
  <1> HIDE DEF u
  <1>2. u = [tables |-> d.tables \cup {table}, paxos_decisions |-> d.paxos_decisions,
             raft_decisions |-> d.raft_decisions, raft_log |-> d.raft_log,
             raft_meta |-> d.raft_meta]
    BY <1>1 DEF DuckdbOK
  <1>3. DuckdbOK(u)
    BY <1>2 DEF DuckdbOK
  <1>4. DuckdbContents(u) = DuckdbContents(d)
    BY <1>2 DEF DuckdbContents
  <1> QED BY <1>2, <1>3, <1>4 DEF u

\* The seed inserts a row that reads as no row does, or nothing.
LEMMA DuckdbSeeded ==
    ASSUME NEW d, DuckdbOK(d), "raft_meta" \in d.tables
    PROVE  LET u == Duckdb!RAFT_META_SEED(d) IN
           /\ DuckdbOK(u)
           /\ DuckdbContents(u) = DuckdbContents(d)
           /\ u.tables = d.tables
           /\ 0 \in DOMAIN u.raft_meta
  <1> DEFINE u == Duckdb!RAFT_META_SEED(d)
             row == [term |-> 0, voted_for_name |-> Nil, voted_for_incarnation |-> Nil,
                     commit_index |-> Nil]
             t == [id \in {0} |-> row]
  <1>1. CASE 0 \in DOMAIN d.raft_meta
    <2>1. u = d
      BY <1>1 DEF Duckdb!RAFT_META_SEED, DuckdbOK
    <2> QED BY <1>1, <2>1
  <1>2. CASE 0 \notin DOMAIN d.raft_meta
    <2>1. DOMAIN d.raft_meta = {}
      BY <1>2 DEF DuckdbOK
    <2>2. u = [d EXCEPT !.raft_meta = t]
      BY <1>2, <2>1 DEF Duckdb!RAFT_META_SEED, Duckdb!Put
    <2>3. row \in MetaRow
      BY DEF MetaRow
    <2>4. DOMAIN t = {0} /\ t \in [DOMAIN t -> MetaRow]
      BY <2>3
    <2>5. /\ MetaTerm(t) = MetaTerm(d.raft_meta)
          /\ MetaVote(t) = MetaVote(d.raft_meta)
          /\ MetaCommit(t) = MetaCommit(d.raft_meta)
      BY <1>2 DEF MetaTerm, MetaVote, MetaCommit
    <2> HIDE DEF u, t
    <2>6. u = [tables |-> d.tables, paxos_decisions |-> d.paxos_decisions,
               raft_decisions |-> d.raft_decisions, raft_log |-> d.raft_log,
               raft_meta |-> t]
      BY <2>2 DEF DuckdbOK
    <2>7. DuckdbOK(u)
      BY <2>4, <2>6 DEF DuckdbOK
    <2>8. DuckdbContents(u) = DuckdbContents(d)
      BY <2>5, <2>6 DEF DuckdbContents
    <2> QED BY <2>4, <2>6, <2>7, <2>8 DEF u
  <1> QED BY <1>1, <1>2

=============================================================================
