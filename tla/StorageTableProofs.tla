------------------------- MODULE StorageTableProofs -------------------------
(***************************************************************************)
(* What the proofs about the durable storages share: when a file is good,  *)
(* what it holds in the terms of the storage traits, and lemmas about log  *)
(* tables, whose keys are 0, 1, 2, ...                                     *)
(***************************************************************************)
EXTENDS DurableStorage, FiniteSetTheorems, SequenceTheorems, TLAPS

-----------------------------------------------------------------------------
(* Good files.                                                             *)

Json == [json : Value]

\* The keys of a log table are 0, 1, ..., n - 1.
Contiguous(table) ==
    /\ Cardinality(DOMAIN table) \in Nat
    /\ DOMAIN table = 0..(Cardinality(DOMAIN table) - 1)

\* The contents of a redb file: the rows have the types of the table
\* definitions, and what was never created is empty.
RedbOK(d) ==
    /\ d = [tables |-> d.tables, paxos_decisions |-> d.paxos_decisions,
            raft_decisions |-> d.raft_decisions, raft_log |-> d.raft_log,
            raft_term |-> d.raft_term, raft_voted_for |-> d.raft_voted_for,
            raft_commit_index |-> d.raft_commit_index]
    /\ d.paxos_decisions \in [DOMAIN d.paxos_decisions -> Json]
    /\ d.raft_decisions \in [DOMAIN d.raft_decisions -> Json]
    /\ Contiguous(d.raft_log)
    /\ d.raft_log \in [DOMAIN d.raft_log -> Term \X Json]
    /\ d.raft_term \in [DOMAIN d.raft_term -> Term]
    /\ d.raft_voted_for \in [DOMAIN d.raft_voted_for -> Name \X Incarnation]
    /\ d.raft_commit_index \in [DOMAIN d.raft_commit_index -> Index]
    /\ "paxos_decisions" \notin d.tables => DOMAIN d.paxos_decisions = {}
    /\ "raft_decisions" \notin d.tables => DOMAIN d.raft_decisions = {}
    /\ "raft_log" \notin d.tables => DOMAIN d.raft_log = {}
    /\ "raft_term" \notin d.tables => DOMAIN d.raft_term = {}
    /\ "raft_voted_for" \notin d.tables => DOMAIN d.raft_voted_for = {}
    /\ "raft_commit_index" \notin d.tables => DOMAIN d.raft_commit_index = {}

\* The row of raft_meta: the columns of the vote are both set or both NULL.
MetaRow ==
    {row \in [term : Term \cup {0}, voted_for_name : Name \cup {Nil},
              voted_for_incarnation : Incarnation \cup {Nil},
              commit_index : Index \cup {Nil}] :
        row.voted_for_name = Nil <=> row.voted_for_incarnation = Nil}

\* The contents of a DuckDB file.
DuckdbOK(d) ==
    /\ d = [tables |-> d.tables, paxos_decisions |-> d.paxos_decisions,
            raft_decisions |-> d.raft_decisions, raft_log |-> d.raft_log,
            raft_meta |-> d.raft_meta]
    /\ d.paxos_decisions \in [DOMAIN d.paxos_decisions -> Json]
    /\ d.raft_decisions \in [DOMAIN d.raft_decisions -> Json]
    /\ Contiguous(d.raft_log)
    /\ d.raft_log \in [DOMAIN d.raft_log -> [term : Term, value : Json]]
    /\ DOMAIN d.raft_meta \subseteq {0}
    /\ d.raft_meta \in [DOMAIN d.raft_meta -> MetaRow]
    /\ "paxos_decisions" \notin d.tables => DOMAIN d.paxos_decisions = {}
    /\ "raft_decisions" \notin d.tables => DOMAIN d.raft_decisions = {}
    /\ "raft_log" \notin d.tables => DOMAIN d.raft_log = {}
    /\ "raft_meta" \notin d.tables => DOMAIN d.raft_meta = {}

-----------------------------------------------------------------------------
(* Log tables.                                                             *)

\* A table with keys 0 to n - 1 has n rows.
LEMMA ContiguousSize ==
    ASSUME NEW t, NEW n \in Nat, DOMAIN t = 0..(n - 1)
    PROVE  Contiguous(t) /\ Cardinality(DOMAIN t) = n
  <1>1. Cardinality(0..(n - 1)) = n
    BY FS_Interval
  <1> QED BY <1>1 DEF Contiguous

\* append_log numbers the first new row by the number of rows.
LEMMA NextIndexIsSize ==
    ASSUME NEW t, Contiguous(t)
    PROVE  next_index(t) = Cardinality(DOMAIN t)
  <1> DEFINE n == Cardinality(DOMAIN t)
  <1>1. n \in Nat /\ DOMAIN t = 0..(n - 1)
    BY DEF Contiguous
  <1> HIDE DEF n
  <1>2. CASE n = 0
    BY <1>1, <1>2 DEF next_index, n
  <1>3. CASE n # 0
    <2>1. n - 1 \in DOMAIN t /\ \A j \in DOMAIN t : j <= n - 1
      BY <1>1, <1>3
    <2>2. \A k \in DOMAIN t : (\A j \in DOMAIN t : j <= k) => k = n - 1
      BY <1>1, <1>3, <2>1
    <2>3. (CHOOSE k \in DOMAIN t : \A j \in DOMAIN t : j <= k) = n - 1
      BY <2>1, <2>2
    <2>4. DOMAIN t # {}
      BY <1>1, <1>3
    <2> QED BY <1>1, <2>3, <2>4 DEF next_index, n
  <1> QED BY <1>2, <1>3

\* A log table with rows of type R.
LogTable(t, R) == Contiguous(t) /\ t \in [DOMAIN t -> R]

\* Table u is table t with a batch of rows after its own.
Appended(u, t, rows, R) ==
    LET n == Cardinality(DOMAIN t) IN
    /\ LogTable(u, R)
    /\ Cardinality(DOMAIN u) = n + Len(rows)
    /\ \A k \in 0..(n - 1) : u[k] = t[k]
    /\ \A i \in 1..Len(rows) : u[n + i - 1] = rows[i]

\* Appending keeps the keys contiguous and puts row i of the batch at n + i - 1.
LEMMA AppendRowsAtEnd ==
    ASSUME NEW t, NEW R, LogTable(t, R), NEW rows \in Seq(R)
    PROVE  Appended(AppendRows(t, rows), t, rows, R)
  <1> DEFINE n == Cardinality(DOMAIN t)
             new == {n + i - 1 : i \in 1..Len(rows)}
             u == AppendRows(t, rows)
  <1>1. n \in Nat /\ DOMAIN t = 0..(n - 1) /\ next_index(t) = n /\ t \in [DOMAIN t -> R]
    BY NextIndexIsSize DEF LogTable, Contiguous
  <1>2. Len(rows) \in Nat /\ rows \in [1..Len(rows) -> R]
    OBVIOUS
  <1>3. new = n..(n + Len(rows) - 1)
    <2>1. \A k \in n..(n + Len(rows) - 1) : k - n + 1 \in 1..Len(rows) /\ k = n + (k - n + 1) - 1
      BY <1>1, <1>2
    <2>2. n..(n + Len(rows) - 1) \subseteq new
      BY <2>1, Zenon
    <2>3. new \subseteq n..(n + Len(rows) - 1)
      BY <1>1, <1>2
    <2> QED BY <2>2, <2>3
  <1>4. u = [k \in DOMAIN t \cup new |-> IF k \in new THEN rows[k - n + 1] ELSE t[k]]
    BY <1>1 DEF AppendRows
  <1> HIDE DEF new, u, n
  <1>5. DOMAIN u = 0..((n + Len(rows)) - 1)
    BY <1>1, <1>2, <1>3, <1>4
  <1>6. Contiguous(u) /\ Cardinality(DOMAIN u) = n + Len(rows)
    <2>1. n + Len(rows) \in Nat
      BY <1>1, <1>2
    <2> QED BY <2>1, <1>5, ContiguousSize, Zenon
  <1>7. \A k \in 0..(n - 1) : u[k] = t[k]
    BY <1>1, <1>2, <1>3, <1>4
  <1>8. \A i \in 1..Len(rows) : u[n + i - 1] = rows[i]
    BY <1>1, <1>2, <1>3, <1>4
  <1>9. u \in [DOMAIN u -> R]
    BY <1>1, <1>2, <1>3, <1>4
  <1>10. LogTable(u, R)
    BY <1>6, <1>9 DEF LogTable
  <1> QED BY <1>6, <1>7, <1>8, <1>10 DEF Appended, u, n

\* Table u is table t without the rows from index on.
Truncated(u, t, index, R) ==
    LET n == Cardinality(DOMAIN t) IN
    /\ LogTable(u, R)
    /\ Cardinality(DOMAIN u) = IF index < n THEN index ELSE n
    /\ \A k \in DOMAIN u : u[k] = t[k]

\* Truncating keeps the rows below the index, and the keys contiguous.
LEMMA RowsBelowIsPrefix ==
    ASSUME NEW t, NEW R, LogTable(t, R), NEW index \in Nat
    PROVE  Truncated(RowsBelow(t, index), t, index, R)
  <1> DEFINE n == Cardinality(DOMAIN t)
             m == IF index < n THEN index ELSE n
             u == RowsBelow(t, index)
  <1>1. n \in Nat /\ DOMAIN t = 0..(n - 1) /\ t \in [DOMAIN t -> R]
    BY DEF LogTable, Contiguous
  <1>2. u = [k \in {j \in DOMAIN t : j < index} |-> t[k]]
    BY DEF RowsBelow
  <1> HIDE DEF u, n
  <1>3. m \in Nat /\ DOMAIN u = 0..(m - 1)
    BY <1>1, <1>2
  <1>4. Contiguous(u) /\ Cardinality(DOMAIN u) = m
    BY <1>3, ContiguousSize
  <1>5. u \in [DOMAIN u -> R] /\ \A k \in DOMAIN u : u[k] = t[k]
    BY <1>1, <1>2
  <1>6. LogTable(u, R)
    BY <1>4, <1>5 DEF LogTable
  <1> QED BY <1>4, <1>5, <1>6 DEF Truncated, u, n

\* Reading the rows in the order of their keys gives row i - 1 at position i.
LEMMA RowsInOrderOfKeys ==
    ASSUME NEW t, Contiguous(t)
    PROVE  RowsInOrder(t) = [i \in 1..Cardinality(DOMAIN t) |-> t[i - 1]]
  <1> DEFINE n == Cardinality(DOMAIN t)
  <1>1. n \in Nat /\ DOMAIN t = 0..(n - 1)
    BY DEF Contiguous
  <1>2. \A k \in 0..(n - 1) : Rank(t, k) = k
    <2> SUFFICES ASSUME NEW k \in 0..(n - 1) PROVE Rank(t, k) = k
      OBVIOUS
    <2>1. {j \in DOMAIN t : j < k} = 0..(k - 1)
      BY <1>1
    <2>2. Cardinality(0..(k - 1)) = k
      BY <1>1, FS_Interval
    <2> QED BY <2>1, <2>2 DEF Rank
  <1> HIDE DEF n
  <1> DEFINE Nth(i) == CHOOSE k \in DOMAIN t : Rank(t, k) = i - 1
  <1>3. \A i \in 1..n : Nth(i) = i - 1
    <2> SUFFICES ASSUME NEW i \in 1..n PROVE Nth(i) = i - 1
      OBVIOUS
    <2>1. i - 1 \in DOMAIN t /\ Rank(t, i - 1) = i - 1
      BY <1>1, <1>2
    <2>2. \A k \in DOMAIN t : Rank(t, k) = i - 1 => k = i - 1
      BY <1>1, <1>2
    <2> QED BY <2>1, <2>2
  <1>4. RowsInOrder(t) = [i \in 1..n |-> t[Nth(i)]]
    BY Zenon DEF RowsInOrder, n
  <1> HIDE DEF Nth
  <1>5. [i \in 1..n |-> t[Nth(i)]] = [i \in 1..n |-> t[i - 1]]
    BY <1>3, SMT
  <1> QED BY <1>4, <1>5, Zenon DEF n

-----------------------------------------------------------------------------
(* What is stored, in the terms of the traits.                             *)

Decoded(table) == [k \in DOMAIN table |-> table[k].json]

\* The only row of a table of redb, default if there is none.
OnlyRow(table, default) == IF "k" \in DOMAIN table THEN table["k"] ELSE default

RedbVote(table) ==
    IF "k" \in DOMAIN table
    THEN [name |-> table["k"][1], incarnation |-> table["k"][2]] ELSE Nil

RedbLog(table) ==
    [i \in 1..Cardinality(DOMAIN table) |->
        [term |-> table[i - 1][1], value |-> table[i - 1][2].json]]

RedbContents(d) ==
    [paxos_decisions |-> Decoded(d.paxos_decisions),
     decisions |-> Decoded(d.raft_decisions),
     term |-> OnlyRow(d.raft_term, 0),
     voted_for |-> RedbVote(d.raft_voted_for),
     log |-> RedbLog(d.raft_log),
     commit_index |-> OnlyRow(d.raft_commit_index, Nil)]

MetaTerm(table) == IF 0 \in DOMAIN table THEN table[0].term ELSE 0

MetaVote(table) ==
    IF 0 \in DOMAIN table /\ table[0].voted_for_name # Nil
    THEN [name |-> table[0].voted_for_name, incarnation |-> table[0].voted_for_incarnation]
    ELSE Nil

MetaCommit(table) == IF 0 \in DOMAIN table THEN table[0].commit_index ELSE Nil

DuckdbLog(table) ==
    [i \in 1..Cardinality(DOMAIN table) |->
        [term |-> table[i - 1].term, value |-> table[i - 1].value.json]]

DuckdbContents(d) ==
    [paxos_decisions |-> Decoded(d.paxos_decisions),
     decisions |-> Decoded(d.raft_decisions),
     term |-> MetaTerm(d.raft_meta),
     voted_for |-> MetaVote(d.raft_meta),
     log |-> DuckdbLog(d.raft_log),
     commit_index |-> MetaCommit(d.raft_meta)]

\* The effect of a write on contents c.
Effect(c, op) ==
    CASE op.type = "paxos_save_decision" ->
             [c EXCEPT !.paxos_decisions = Put(c.paxos_decisions, op.arg.slot, op.arg.value)]
      [] op.type = "save_decision" ->
             [c EXCEPT !.decisions = Put(c.decisions, op.arg.slot, op.arg.value)]
      [] op.type = "save_term" -> [c EXCEPT !.term = op.arg]
      [] op.type = "save_voted_for" -> [c EXCEPT !.voted_for = op.arg]
      [] op.type = "append_log" -> [c EXCEPT !.log = c.log \o op.arg]
      [] op.type = "truncate_log_from" ->
             [c EXCEPT !.log = IF op.arg < Len(c.log) THEN SubSeq(c.log, 1, op.arg) ELSE c.log]
      [] op.type = "save_commit_index" -> [c EXCEPT !.commit_index = op.arg]

\* A decision that is put into its table is the decision the map gets.
LEMMA DecodedPut ==
    ASSUME NEW t, t \in [DOMAIN t -> Json], NEW k, NEW v \in Value
    PROVE  /\ Decoded(Put(t, k, to_json(v))) = Put(Decoded(t), k, v)
           /\ Put(t, k, to_json(v)) \in [DOMAIN Put(t, k, to_json(v)) -> Json]
  <1> DEFINE u == Put(t, k, to_json(v))
  <1>1. u = [j \in DOMAIN t \cup {k} |-> IF j = k THEN [json |-> v] ELSE t[j]]
    BY DEF Put, to_json
  <1> HIDE DEF u
  <1>2. u \in [DOMAIN u -> Json]
    BY <1>1 DEF Json
  <1>3. Decoded(u) = [j \in DOMAIN t \cup {k} |-> u[j].json]
    BY <1>1 DEF Decoded
  <1>4. \A j \in DOMAIN t \cup {k} : u[j].json = IF j = k THEN v ELSE Decoded(t)[j]
    BY <1>1 DEF Decoded
  <1>5. Put(Decoded(t), k, v) = [j \in DOMAIN t \cup {k} |-> IF j = k THEN v ELSE Decoded(t)[j]]
    BY DEF Put, Decoded
  <1>6. Decoded(u) = Put(Decoded(t), k, v)
    BY <1>3, <1>4, <1>5
  <1> QED BY <1>2, <1>6 DEF u

\* A function on 1..n is a sequence of length n.
LEMMA FunctionIsSequence ==
    ASSUME NEW n \in Nat, NEW S, NEW a \in [1..n -> S]
    PROVE  a \in Seq(S) /\ Len(a) = n
  OBVIOUS

\* Element by element, c is a of length n followed by b.
Follows(c, a, n, b, S) ==
    /\ n \in Nat
    /\ a \in [1..n -> S]
    /\ b \in Seq(S)
    /\ c \in [1..(n + Len(b)) -> S]
    /\ \A i \in 1..n : c[i] = a[i]
    /\ \A i \in 1..Len(b) : c[n + i] = b[i]

\* Two sequences put together element by element are their concatenation.
LEMMA FollowsIsConcat ==
    ASSUME NEW a, NEW b, NEW c, NEW n, NEW S, Follows(c, a, n, b, S)
    PROVE  c = a \o b
  <1> USE DEF Follows
  <1>1. a \in Seq(S) /\ b \in Seq(S) /\ Len(a) = n
    BY FunctionIsSequence
  <1>2. Len(b) \in Nat
    BY <1>1, LenProperties
  <1>3. /\ a \o b \in Seq(S)
        /\ Len(a \o b) = n + Len(b)
        /\ \A i \in 1..(n + Len(b)) : (a \o b)[i] = IF i <= n THEN a[i] ELSE b[i - n]
    BY <1>1, ConcatProperties
  <1>4. n + Len(b) \in Nat
    BY <1>2
  <1>5. \A i \in 1..(n + Len(b)) : c[i] = (a \o b)[i]
    <2> SUFFICES ASSUME NEW i \in 1..(n + Len(b)) PROVE c[i] = (a \o b)[i]
      OBVIOUS
    <2>1. CASE i <= n
      BY <1>2, <1>3, <2>1
    <2>2. CASE ~(i <= n)
      <3>1. i - n \in 1..Len(b) /\ n + (i - n) = i
        BY <1>2, <2>2
      <3>2. c[n + (i - n)] = b[i - n]
        BY <3>1
      <3> QED BY <1>3, <2>2, <3>1, <3>2
    <2> QED BY <2>1, <2>2
  <1>6. c \in Seq(S) /\ Len(c) = n + Len(b)
    BY <1>4, FunctionIsSequence, Zenon
  <1> QED BY <1>3, <1>5, <1>6, SeqEqual

=============================================================================
