--------------------------- MODULE StorageProofs ----------------------------
(***************************************************************************)
(* Theorems about the durable storages of module DurableStorage, for every *)
(* set of values, names, terms and slots and every length of the log: the  *)
(* loads of an open storage succeed, the keys of the log have no gap, and  *)
(* both backends implement the traits.                                     *)
(***************************************************************************)
EXTENDS RedbProofs, DuckdbProofs

-----------------------------------------------------------------------------
(* The inductive invariant.                                                *)

\* Everything a protocol stores in has been created.
Created(protocol) ==
    IF backend = "redb"
    THEN (IF protocol = "paxos" THEN Redb!PaxosTables ELSE Redb!RaftTables) \subseteq db.tables
    ELSE IF protocol = "paxos" THEN "paxos_decisions" \in db.tables
    ELSE /\ {"raft_decisions", "raft_meta", "raft_log"} \subseteq db.tables
         /\ 0 \in DOMAIN db.raft_meta

\* How far the opening of a DuckDB file has come: the tables of the statements
\* executed so far are there.
OpeningDuckdb ==
    \/ handle = "paxos" /\ opening = <<"paxos_decisions">>
    \/ handle = "raft" /\ opening = <<"raft_decisions", "raft_meta", "raft_log", "seed">>
    \/ /\ handle = "raft" /\ opening = <<"raft_meta", "raft_log", "seed">>
       /\ "raft_decisions" \in db.tables
    \/ /\ handle = "raft" /\ opening = <<"raft_log", "seed">>
       /\ {"raft_decisions", "raft_meta"} \subseteq db.tables
    \/ /\ handle = "raft" /\ opening = <<"seed">>
       /\ {"raft_decisions", "raft_meta", "raft_log"} \subseteq db.tables

\* What every reachable state satisfies.
Inv ==
    /\ backend \in {"redb", "duckdb"}
    /\ handle \in {"closed", "paxos", "raft"}
    /\ backend = "redb" => RedbOK(db)
    /\ backend = "duckdb" => DuckdbOK(db)
    /\ task = NoOp \/ task \in PaxosOp \/ task \in RaftOp
    /\ task \in PaxosOp => Created("paxos")
    /\ task \in RaftOp => Created("raft")
    /\ opening # <<>> =>
           /\ task = NoOp
           /\ backend = "redb" => handle \in {"paxos", "raft"} /\ opening = <<handle>>
           /\ backend = "duckdb" => OpeningDuckdb
    /\ handle # "closed" /\ opening = <<>> => Created(handle)

-----------------------------------------------------------------------------
(* The invariant is inductive.                                             *)

\* A file that was never opened.
LEMMA InitInv == Init => Inv
  <1> SUFFICES ASSUME Init PROVE Inv
    OBVIOUS
  <1> DEFINE none == [k \in {} |-> Nil]
  <1>1. Contiguous(none)
    BY ContiguousSize
  <1>2. \A S : none \in [DOMAIN none -> S]
    OBVIOUS
  <1>3. DOMAIN none = {}
    OBVIOUS
  <1> HIDE DEF none
  <1>4. RedbOK(Redb!EmptyFile)
    <2>1. Redb!EmptyFile =
              [tables |-> {}, paxos_decisions |-> none, raft_decisions |-> none,
               raft_log |-> none, raft_term |-> none, raft_voted_for |-> none,
               raft_commit_index |-> none]
      BY DEF Redb!EmptyFile, Redb!EmptyTable, none
    <2> HIDE DEF Redb!EmptyFile
    <2> QED BY <1>1, <1>2, <1>3, <2>1 DEF RedbOK
  <1>5. DuckdbOK(Duckdb!EmptyFile)
    <2>1. Duckdb!EmptyFile =
              [tables |-> {}, paxos_decisions |-> none, raft_decisions |-> none,
               raft_log |-> none, raft_meta |-> none]
      BY DEF Duckdb!EmptyFile, Duckdb!EmptyTable, none
    <2> HIDE DEF Duckdb!EmptyFile
    <2> QED BY <1>1, <1>2, <1>3, <2>1 DEF DuckdbOK
  <1>6. NoOp \notin PaxosOp /\ NoOp \notin RaftOp
    BY DEF NoOp, PaxosOp, RaftOp
  <1> QED BY <1>4, <1>5, <1>6 DEF Init, Inv

\* NoOp is none of the writes.
LEMMA NoOpIsNoWrite == NoOp \notin PaxosOp /\ NoOp \notin RaftOp
  BY DEF NoOp, PaxosOp, RaftOp

\* The statements of a file that is being opened.
LEMMA PrepareInv ==
    ASSUME Inv, prepare
    PROVE  /\ Inv'
           /\ backend = "redb" => RedbContents(db') = RedbContents(db)
           /\ backend = "duckdb" => DuckdbContents(db') = DuckdbContents(db)
  <1>1. opening # <<>> /\ task = NoOp /\ UNCHANGED <<backend, handle, task>>
        /\ opening' = Tail(opening)
    BY DEF Inv, prepare
  <1>2. CASE backend = "redb"
    <2>1. handle \in {"paxos", "raft"} /\ opening = <<handle>> /\ RedbOK(db)
      BY <1>1, <1>2 DEF Inv
    <2>2. db' = Redb!from_database(db, handle) /\ opening' = <<>>
      BY <1>1, <1>2, <2>1 DEF prepare
    <2>3. /\ RedbOK(db') /\ RedbContents(db') = RedbContents(db)
          /\ db'.tables = db.tables \cup IF handle = "paxos" THEN Redb!PaxosTables
                                         ELSE Redb!RaftTables
      BY <2>1, <2>2, RedbOpened
    <2>4. Created(handle)'
      BY <1>1, <1>2, <2>1, <2>3 DEF Created
    <2> QED BY <1>1, <1>2, <2>1, <2>2, <2>3, <2>4, NoOpIsNoWrite DEF Inv
  <1>3. CASE backend = "duckdb"
    <2>1. OpeningDuckdb /\ DuckdbOK(db) /\ db' = Duckdb!Executed(db, Head(opening))
      BY <1>1, <1>3 DEF Inv, prepare
    <2>2. CASE opening = <<"seed">>
      <3>1. handle = "raft" /\ {"raft_decisions", "raft_meta", "raft_log"} \subseteq db.tables
        BY <2>1, <2>2 DEF OpeningDuckdb
      <3>2. db' = Duckdb!RAFT_META_SEED(db) /\ opening' = <<>>
        BY <1>1, <2>1, <2>2 DEF Duckdb!Executed
      <3>3. /\ DuckdbOK(db') /\ DuckdbContents(db') = DuckdbContents(db)
            /\ db'.tables = db.tables /\ 0 \in DOMAIN db'.raft_meta
        BY <2>1, <3>1, <3>2, DuckdbSeeded
      <3>4. Created(handle)'
        BY <1>1, <1>3, <3>1, <3>3 DEF Created
      <3> QED BY <1>1, <1>3, <3>1, <3>2, <3>3, <3>4, NoOpIsNoWrite DEF Inv
    <2>3. CASE opening # <<"seed">>
      <3>1. Head(opening) # "seed"
        BY <2>1, <2>3 DEF OpeningDuckdb
      <3>2. db' = Duckdb!Created(db, Head(opening))
        BY <2>1, <3>1 DEF Duckdb!Executed
      <3>3. /\ DuckdbOK(db') /\ DuckdbContents(db') = DuckdbContents(db)
            /\ db'.tables = db.tables \cup {Head(opening)}
        BY <2>1, <3>2, DuckdbCreated
      <3>4. \/ handle = "paxos" /\ opening' = <<>> /\ "paxos_decisions" \in db'.tables
            \/ opening' # <<>> /\ OpeningDuckdb'
        <4>1. CASE opening = <<"paxos_decisions">>
          <5>1. handle = "paxos" /\ Head(opening) = "paxos_decisions" /\ opening' = <<>>
            BY <1>1, <2>1, <4>1 DEF OpeningDuckdb
          <5> QED BY <3>3, <5>1
        <4>2. CASE opening = <<"raft_decisions", "raft_meta", "raft_log", "seed">>
          <5>1. /\ handle = "raft" /\ Head(opening) = "raft_decisions"
                /\ opening' = <<"raft_meta", "raft_log", "seed">>
            BY <1>1, <2>1, <4>2 DEF OpeningDuckdb
          <5>2. handle' = "raft" /\ "raft_decisions" \in db'.tables
            BY <1>1, <3>3, <5>1
          <5>3. OpeningDuckdb'
            BY <5>1, <5>2 DEF OpeningDuckdb
          <5>4. opening' # <<>>
            BY <5>1
          <5> QED BY <5>3, <5>4
        <4>3. CASE opening = <<"raft_meta", "raft_log", "seed">>
          <5>1. /\ handle = "raft" /\ Head(opening) = "raft_meta"
                /\ opening' = <<"raft_log", "seed">> /\ "raft_decisions" \in db.tables
            BY <1>1, <2>1, <4>3 DEF OpeningDuckdb
          <5>2. handle' = "raft" /\ {"raft_decisions", "raft_meta"} \subseteq db'.tables
            BY <1>1, <3>3, <5>1
          <5>3. OpeningDuckdb'
            BY <5>1, <5>2 DEF OpeningDuckdb
          <5>4. opening' # <<>>
            BY <5>1
          <5> QED BY <5>3, <5>4
        <4>4. CASE opening = <<"raft_log", "seed">>
          <5>1. /\ handle = "raft" /\ Head(opening) = "raft_log" /\ opening' = <<"seed">>
                /\ {"raft_decisions", "raft_meta"} \subseteq db.tables
            BY <1>1, <2>1, <4>4 DEF OpeningDuckdb
          <5>2. handle' = "raft" /\ {"raft_decisions", "raft_meta", "raft_log"} \subseteq db'.tables
            BY <1>1, <3>3, <5>1
          <5>3. OpeningDuckdb'
            BY <5>1, <5>2 DEF OpeningDuckdb
          <5>4. opening' # <<>>
            BY <5>1
          <5> QED BY <5>3, <5>4
        <4> QED BY <2>1, <2>3, <4>1, <4>2, <4>3, <4>4 DEF OpeningDuckdb
      <3>5. handle = "paxos" /\ opening' = <<>> /\ "paxos_decisions" \in db'.tables
                => Created(handle)'
        BY <1>1, <1>3 DEF Created
      <3>6. handle \in {"paxos", "raft"}
        BY <2>1 DEF OpeningDuckdb
      <3> QED BY <1>1, <1>3, <3>3, <3>4, <3>5, <3>6, NoOpIsNoWrite DEF Inv
    <2> QED BY <2>2, <2>3
  <1> QED BY <1>2, <1>3 DEF Inv

\* The write that commits.
LEMMA CommitInv ==
    ASSUME Inv, commit
    PROVE  /\ Inv'
           /\ backend = "redb" => RedbContents(db') = Effect(RedbContents(db), task)
           /\ backend = "duckdb" => DuckdbContents(db') = Effect(DuckdbContents(db), task)
  <1>1. /\ task \in PaxosOp \/ task \in RaftOp
        /\ opening = <<>> /\ task' = NoOp /\ UNCHANGED <<backend, handle, opening>>
    BY DEF Inv, commit
  <1>2. CASE backend = "redb"
    <2>1. RedbOK(db) /\ RedbReady(db, task) /\ db' = Redb!Written(db, task)
      BY <1>2 DEF Inv, Created, RedbReady, commit
    <2>2. /\ RedbOK(db') /\ db'.tables = db.tables
          /\ RedbContents(db') = Effect(RedbContents(db), task)
      BY <1>1, <2>1, RedbWritten
    <2>3. handle # "closed" => Created(handle)'
      BY <1>1, <1>2, <2>2 DEF Inv, Created
    <2> QED BY <1>1, <1>2, <2>2, <2>3, NoOpIsNoWrite DEF Inv
  <1>3. CASE backend = "duckdb"
    <2>1. DuckdbOK(db) /\ DuckdbReady(db, task) /\ db' = Duckdb!Written(db, task)
      BY <1>3 DEF Inv, Created, DuckdbReady, commit
    <2>2. /\ DuckdbOK(db') /\ db'.tables = db.tables
          /\ DOMAIN db'.raft_meta = DOMAIN db.raft_meta
          /\ DuckdbContents(db') = Effect(DuckdbContents(db), task)
      BY <1>1, <2>1, DuckdbWritten
    <2>3. handle # "closed" => Created(handle)'
      BY <1>1, <1>3, <2>2 DEF Inv, Created
    <2> QED BY <1>1, <1>3, <2>2, <2>3, NoOpIsNoWrite DEF Inv
  <1> QED BY <1>2, <1>3 DEF Inv

\* The other steps leave the file alone.
LEMMA OtherInv ==
    ASSUME Inv,
           \/ \E protocol \in {"paxos", "raft"} : open(protocol)
           \/ \E op \in PaxosOp \cup RaftOp : run_blocking(op)
           \/ fail
           \/ abort
           \/ Crash
           \/ UNCHANGED vars
    PROVE  Inv' /\ UNCHANGED <<backend, db>>
  <1>1. ASSUME NEW protocol \in {"paxos", "raft"}, open(protocol)
        PROVE  Inv' /\ UNCHANGED <<backend, db>>
    <2>1. /\ task = NoOp /\ handle' = protocol /\ UNCHANGED <<backend, db, task>>
          /\ backend = "redb" => opening' = <<protocol>>
          /\ backend = "duckdb" => opening' = Duckdb!from_connection(protocol)
      BY <1>1 DEF open, Inv
    <2>2. opening' # <<>> /\ (backend = "duckdb" => OpeningDuckdb')
      BY <2>1 DEF OpeningDuckdb, Duckdb!from_connection, Duckdb!PAXOS_SCHEMA,
                  Duckdb!RAFT_SCHEMA, Inv
    <2> QED BY <2>1, <2>2, NoOpIsNoWrite DEF Inv
  <1>2. ASSUME NEW op \in PaxosOp \cup RaftOp, run_blocking(op)
        PROVE  Inv' /\ UNCHANGED <<backend, db>>
    <2>1. /\ handle # "closed" /\ opening = <<>> /\ task' = op
          /\ op \in IF handle = "paxos" THEN PaxosOp ELSE RaftOp
          /\ UNCHANGED <<backend, db, handle, opening>>
      BY <1>2 DEF run_blocking
    <2>2. PaxosOp \cap RaftOp = {}
      BY DEF PaxosOp, RaftOp
    <2>3. Created(handle) /\ handle \in {"paxos", "raft"}
      BY <2>1 DEF Inv
    <2>4. (op \in PaxosOp => Created("paxos")') /\ (op \in RaftOp => Created("raft")')
      BY <2>1, <2>2, <2>3 DEF Created
    <2>5. Created(handle)'
      BY <2>1, <2>3 DEF Created
    <2> QED BY <2>1, <2>4, <2>5 DEF Inv
  <1>3. ASSUME fail \/ abort \/ Crash
        PROVE  Inv' /\ UNCHANGED <<backend, db>>
    <2>1. /\ handle' = "closed" /\ opening' = <<>>
          /\ task' = NoOp \/ task' = task
          /\ UNCHANGED <<backend, db>>
      BY <1>3 DEF fail, abort, Crash, Inv
    <2>2. \A protocol : Created(protocol)' <=> Created(protocol)
      BY <2>1 DEF Created
    <2> QED BY <2>1, <2>2, NoOpIsNoWrite DEF Inv
  <1>4. ASSUME UNCHANGED vars
        PROVE  Inv' /\ UNCHANGED <<backend, db>>
    <2>1. \A protocol : Created(protocol)' <=> Created(protocol)
      BY <1>4 DEF Created, vars
    <2>2. Created(handle)' <=> Created(handle)
      BY <1>4 DEF Created, vars
    <2>3. OpeningDuckdb' <=> OpeningDuckdb
      BY <1>4 DEF OpeningDuckdb, vars
    <2> QED BY <1>4, <2>1, <2>2, <2>3 DEF Inv, vars
  <1> QED BY <1>1, <1>2, <1>3, <1>4

\* Every step keeps the invariant.
LEMMA NextInv == Inv /\ [Next]_vars => Inv'
  BY PrepareInv, CommitInv, OtherInv DEF Next

\* The invariant holds in every reachable state.
LEMMA InvAlways == Spec => []Inv
  <1>1. Init => Inv
    BY InitInv
  <1>2. Inv /\ [Next]_vars => Inv'
    BY NextInv
  <1> QED BY <1>1, <1>2, PTL DEF Spec

\* The keys of the stored log are 0, 1, 2, ... in every reachable state, so that
\* load_log, which does not look at them, returns each entry at its index.
THEOREM LogHasNoGap == Spec => []LogContiguous
  <1>1. Inv => LogContiguous
    BY DEF Inv, RedbOK, DuckdbOK, Contiguous, LogContiguous
  <1> QED BY <1>1, InvAlways, PTL

\* Whatever a crash or an aborted node has left of an earlier opening or write,
\* an open storage answers every load of its protocol.
THEOREM LoadsAnswer == Spec => []LoadsSucceed
  <1>1. Inv => LoadsSucceed
    <2> SUFFICES ASSUME Inv, handle # "closed", opening = <<>>,
                        NEW f \in IF handle = "paxos" THEN {"paxos_decisions"}
                                  ELSE {"decisions", "term", "voted_for", "log", "commit_index"}
                 PROVE  Loads[f].ok
      BY DEF LoadsSucceed
    <2>1. Created(handle) /\ handle \in {"paxos", "raft"}
      BY DEF Inv
    <2>2. CASE backend = "redb"
      BY <2>1, <2>2 DEF Created, Redb!PaxosTables, Redb!RaftTables, Loads, Ok, Redb!Ok,
         Redb!Loaded, Redb!paxos_load_decisions, Redb!load_decisions, Redb!load_term,
         Redb!load_voted_for, Redb!load_log, Redb!load_commit_index
    <2>3. CASE backend = "duckdb"
      <3>1. handle = "raft" => Duckdb!HasRow(db) /\ db.raft_meta[0] \in MetaRow
        BY <2>1, <2>3 DEF Created, Duckdb!HasRow, Inv, DuckdbOK
      <3>2. handle = "raft" => Duckdb!load_voted_for(db).ok
        BY <3>1 DEF Duckdb!load_voted_for, Duckdb!Ok, MetaRow
      <3> QED BY <2>1, <2>3, <3>1, <3>2 DEF Created, Loads, Duckdb!Ok, Duckdb!Selected,
              Duckdb!paxos_load_decisions, Duckdb!load_decisions, Duckdb!load_term,
              Duckdb!load_log, Duckdb!load_commit_index
    <2> QED BY <2>2, <2>3 DEF Inv
  <1> QED BY <1>1, InvAlways, PTL

-----------------------------------------------------------------------------
(* The backends implement the traits.                                      *)

\* What the file holds, in the terms of the traits.
Content == IF backend = "redb" THEN RedbContents(db) ELSE DuckdbContents(db)

\* The loads return what the file holds.
Represents ==
    /\ Stored("paxos_decisions", EmptyTable) = Content.paxos_decisions
    /\ Stored("decisions", EmptyTable) = Content.decisions
    /\ Stored("term", 0) = Content.term
    /\ Stored("voted_for", Nil) = Content.voted_for
    /\ Stored("log", <<>>) = Content.log
    /\ Stored("commit_index", Nil) = Content.commit_index

\* An empty table decodes to the empty map.
LEMMA DecodedEmpty ==
    ASSUME NEW t, DOMAIN t = {}
    PROVE  Decoded(t) = EmptyTable
  BY DEF Decoded, EmptyTable

\* redb iterates over the log in the order of its keys.
LEMMA RedbRowsInOrder ==
    ASSUME NEW t, Contiguous(t)
    PROVE  Redb!RowsInOrder(t) = [i \in 1..Cardinality(DOMAIN t) |-> t[i - 1]]
  <1>1. Redb!RowsInOrder(t) = RowsInOrder(t)
    BY Zenon DEF Redb!RowsInOrder, RowsInOrder, Redb!Rank, Rank, Redb!Cardinality, Cardinality
  <1> QED BY <1>1, RowsInOrderOfKeys

\* The loads of redb return what the file holds, table by table.
LEMMA RedbRepresents ==
    ASSUME Inv, backend = "redb"
    PROVE  Represents
  <1> DEFINE c == RedbContents(db)
  <1>1. RedbOK(db) /\ Content = c
    BY DEF Inv, Content
  <1>2. Stored("paxos_decisions", EmptyTable) = Decoded(db.paxos_decisions)
    <2>1. CASE "paxos_decisions" \in db.tables
      BY <2>1 DEF Stored, Loads, Redb!paxos_load_decisions, Redb!Loaded, Redb!Ok, Decoded,
                  Redb!from_json
    <2>2. CASE "paxos_decisions" \notin db.tables
      <3>1. Stored("paxos_decisions", EmptyTable) = EmptyTable
        BY <2>2 DEF Stored, Loads, Redb!paxos_load_decisions, Redb!Loaded, Redb!Err
      <3>2. DOMAIN db.paxos_decisions = {}
        BY <1>1, <2>2 DEF RedbOK
      <3>3. Decoded(db.paxos_decisions) = EmptyTable
        BY <3>2, DecodedEmpty
      <3> QED BY <3>1, <3>3
    <2> QED BY <2>1, <2>2
  <1>3. Stored("decisions", EmptyTable) = Decoded(db.raft_decisions)
    <2>1. CASE "raft_decisions" \in db.tables
      BY <2>1 DEF Stored, Loads, Redb!load_decisions, Redb!Loaded, Redb!Ok, Decoded,
                  Redb!from_json
    <2>2. CASE "raft_decisions" \notin db.tables
      <3>1. Stored("decisions", EmptyTable) = EmptyTable
        BY <2>2 DEF Stored, Loads, Redb!load_decisions, Redb!Loaded, Redb!Err
      <3>2. DOMAIN db.raft_decisions = {}
        BY <1>1, <2>2 DEF RedbOK
      <3>3. Decoded(db.raft_decisions) = EmptyTable
        BY <3>2, DecodedEmpty
      <3> QED BY <3>1, <3>3
    <2> QED BY <2>1, <2>2
  <1>4. Stored("term", 0) = OnlyRow(db.raft_term, 0)
    BY <1>1 DEF RedbOK, Stored, Loads, Redb!load_term, Redb!Loaded, Redb!Ok, Redb!Err,
                OnlyRow, Redb!META_KEY
  <1>5. Stored("voted_for", Nil) = RedbVote(db.raft_voted_for)
    BY <1>1 DEF RedbOK, Stored, Loads, Redb!load_voted_for, Redb!Loaded, Redb!Ok, Redb!Err,
                RedbVote, Redb!META_KEY
  <1>6. Stored("log", <<>>) = RedbLog(db.raft_log)
    <2> DEFINE t == db.raft_log
               n == Cardinality(DOMAIN t)
               rows == Redb!RowsInOrder(t)
    <2>1. Contiguous(t) /\ n \in Nat
      BY <1>1 DEF RedbOK, Contiguous
    <2>2. rows = [i \in 1..n |-> t[i - 1]]
      BY <2>1, RedbRowsInOrder
    <2> DEFINE read == [i \in 1..Len(rows) |->
                           [term |-> rows[i][1], value |-> Redb!from_json(rows[i][2])]]
    <2>3. Redb!load_log(db) = Redb!Loaded(db, "raft_log", read)
      BY DEF Redb!load_log
    <2> HIDE DEF rows
    <2>4. Len(rows) = n
      BY <2>1, <2>2
    <2>5. read = RedbLog(t)
      BY <2>1, <2>2, <2>4 DEF RedbLog, Redb!from_json
    <2> HIDE DEF read
    <2>a. Stored("log", <<>>) = IF Redb!load_log(db).ok THEN Redb!load_log(db).value ELSE <<>>
      BY DEF Stored, Loads
    <2>6. CASE "raft_log" \in db.tables
      <3>1. Redb!load_log(db) = [ok |-> TRUE, value |-> read]
        BY <2>3, <2>6 DEF Redb!Loaded, Redb!Ok
      <3> QED BY <2>5, <2>a, <3>1
    <2>7. CASE "raft_log" \notin db.tables
      <3>1. Stored("log", <<>>) = <<>>
        BY <2>3, <2>7, <2>a DEF Redb!Loaded, Redb!Err
      <3>2. DOMAIN t = {}
        BY <1>1, <2>7 DEF RedbOK
      <3>3. n = 0
        BY <3>2, FS_EmptySet
      <3>4. RedbLog(t) = <<>>
        BY <3>3 DEF RedbLog
      <3> QED BY <3>1, <3>4
    <2> QED BY <2>6, <2>7
  <1>7. Stored("commit_index", Nil) = OnlyRow(db.raft_commit_index, Nil)
    BY <1>1 DEF RedbOK, Stored, Loads, Redb!load_commit_index, Redb!Loaded, Redb!Ok, Redb!Err,
                OnlyRow, Redb!META_KEY
  <1> QED BY <1>1, <1>2, <1>3, <1>4, <1>5, <1>6, <1>7 DEF Represents, RedbContents

\* The query of load_log orders the rows by their index.
LEMMA DuckdbRowsInOrder ==
    ASSUME NEW t, Contiguous(t)
    PROVE  Duckdb!RowsInOrder(t) = [i \in 1..Cardinality(DOMAIN t) |-> t[i - 1]]
  <1>1. Duckdb!RowsInOrder(t) = RowsInOrder(t)
    BY Zenon DEF Duckdb!RowsInOrder, RowsInOrder, Duckdb!Rank, Rank, Duckdb!Cardinality, Cardinality
  <1> QED BY <1>1, RowsInOrderOfKeys

\* The loads of DuckDB return what the file holds, table by table.
LEMMA DuckdbRepresents ==
    ASSUME Inv, backend = "duckdb"
    PROVE  Represents
  <1> DEFINE c == DuckdbContents(db)
  <1>1. DuckdbOK(db) /\ Content = c
    BY DEF Inv, Content
  <1>2. Stored("paxos_decisions", EmptyTable) = Decoded(db.paxos_decisions)
    <2>1. CASE "paxos_decisions" \in db.tables
      BY <2>1 DEF Stored, Loads, Duckdb!paxos_load_decisions, Duckdb!Selected, Duckdb!Ok,
                  Decoded, Duckdb!from_json
    <2>2. CASE "paxos_decisions" \notin db.tables
      <3>1. Stored("paxos_decisions", EmptyTable) = EmptyTable
        BY <2>2 DEF Stored, Loads, Duckdb!paxos_load_decisions, Duckdb!Selected, Duckdb!Err
      <3>2. DOMAIN db.paxos_decisions = {}
        BY <1>1, <2>2 DEF DuckdbOK
      <3>3. Decoded(db.paxos_decisions) = EmptyTable
        BY <3>2, DecodedEmpty
      <3> QED BY <3>1, <3>3
    <2> QED BY <2>1, <2>2
  <1>3. Stored("decisions", EmptyTable) = Decoded(db.raft_decisions)
    <2>1. CASE "raft_decisions" \in db.tables
      BY <2>1 DEF Stored, Loads, Duckdb!load_decisions, Duckdb!Selected, Duckdb!Ok,
                  Decoded, Duckdb!from_json
    <2>2. CASE "raft_decisions" \notin db.tables
      <3>1. Stored("decisions", EmptyTable) = EmptyTable
        BY <2>2 DEF Stored, Loads, Duckdb!load_decisions, Duckdb!Selected, Duckdb!Err
      <3>2. DOMAIN db.raft_decisions = {}
        BY <1>1, <2>2 DEF DuckdbOK
      <3>3. Decoded(db.raft_decisions) = EmptyTable
        BY <3>2, DecodedEmpty
      <3> QED BY <3>1, <3>3
    <2> QED BY <2>1, <2>2
  <1>4. Duckdb!HasRow(db) <=> 0 \in DOMAIN db.raft_meta
    BY <1>1 DEF DuckdbOK, Duckdb!HasRow
  <1>5. 0 \in DOMAIN db.raft_meta => db.raft_meta[0] \in MetaRow
    BY <1>1 DEF DuckdbOK
  <1>6. Stored("term", 0) = MetaTerm(db.raft_meta)
    BY <1>4 DEF Stored, Loads, Duckdb!load_term, Duckdb!Ok, Duckdb!Err, MetaTerm
  <1>7. Stored("voted_for", Nil) = MetaVote(db.raft_meta)
    <2>1. CASE 0 \notin DOMAIN db.raft_meta
      BY <1>4, <2>1 DEF Stored, Loads, Duckdb!load_voted_for, Duckdb!Err, MetaVote
    <2>2. CASE 0 \in DOMAIN db.raft_meta
      BY <1>4, <1>5, <2>2 DEF Stored, Loads, Duckdb!load_voted_for, Duckdb!Ok, MetaVote, MetaRow
    <2> QED BY <2>1, <2>2
  <1>8. Stored("log", <<>>) = DuckdbLog(db.raft_log)
    <2> DEFINE t == db.raft_log
               n == Cardinality(DOMAIN t)
               rows == Duckdb!RowsInOrder(t)
    <2>1. Contiguous(t) /\ n \in Nat
      BY <1>1 DEF DuckdbOK, Contiguous
    <2>2. rows = [i \in 1..n |-> t[i - 1]]
      BY <2>1, DuckdbRowsInOrder
    <2> DEFINE read == [i \in 1..Len(rows) |->
                           [term |-> rows[i].term, value |-> Duckdb!from_json(rows[i].value)]]
    <2>3. Duckdb!load_log(db) = Duckdb!Selected(db, "raft_log", read)
      BY DEF Duckdb!load_log
    <2> HIDE DEF rows
    <2>4. Len(rows) = n
      BY <2>1, <2>2
    <2>5. read = DuckdbLog(t)
      BY <2>1, <2>2, <2>4 DEF DuckdbLog, Duckdb!from_json
    <2> HIDE DEF read
    <2>a. Stored("log", <<>>) = IF Duckdb!load_log(db).ok THEN Duckdb!load_log(db).value ELSE <<>>
      BY DEF Stored, Loads
    <2>6. CASE "raft_log" \in db.tables
      <3>1. Duckdb!load_log(db) = [ok |-> TRUE, value |-> read]
        BY <2>3, <2>6 DEF Duckdb!Selected, Duckdb!Ok
      <3> QED BY <2>5, <2>a, <3>1
    <2>7. CASE "raft_log" \notin db.tables
      <3>1. Stored("log", <<>>) = <<>>
        BY <2>3, <2>7, <2>a DEF Duckdb!Selected, Duckdb!Err
      <3>2. DOMAIN t = {}
        BY <1>1, <2>7 DEF DuckdbOK
      <3>3. n = 0
        BY <3>2, FS_EmptySet
      <3>4. DuckdbLog(t) = <<>>
        BY <3>3 DEF DuckdbLog
      <3> QED BY <3>1, <3>4
    <2> QED BY <2>6, <2>7
  <1>9. Stored("commit_index", Nil) = MetaCommit(db.raft_meta)
    BY <1>4 DEF Stored, Loads, Duckdb!load_commit_index, Duckdb!Ok, Duckdb!Err, MetaCommit
  <1> QED BY <1>1, <1>2, <1>3, <1>6, <1>7, <1>8, <1>9 DEF Represents, DuckdbContents

\* Before and after every step the loads return what the file holds.
LEMMA LoadsRepresent == Inv => Represents
  BY RedbRepresents, DuckdbRepresents DEF Inv

\* The same after a step.
LEMMA NextLoadsRepresent == Inv' => Represents'
  BY LoadsRepresent, PTL

\* A file without tables stores nothing.
LEMMA InitRefines == Init => Contract!Init
  <1> SUFFICES ASSUME Init PROVE Contract!Init
    OBVIOUS
  <1>1. /\ Stored("paxos_decisions", EmptyTable) = EmptyTable
        /\ Stored("decisions", EmptyTable) = EmptyTable
        /\ Stored("term", 0) = 0
        /\ Stored("voted_for", Nil) = Nil
        /\ Stored("log", <<>>) = <<>>
        /\ Stored("commit_index", Nil) = Nil
    <2>1. CASE backend = "redb"
      <3>1. db.tables = {}
        BY <2>1 DEF Init, Redb!EmptyFile
      <3>2. /\ Redb!paxos_load_decisions(db) = Redb!Err
            /\ Redb!load_decisions(db) = Redb!Err /\ Redb!load_term(db) = Redb!Err
            /\ Redb!load_voted_for(db) = Redb!Err /\ Redb!load_log(db) = Redb!Err
            /\ Redb!load_commit_index(db) = Redb!Err
        BY <3>1 DEF Redb!Loaded, Redb!paxos_load_decisions, Redb!load_decisions,
           Redb!load_term, Redb!load_voted_for, Redb!load_log, Redb!load_commit_index
      <3>3. ~Redb!Err.ok
        BY DEF Redb!Err
      <3> QED BY <2>1, <3>2, <3>3 DEF Stored, Loads
    <2>2. CASE backend = "duckdb"
      <3>1. db.tables = {} /\ ~Duckdb!HasRow(db)
        BY <2>2 DEF Init, Duckdb!EmptyFile, Duckdb!HasRow
      <3>2. /\ Duckdb!paxos_load_decisions(db) = Duckdb!Err
            /\ Duckdb!load_decisions(db) = Duckdb!Err /\ Duckdb!load_term(db) = Duckdb!Err
            /\ Duckdb!load_log(db) = Duckdb!Err /\ Duckdb!load_commit_index(db) = Duckdb!Err
        BY <3>1 DEF Duckdb!Selected, Duckdb!paxos_load_decisions, Duckdb!load_decisions,
           Duckdb!load_term, Duckdb!load_log, Duckdb!load_commit_index
      <3>3. Duckdb!load_voted_for(db) = Duckdb!Err
        BY <3>1 DEF Duckdb!load_voted_for
      <3>4. ~Duckdb!Err.ok
        BY DEF Duckdb!Err
      <3> QED BY <2>2, <3>2, <3>3, <3>4 DEF Stored, Loads
    <2> QED BY <2>1, <2>2 DEF Init
  <1> QED BY <1>1 DEF Init, Contract!Init, Contract!NoOp, NoOp, Contract!EmptyTable, EmptyTable

\* What the file holds is all that the loads depend on.
LEMMA SameContent ==
    ASSUME Represents, Represents', Content' = Content
    PROVE  UNCHANGED Contract!contents
  BY DEF Represents, Contract!contents, Contract!EmptyTable, EmptyTable

\* A write that commits is the action of the traits it was asked for.
LEMMA CommitRefines ==
    ASSUME Inv, Represents, Represents', task # NoOp, task' = NoOp,
           Content' = Effect(Content, task)
    PROVE  Contract!Next
  <1>1. task \in PaxosOp \/ task \in RaftOp
    BY DEF Inv
  <1>2. Content = [paxos_decisions |-> Content.paxos_decisions,
                   decisions |-> Content.decisions, term |-> Content.term,
                   voted_for |-> Content.voted_for, log |-> Content.log,
                   commit_index |-> Content.commit_index]
    BY DEF Content, RedbContents, DuckdbContents
  <1>3. CASE task.type = "paxos_save_decision"
    <2>1. Content' = [Content EXCEPT
                        !.paxos_decisions = Put(@, task.arg.slot, task.arg.value)]
      BY <1>3 DEF Effect
    <2>2. Put(Content.paxos_decisions, task.arg.slot, task.arg.value)
              = Contract!Put(Content.paxos_decisions, task.arg.slot, task.arg.value)
      BY DEF Put, Contract!Put
    <2>3. Contract!paxos_save_decision
      BY <1>2, <1>3, <2>1, <2>2 DEF Represents, Contract!paxos_save_decision, Contract!Perform,
         Contract!NoOp, NoOp, Contract!EmptyTable, EmptyTable
    <2> QED BY <2>3 DEF Contract!Next
  <1>4. CASE task.type = "save_decision"
    <2>1. Content' = [Content EXCEPT !.decisions = Put(@, task.arg.slot, task.arg.value)]
      BY <1>4 DEF Effect
    <2>2. Put(Content.decisions, task.arg.slot, task.arg.value)
              = Contract!Put(Content.decisions, task.arg.slot, task.arg.value)
      BY DEF Put, Contract!Put
    <2>3. Contract!save_decision
      BY <1>2, <1>4, <2>1, <2>2 DEF Represents, Contract!save_decision, Contract!Perform,
         Contract!NoOp, NoOp, Contract!EmptyTable, EmptyTable
    <2> QED BY <2>3 DEF Contract!Next
  <1>5. CASE task.type = "save_term"
    <2>1. Content' = [Content EXCEPT !.term = task.arg]
      BY <1>5 DEF Effect
    <2>2. Contract!save_term
      BY <1>2, <1>5, <2>1 DEF Represents, Contract!save_term, Contract!Perform,
         Contract!NoOp, NoOp, Contract!EmptyTable, EmptyTable
    <2> QED BY <2>2 DEF Contract!Next
  <1>6. CASE task.type = "save_voted_for"
    <2>1. Content' = [Content EXCEPT !.voted_for = task.arg]
      BY <1>6 DEF Effect
    <2>2. Contract!save_voted_for
      BY <1>2, <1>6, <2>1 DEF Represents, Contract!save_voted_for, Contract!Perform,
         Contract!NoOp, NoOp, Contract!EmptyTable, EmptyTable
    <2> QED BY <2>2 DEF Contract!Next
  <1>7. CASE task.type = "append_log"
    <2>1. Content' = [Content EXCEPT !.log = @ \o task.arg]
      BY <1>7 DEF Effect
    <2>2. Contract!append_log
      BY <1>2, <1>7, <2>1 DEF Represents, Contract!append_log, Contract!Perform,
         Contract!NoOp, NoOp, Contract!EmptyTable, EmptyTable
    <2> QED BY <2>2 DEF Contract!Next
  <1>8. CASE task.type = "truncate_log_from"
    <2>1. Content' = [Content EXCEPT
                        !.log = IF task.arg < Len(@) THEN SubSeq(@, 1, task.arg) ELSE @]
      BY <1>8 DEF Effect
    <2>2. Contract!truncate_log_from
      BY <1>2, <1>8, <2>1 DEF Represents, Contract!truncate_log_from, Contract!Perform,
         Contract!NoOp, NoOp, Contract!EmptyTable, EmptyTable
    <2> QED BY <2>2 DEF Contract!Next
  <1>9. CASE task.type = "save_commit_index"
    <2>1. Content' = [Content EXCEPT !.commit_index = task.arg]
      BY <1>9 DEF Effect
    <2>2. Contract!save_commit_index
      BY <1>2, <1>9, <2>1 DEF Represents, Contract!save_commit_index, Contract!Perform,
         Contract!NoOp, NoOp, Contract!EmptyTable, EmptyTable
    <2> QED BY <2>2 DEF Contract!Next
  <1> QED BY <1>1, <1>3, <1>4, <1>5, <1>6, <1>7, <1>8, <1>9 DEF PaxosOp, RaftOp

\* Every step of a backend is a step of the traits or leaves what is stored alone.
LEMMA NextRefines ==
    ASSUME Inv, Inv', [Next]_vars
    PROVE  [Contract!Next]_Contract!vars
  <1>1. Represents /\ Represents'
    BY LoadsRepresent, NextLoadsRepresent
  <1>2. UNCHANGED <<backend, db>> => UNCHANGED Contract!contents
    BY <1>1, SameContent DEF Content
  <1>3. ASSUME NEW protocol \in {"paxos", "raft"}, open(protocol)
        PROVE  UNCHANGED Contract!vars
    BY <1>2, <1>3 DEF open, Contract!vars
  <1>4. CASE prepare
    <2>1. Content' = Content /\ task' = task
      BY <1>4, PrepareInv DEF Content, Inv, prepare
    <2> QED BY <1>1, <2>1, SameContent DEF Contract!vars
  <1>5. ASSUME NEW op \in PaxosOp \cup RaftOp, run_blocking(op)
        PROVE  Contract!Next
    <2>1. /\ task = Contract!NoOp /\ task' = op /\ UNCHANGED Contract!contents
          /\ op \in Contract!PaxosOp \cup Contract!RaftOp
      BY <1>2, <1>5 DEF run_blocking, NoOp, Contract!NoOp, PaxosOp, RaftOp, Contract!PaxosOp,
         Contract!RaftOp, Decision, Contract!Decision, NodeId, Contract!NodeId, Batch,
         Contract!Batch, LogEntry, Contract!LogEntry, Index, Contract!Index
    <2> QED BY <2>1 DEF Contract!Next, Contract!Request
  <1>6. CASE commit
    <2>1. Content' = Effect(Content, task) /\ task # NoOp /\ task' = NoOp
      BY <1>6, CommitInv DEF Content, Inv, commit
    <2> QED BY <1>1, <2>1, CommitRefines
  <1>7. CASE fail \/ Crash
    <2>1. task' = NoOp /\ UNCHANGED Contract!contents
      BY <1>2, <1>7 DEF fail, Crash
    <2>2. CASE task = NoOp
      BY <2>1, <2>2 DEF Contract!vars
    <2>3. CASE task # NoOp
      BY <2>1, <2>3 DEF Contract!Next, Contract!Refuse, Contract!NoOp, NoOp
    <2> QED BY <2>2, <2>3
  <1>8. CASE abort
    BY <1>2, <1>8 DEF abort, Contract!vars
  <1>9. CASE UNCHANGED vars
    BY <1>2, <1>9 DEF vars, Contract!vars
  <1> QED BY <1>3, <1>4, <1>5, <1>6, <1>7, <1>8, <1>9 DEF Next

\* Both backends implement the storage traits: whatever is aborted, fails, crashes
\* or is reopened, the loads change only by a write that was asked for, as a whole.
THEOREM BackendsImplementTraits == Spec => ImplementsTraits
  <1>1. Init => Contract!Init
    BY InitRefines
  <1>2. Inv /\ Inv' /\ [Next]_vars => [Contract!Next]_Contract!vars
    BY NextRefines
  <1> QED BY <1>1, <1>2, InvAlways, PTL DEF Spec, ImplementsTraits, Contract!Spec

=============================================================================
