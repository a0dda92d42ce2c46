--------------------------- MODULE DurableStorage ---------------------------
(***************************************************************************)
(* A database file and the storages that are opened on it, one after the   *)
(* other: the backends of redb_storage.rs and duckdb_storage.rs.  A write  *)
(* is a closure on the blocking thread pool, and the node waits for it.  A *)
(* node that is aborted meanwhile leaves the closure running: it keeps the *)
(* database open, so the file can be opened again only when it is done.    *)
(* The engines make a transaction or a statement atomic and durable.       *)
(***************************************************************************)
EXTENDS StorageOps

Redb == INSTANCE RedbTables
Duckdb == INSTANCE DuckdbTables

VARIABLES
    backend,   \* "redb" or "duckdb", for the whole behaviour
    db,        \* the contents of the file
    handle,    \* "closed", or the protocol whose storage is open
    opening,   \* the statements that opening it has still to execute
    task       \* the write on the thread pool, or NoOp

vars == <<backend, db, handle, opening, task>>

Init ==
    /\ backend \in {"redb", "duckdb"}
    /\ db = IF backend = "redb" THEN Redb!EmptyFile ELSE Duckdb!EmptyFile
    /\ handle = "closed"
    /\ opening = <<>>
    /\ task = NoOp

\* A node opens the file for its protocol.
open(protocol) ==
    /\ handle = "closed"
    /\ task = NoOp
    /\ handle' = protocol
    /\ opening' = IF backend = "redb" THEN <<protocol>> ELSE Duckdb!from_connection(protocol)
    /\ UNCHANGED <<backend, db, task>>

\* The next statement, or redb's only transaction, of opening it.
prepare ==
    /\ opening # <<>>
    /\ db' = IF backend = "redb" THEN Redb!from_database(db, Head(opening))
             ELSE Duckdb!Executed(db, Head(opening))
    /\ opening' = Tail(opening)
    /\ UNCHANGED <<backend, handle, task>>

\* Bound: the log does not outgrow MaxLog.
Fits(op) ==
    op.type = "append_log" => Cardinality(DOMAIN db.raft_log) + Len(op.arg) <= MaxLog

\* The node calls one of the writes.
run_blocking(op) ==
    /\ handle # "closed"
    /\ opening = <<>>
    /\ task = NoOp
    /\ op \in IF handle = "paxos" THEN PaxosOp ELSE RaftOp
    /\ Fits(op)
    /\ task' = op
    /\ UNCHANGED <<backend, db, handle, opening>>

\* The closure commits; a caller that still waits gets Ok.
commit ==
    /\ task # NoOp
    /\ db' = IF backend = "redb" THEN Redb!Written(db, task) ELSE Duckdb!Written(db, task)
    /\ task' = NoOp
    /\ UNCHANGED <<backend, handle, opening>>

\* The closure fails and its transaction is rolled back; Node::run returns the
\* error, and its storage is dropped.
fail ==
    /\ task # NoOp
    /\ task' = NoOp
    /\ handle' = "closed"
    /\ UNCHANGED <<backend, db, opening>>

\* The node is dropped, perhaps while a closure runs.
abort ==
    /\ handle # "closed"
    /\ opening = <<>>
    /\ handle' = "closed"
    /\ UNCHANGED <<backend, db, opening, task>>

\* The process dies: what was not committed is gone.
Crash ==
    /\ handle # "closed" \/ task # NoOp
    /\ handle' = "closed"
    /\ opening' = <<>>
    /\ task' = NoOp
    /\ UNCHANGED <<backend, db>>

Next ==
    \/ \E protocol \in {"paxos", "raft"} : open(protocol)
    \/ prepare
    \/ \E op \in PaxosOp \cup RaftOp : run_blocking(op)
    \/ commit
    \/ fail
    \/ abort
    \/ Crash

Spec == Init /\ [][Next]_vars

-----------------------------------------------------------------------------
(* Properties.                                                             *)

\* What each load returns.
Loads ==
    IF backend = "redb"
    THEN [paxos_decisions |-> Redb!paxos_load_decisions(db),
          decisions |-> Redb!load_decisions(db), term |-> Redb!load_term(db),
          voted_for |-> Redb!load_voted_for(db), log |-> Redb!load_log(db),
          commit_index |-> Redb!load_commit_index(db)]
    ELSE [paxos_decisions |-> Duckdb!paxos_load_decisions(db),
          decisions |-> Duckdb!load_decisions(db), term |-> Duckdb!load_term(db),
          voted_for |-> Duckdb!load_voted_for(db), log |-> Duckdb!load_log(db),
          commit_index |-> Duckdb!load_commit_index(db)]

\* A storage that is open loads everything its protocol asks for: every table and
\* the meta row are there although opening it may have been cut short before, and
\* the vote is never half written.
LoadsSucceed ==
    handle # "closed" /\ opening = <<>> =>
        \A f \in IF handle = "paxos" THEN {"paxos_decisions"}
                 ELSE {"decisions", "term", "voted_for", "log", "commit_index"} :
            Loads[f].ok

\* The keys of the log are 0, 1, 2, ...: load_log, which does not look at the
\* keys, returns each entry at the index it was stored under.
LogContiguous == DOMAIN db.raft_log = 0..(Cardinality(DOMAIN db.raft_log) - 1)

\* What is stored: what a load returns, and nothing as long as it would fail.
Stored(f, default) == IF Loads[f].ok THEN Loads[f].value ELSE default

Contract == INSTANCE StorageContract WITH
    request <- task,
    paxos_decisions <- Stored("paxos_decisions", EmptyTable),
    decisions <- Stored("decisions", EmptyTable),
    term <- Stored("term", 0),
    voted_for <- Stored("voted_for", Nil),
    log <- Stored("log", <<>>),
    commit_index <- Stored("commit_index", Nil)

\* The backends implement the traits: through aborted nodes, failures, crashes,
\* reopening and files cut short, what the loads return changes only by the write
\* that was asked for, as a whole, as the in-memory storage would change.
ImplementsTraits == Contract!Spec

=============================================================================
