----------------------------- MODULE RedbTables -----------------------------
(***************************************************************************)
(* The tables of daccord/src/redb_storage.rs.  An operator on a database d *)
(* is the effect of one transaction on it; redb makes it atomic.  A table  *)
(* exists once its name is in d.tables.                                    *)
(***************************************************************************)
EXTENDS StorageOps

\* The row of a single-row table.
META_KEY == "k"

PaxosTables == {"paxos_decisions"}
RaftTables == {"raft_decisions", "raft_log", "raft_term", "raft_voted_for", "raft_commit_index"}

EmptyFile ==
    [tables |-> {}, paxos_decisions |-> EmptyTable, raft_decisions |-> EmptyTable,
     raft_log |-> EmptyTable, raft_term |-> EmptyTable, raft_voted_for |-> EmptyTable,
     raft_commit_index |-> EmptyTable]

\* open: the tables are opened in one transaction, and created if missing.
from_database(d, protocol) ==
    [d EXCEPT !.tables = @ \cup IF protocol = "paxos" THEN PaxosTables ELSE RaftTables]

paxos_save_decision(d, slot, value) ==
    [d EXCEPT !.paxos_decisions = Put(@, slot, to_json(value))]

save_decision(d, slot, value) ==
    [d EXCEPT !.raft_decisions = Put(@, slot, to_json(value))]

save_term(d, term) == [d EXCEPT !.raft_term = Put(@, META_KEY, term)]

save_voted_for(d, id) ==
    [d EXCEPT !.raft_voted_for = IF id = Nil THEN Remove(@, META_KEY)
                                 ELSE Put(@, META_KEY, <<id.name, id.incarnation>>)]

append_log(d, entries) ==
    [d EXCEPT !.raft_log =
        AppendRows(@, [i \in 1..Len(entries) |-> <<entries[i].term, to_json(entries[i].value)>>])]

truncate_log_from(d, index) == [d EXCEPT !.raft_log = RowsBelow(@, index)]

save_commit_index(d, index) ==
    [d EXCEPT !.raft_commit_index = IF index = Nil THEN Remove(@, META_KEY)
                                    ELSE Put(@, META_KEY, index)]

\* The effect of a write.
Written(d, op) ==
    CASE op.type = "paxos_save_decision" -> paxos_save_decision(d, op.arg.slot, op.arg.value)
      [] op.type = "save_decision" -> save_decision(d, op.arg.slot, op.arg.value)
      [] op.type = "save_term" -> save_term(d, op.arg)
      [] op.type = "save_voted_for" -> save_voted_for(d, op.arg)
      [] op.type = "append_log" -> append_log(d, op.arg)
      [] op.type = "truncate_log_from" -> truncate_log_from(d, op.arg)
      [] op.type = "save_commit_index" -> save_commit_index(d, op.arg)

-----------------------------------------------------------------------------
(* Loads.  Opening a table that does not exist fails.                      *)

Loaded(d, table, x) == IF table \in d.tables THEN Ok(x) ELSE Err

paxos_load_decisions(d) ==
    Loaded(d, "paxos_decisions",
           [s \in DOMAIN d.paxos_decisions |-> from_json(d.paxos_decisions[s])])

load_decisions(d) ==
    Loaded(d, "raft_decisions",
           [s \in DOMAIN d.raft_decisions |-> from_json(d.raft_decisions[s])])

load_term(d) ==
    Loaded(d, "raft_term", IF META_KEY \in DOMAIN d.raft_term THEN d.raft_term[META_KEY] ELSE 0)

load_voted_for(d) ==
    Loaded(d, "raft_voted_for",
           IF META_KEY \in DOMAIN d.raft_voted_for
           THEN [name |-> d.raft_voted_for[META_KEY][1],
                 incarnation |-> d.raft_voted_for[META_KEY][2]]
           ELSE Nil)

load_log(d) ==
    LET rows == RowsInOrder(d.raft_log)
    IN  Loaded(d, "raft_log",
               [i \in 1..Len(rows) |-> [term |-> rows[i][1], value |-> from_json(rows[i][2])]])

load_commit_index(d) ==
    Loaded(d, "raft_commit_index",
           IF META_KEY \in DOMAIN d.raft_commit_index THEN d.raft_commit_index[META_KEY] ELSE Nil)

=============================================================================
