---------------------------- MODULE DuckdbTables ----------------------------
(***************************************************************************)
(* The tables of daccord/src/duckdb_storage.rs.  The term, the two columns *)
(* of the vote and the commit index are one row of raft_meta, with id 0,   *)
(* that opening the storage inserts.  An operator on a database d is the   *)
(* effect of one statement, or of the one explicit transaction.            *)
(***************************************************************************)
EXTENDS StorageOps

PAXOS_SCHEMA == <<"paxos_decisions">>
RAFT_SCHEMA == <<"raft_decisions", "raft_meta", "raft_log">>

EmptyFile ==
    [tables |-> {}, paxos_decisions |-> EmptyTable, raft_decisions |-> EmptyTable,
     raft_log |-> EmptyTable, raft_meta |-> EmptyTable]

\* CREATE TABLE IF NOT EXISTS.
Created(d, table) == [d EXCEPT !.tables = @ \cup {table}]

\* Mutant: the row is inserted over the one that is there.
SeedOverwrites(d) ==
    [d EXCEPT !.raft_meta = Put(@, 0, [term |-> 0, voted_for_name |-> Nil,
                                       voted_for_incarnation |-> Nil, commit_index |-> Nil])]

\* The row is inserted unless there is one.
RAFT_META_SEED(d) ==
    [d EXCEPT !.raft_meta =
        IF 0 \in DOMAIN @ THEN @
        ELSE Put(@, 0, [term |-> 0, voted_for_name |-> Nil, voted_for_incarnation |-> Nil,
                        commit_index |-> Nil])]

\* open: the statements, each committed by itself.
from_connection(protocol) ==
    IF protocol = "paxos" THEN PAXOS_SCHEMA ELSE Append(RAFT_SCHEMA, "seed")

Executed(d, statement) ==
    IF statement = "seed" THEN RAFT_META_SEED(d) ELSE Created(d, statement)

paxos_save_decision(d, slot, value) ==
    [d EXCEPT !.paxos_decisions = Put(@, slot, to_json(value))]

save_decision(d, slot, value) ==
    [d EXCEPT !.raft_decisions = Put(@, slot, to_json(value))]

\* UPDATE raft_meta ... WHERE id = 0: without the row nothing is written, and
\* the statement succeeds.
save_term(d, term) ==
    [d EXCEPT !.raft_meta = [id \in DOMAIN @ |->
        IF id = 0 THEN [d.raft_meta[id] EXCEPT !.term = term] ELSE d.raft_meta[id]]]

\* Mutant: the two columns are saved by statements of their own, and the second is
\* not reached.
VoteHalfSaved(d, voted_for) ==
    [d EXCEPT !.raft_meta = [id \in DOMAIN @ |->
        IF id = 0
        THEN [d.raft_meta[id] EXCEPT
                 !.voted_for_name = IF voted_for = Nil THEN Nil ELSE voted_for.name]
        ELSE d.raft_meta[id]]]

save_voted_for(d, voted_for) ==
    [d EXCEPT !.raft_meta = [id \in DOMAIN @ |->
        IF id = 0
        THEN [d.raft_meta[id] EXCEPT
                 !.voted_for_name = IF voted_for = Nil THEN Nil ELSE voted_for.name,
                 !.voted_for_incarnation = IF voted_for = Nil THEN Nil
                                           ELSE voted_for.incarnation]
        ELSE d.raft_meta[id]]]

append_log(d, entries) ==
    [d EXCEPT !.raft_log =
        AppendRows(@, [i \in 1..Len(entries) |->
                          [term |-> entries[i].term, value |-> to_json(entries[i].value)]])]

truncate_log_from(d, index) == [d EXCEPT !.raft_log = RowsBelow(@, index)]

save_commit_index(d, index) ==
    [d EXCEPT !.raft_meta = [id \in DOMAIN @ |->
        IF id = 0 THEN [d.raft_meta[id] EXCEPT !.commit_index = index] ELSE d.raft_meta[id]]]

\* The effect of a write.
Written(d, op) ==
    CASE op.type = "paxos_save_decision" -> paxos_save_decision(d, op.arg.slot, op.arg.value)
      [] op.type = "save_decision" -> save_decision(d, op.arg.slot, op.arg.value)
      [] op.type = "save_term" -> save_term(d, op.arg)
      [] op.type = "save_voted_for" -> save_voted_for(d, op.arg)
      [] op.type = "append_log" -> append_log(d, op.arg)
      [] op.type = "truncate_log_from" -> truncate_log_from(d, op.arg)
      [] op.type = "save_commit_index" -> save_commit_index(d, op.arg)

-----------------------------------------------------------------------------
(* Loads.  A query fails on a missing table, and on a missing row 0.       *)

Selected(d, table, x) == IF table \in d.tables THEN Ok(x) ELSE Err

paxos_load_decisions(d) ==
    Selected(d, "paxos_decisions",
             [s \in DOMAIN d.paxos_decisions |-> from_json(d.paxos_decisions[s])])

load_decisions(d) ==
    Selected(d, "raft_decisions",
             [s \in DOMAIN d.raft_decisions |-> from_json(d.raft_decisions[s])])

HasRow(d) == "raft_meta" \in d.tables /\ 0 \in DOMAIN d.raft_meta

load_term(d) == IF HasRow(d) THEN Ok(d.raft_meta[0].term) ELSE Err

\* One column without the other is an error: a forgotten vote could be cast again.
load_voted_for(d) ==
    LET name == d.raft_meta[0].voted_for_name
        inc == d.raft_meta[0].voted_for_incarnation
    IN  CASE ~HasRow(d) -> Err
          [] HasRow(d) /\ name # Nil /\ inc # Nil -> Ok([name |-> name, incarnation |-> inc])
          [] HasRow(d) /\ name = Nil /\ inc = Nil -> Ok(Nil)
          [] OTHER -> Err

load_log(d) ==
    LET rows == RowsInOrder(d.raft_log)
    IN  Selected(d, "raft_log",
                 [i \in 1..Len(rows) |->
                     [term |-> rows[i].term, value |-> from_json(rows[i].value)]])

load_commit_index(d) == IF HasRow(d) THEN Ok(d.raft_meta[0].commit_index) ELSE Err

=============================================================================
