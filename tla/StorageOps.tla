----------------------------- MODULE StorageOps -----------------------------
(***************************************************************************)
(* The writes of the PaxosStorage and RaftStorage traits of                *)
(* daccord/src/storage.rs, and the tables the durable backends keep them   *)
(* in.  A table is a function whose domain is the set of its keys.         *)
(***************************************************************************)
EXTENDS Integers, Sequences, FiniteSets

CONSTANTS
    Value,        \* the values that are decided
    Name,         \* the names of nodes
    Incarnation,  \* the incarnations of nodes
    Term,         \* the terms that are saved
    Slot,         \* the slots of decisions
    MaxLog,       \* bound: the length of the stored log
    Nil           \* None in Rust, NULL in SQL

ASSUME StorageAssumption ==
    /\ Term \subseteq Nat /\ Slot \subseteq Nat /\ MaxLog \in Nat
    /\ Nil \notin Name /\ Nil \notin Incarnation

NodeId == [name : Name, incarnation : Incarnation]
LogEntry == [term : Term, value : Value]

\* The slices append_log writes; for an empty one it returns at once.
Batch == UNION {[1..n -> LogEntry] : n \in 1..MaxLog}

Index == 0..MaxLog

Decision == [slot : Slot, value : Value]

PaxosOp == [type : {"paxos_save_decision"}, arg : Decision]

RaftOp ==
    [type : {"save_decision"}, arg : Decision]
    \cup [type : {"save_term"}, arg : Term]
    \cup [type : {"save_voted_for"}, arg : NodeId \cup {Nil}]
    \cup [type : {"append_log"}, arg : Batch]
    \cup [type : {"truncate_log_from"}, arg : Index]
    \cup [type : {"save_commit_index"}, arg : Index \cup {Nil}]

NoOp == [type |-> "none"]

-----------------------------------------------------------------------------
(* Tables.                                                                 *)

EmptyTable == [k \in {} |-> Nil]

\* Insert or overwrite the row of a key.
Put(table, key, row) ==
    [k \in DOMAIN table \cup {key} |-> IF k = key THEN row ELSE table[k]]

Remove(table, key) == [k \in DOMAIN table \ {key} |-> table[k]]

\* The key that follows the greatest one, 0 in an empty table.
next_index(table) ==
    IF DOMAIN table = {} THEN 0
    ELSE (CHOOSE k \in DOMAIN table : \A j \in DOMAIN table : j <= k) + 1

\* The rows appended after the greatest key, in order.
AppendRows(table, rows) ==
    LET next == next_index(table)
        new == {next + i - 1 : i \in 1..Len(rows)}
    IN  [k \in DOMAIN table \cup new |-> IF k \in new THEN rows[k - next + 1] ELSE table[k]]

\* Mutant: only the row at index goes.
RowAtRemoved(table, index) == Remove(table, index)

\* The rows with keys below index.
RowsBelow(table, index) == [k \in {j \in DOMAIN table : j < index} |-> table[k]]

\* How many keys are below k.
Rank(table, k) == Cardinality({j \in DOMAIN table : j < k})

\* The rows in the order of their keys; the keys themselves are not looked at.
RowsInOrder(table) ==
    [i \in 1..Cardinality(DOMAIN table) |->
        table[CHOOSE k \in DOMAIN table : Rank(table, k) = i - 1]]

-----------------------------------------------------------------------------
(* Values travel as JSON text.                                             *)

to_json(v) == [json |-> v]
from_json(text) == text.json

\* Loads answer with a value or fail.
Ok(x) == [ok |-> TRUE, value |-> x]
Err == [ok |-> FALSE]

=============================================================================
