-------------------------- MODULE StorageContract ---------------------------
(***************************************************************************)
(* What the traits PaxosStorage and RaftStorage of daccord/src/storage.rs  *)
(* promise, and what PaxosMemoryStorage and RaftMemoryStorage do: a write  *)
(* takes effect as a whole and stays, or has no effect.  The contents are  *)
(* a term, a vote, a log that is a sequence, a commit index, and a map of  *)
(* decisions for each protocol.                                            *)
(***************************************************************************)
EXTENDS StorageOps

VARIABLES
    request,          \* the write that has been asked for, or NoOp
    paxos_decisions, decisions, term, voted_for, log, commit_index

contents == <<paxos_decisions, decisions, term, voted_for, log, commit_index>>

vars == <<request, contents>>

Init ==
    /\ request = NoOp
    /\ paxos_decisions = EmptyTable
    /\ decisions = EmptyTable
    /\ term = 0
    /\ voted_for = Nil
    /\ log = <<>>
    /\ commit_index = Nil

Request(op) ==
    /\ request = NoOp
    /\ request' = op
    /\ UNCHANGED contents

\* The write is given up: a failed call, a crash.
Refuse ==
    /\ request # NoOp
    /\ request' = NoOp
    /\ UNCHANGED contents

Perform(type) == request.type = type /\ request' = NoOp

paxos_save_decision ==
    /\ Perform("paxos_save_decision")
    /\ paxos_decisions' = Put(paxos_decisions, request.arg.slot, request.arg.value)
    /\ UNCHANGED <<decisions, term, voted_for, log, commit_index>>

save_decision ==
    /\ Perform("save_decision")
    /\ decisions' = Put(decisions, request.arg.slot, request.arg.value)
    /\ UNCHANGED <<paxos_decisions, term, voted_for, log, commit_index>>

save_term ==
    /\ Perform("save_term")
    /\ term' = request.arg
    /\ UNCHANGED <<paxos_decisions, decisions, voted_for, log, commit_index>>

save_voted_for ==
    /\ Perform("save_voted_for")
    /\ voted_for' = request.arg
    /\ UNCHANGED <<paxos_decisions, decisions, term, log, commit_index>>

append_log ==
    /\ Perform("append_log")
    /\ log' = log \o request.arg
    /\ UNCHANGED <<paxos_decisions, decisions, term, voted_for, commit_index>>

truncate_log_from ==
    /\ Perform("truncate_log_from")
    /\ log' = IF request.arg < Len(log) THEN SubSeq(log, 1, request.arg) ELSE log
    /\ UNCHANGED <<paxos_decisions, decisions, term, voted_for, commit_index>>

save_commit_index ==
    /\ Perform("save_commit_index")
    /\ commit_index' = request.arg
    /\ UNCHANGED <<paxos_decisions, decisions, term, voted_for, log>>

Next ==
    \/ \E op \in PaxosOp \cup RaftOp : Request(op)
    \/ Refuse
    \/ paxos_save_decision
    \/ save_decision
    \/ save_term
    \/ save_voted_for
    \/ append_log
    \/ truncate_log_from
    \/ save_commit_index

Spec == Init /\ [][Next]_vars

=============================================================================
