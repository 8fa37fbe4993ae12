--------------------- MODULE MCTransactionOrchestrator ---------------------
(* Instances of TransactionOrchestrator for TLC: one customer buys an      *)
(* invitation and a role, so both purchases depend on one token row.       *)
EXTENDS TransactionOrchestrator

CONSTANTS c, invitation, role

MCEvent    == {invitation, role}
MCCustomer == {c}
MCBuyer    == [e \in MCEvent |-> c]
MCInvite   == {invitation}
=============================================================================
