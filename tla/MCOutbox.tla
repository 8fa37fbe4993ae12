------------------------------ MODULE MCOutbox ------------------------------
(* Instances of Outbox for TLC: two events that can be sent and one that   *)
(* cannot, which is one less than a batch of two.                          *)
EXTENDS Outbox

CONSTANTS event1, event2, unknown

MCEvent       == {event1, event2, unknown}
MCUnparseable == {unknown}
=============================================================================
