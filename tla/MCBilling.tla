----------------------------- MODULE MCBilling -----------------------------
(* Instance of Billing for TLC.                                            *)
EXTENDS Billing

CONSTANTS sub1, sub2, hook1, hook2, cancel1
=============================================================================
