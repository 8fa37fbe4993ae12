---------------------------- MODULE MCEthListener ----------------------------
(* Instances of EthListener for TLC: two payments.                         *)
EXTENDS EthListener

CONSTANTS payment1, payment2

MCPayment == {payment1, payment2}
=============================================================================
