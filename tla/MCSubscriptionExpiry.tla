------------------------ MODULE MCSubscriptionExpiry ------------------------
(* Instances of SubscriptionExpiry for TLC: two balances whose cycles end  *)
(* at different times, or one.                                             *)
EXTENDS SubscriptionExpiry

CONSTANTS balance1, balance2, request1

MCBalance == {balance1, balance2}
MCEnd     == [b \in MCBalance |-> IF b = balance1 THEN 1 ELSE 3]
MCOneEnd  == [b \in {balance1} |-> 4]
=============================================================================
