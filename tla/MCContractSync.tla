--------------------------- MODULE MCContractSync ---------------------------
(* Instances of ContractSync for TLC: one price, and two wallets of one    *)
(* product.                                                                *)
EXTENDS ContractSync

CONSTANTS price1, price2, wallet1, wallet2, product

MCProductEvent == {wallet1, wallet2}
MCEntry        == [e \in MCProductEvent |-> product]
=============================================================================
