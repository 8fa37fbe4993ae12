----------------------------- MODULE MCCatalog -----------------------------
(* Instance of Catalog for TLC.                                            *)
EXTENDS Catalog

CONSTANTS wallet1, wallet2, product1, price1, amount1, amount2, request1, request2

OnlyProduct == [r \in Price |-> product1]
=============================================================================
