-------------------------- MODULE MCPromotionPrices --------------------------
(* Instances for TLC: one price, two rewards, the larger above the price.  *)
EXTENDS PromotionPrices

MCPredicates == {Products}
MCPrices == {2}
MCRewards == {1, 3}
=============================================================================
