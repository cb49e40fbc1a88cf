------------------------- MODULE MCRewardsAggregation -------------------------
(***************************************************************************)
(* Instances of RewardsAggregation: windows of two epochs, five epochs.    *)
(***************************************************************************)
EXTENDS RewardsAggregation
=============================================================================
