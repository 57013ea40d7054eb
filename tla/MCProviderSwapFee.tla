-------------------------- MODULE MCProviderSwapFee --------------------------
(* ProviderSwapFee over the pools of MCRouterSwaps, for the model checker: *)
(* its other constants have their values in the configuration.             *)
EXTENDS ProviderSwapFee, MCRouterSwaps
=============================================================================
