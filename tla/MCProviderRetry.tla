---------------------------- MODULE MCProviderRetry --------------------------
(* TLC instances of ProviderRetry.                                           *)
EXTENDS ProviderRetry
=============================================================================
