-------------------------- MODULE MCEffectDispatch --------------------------
(* TLC instances of EffectDispatch: one call needs approval, one does not.  *)
EXTENDS EffectDispatch
=============================================================================
