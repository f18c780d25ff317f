----------------------------- MODULE MCLifecycle ----------------------------
(* Two endpoints, one of which the reload removes: what is left of their     *)
(* goroutines and the one of the next generation compete for the slots.      *)
EXTENDS Lifecycle

CONSTANTS a, b
=============================================================================
