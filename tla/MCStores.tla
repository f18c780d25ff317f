------------------------------- MODULE MCStores -------------------------------
(* One endpoint and a suite of it; two goroutines insert and one reads. *)
EXTENDS Stores, TLC

CONSTANTS ep, s1, w1, w2, r1, h1, h2

MCWriters == {w1, w2}
MCRefreshedWith == [e \in Endpoints |-> {e}]
MCHours == {h1, h2}
MCSymmetry == Permutations(MCWriters) \union Permutations(MCHours)
=============================================================================
