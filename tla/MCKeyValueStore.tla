--------------------------- MODULE MCKeyValueStore ---------------------------
(* Rates of one token a second and of one in two seconds, with ticks of a
   second: below and from one on. *)
EXTENDS KeyValueStore, TLC

MCSymmetry == Permutations(Callers)

MCRates == {<<1, 1>>, <<1, 2>>}
=============================================================================
