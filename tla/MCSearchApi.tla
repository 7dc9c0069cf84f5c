---------------------------- MODULE MCSearchApi ----------------------------
(* Two threads; three keys, one more than the cache holds; k1 finds both   *)
(* documents, k2 one of them, k3 none.                                     *)
EXTENDS SearchApi

CONSTANTS t1, t2, k1, k2, k3, d1, d2

MCThread == {t1, t2}
MCKey == {k1, k2, k3}
MCDocument == {d1, d2}
MCMatches == (k1 :> {d1, d2} @@ k2 :> {d1} @@ k3 :> {})

Symmetry == Permutations(MCThread)
=============================================================================
