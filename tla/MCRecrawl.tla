------------------------------ MODULE MCRecrawl ------------------------------
(* A page near the root of its site and one far below it.                  *)
EXTENDS Recrawl, TLC

CONSTANTS u1, u2, x, y, w1, w2

MCURL == {u1, u2}
MCDepth == u1 :> 1 @@ u2 :> 8
MCEnding == u1 :> "page" @@ u2 :> "other"
MCContent == {x, y}
MCWorker == {w1, w2}

Symmetry == Permutations(MCContent) \cup Permutations(MCWorker)
=============================================================================
