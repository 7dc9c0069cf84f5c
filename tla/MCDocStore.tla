----------------------------- MODULE MCDocStore -----------------------------
(* Two pages, each of which may say noindex when it is fetched.             *)
EXTENDS DocStore, TLC

CONSTANTS h1, h2, w1, w2

MCHash   == {h1, h2}
MCWorker == {w1, w2}

Symmetry == Permutations(MCHash) \cup Permutations(MCWorker)
=============================================================================
