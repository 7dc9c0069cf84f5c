----------------------------- MODULE MCCrawlPool -----------------------------
(* Three URLs on two hosts, two of them competing in one host queue.        *)
EXTENDS CrawlPool, TLC

CONSTANTS u1, u2, u3

MCURL      == {u1, u2, u3}
MCHostOf   == (u1 :> "a") @@ (u2 :> "a") @@ (u3 :> "b")
MCPriority == (u1 :> 2) @@ (u2 :> 1) @@ (u3 :> 1)

Symmetry == Permutations(Worker)
=============================================================================
