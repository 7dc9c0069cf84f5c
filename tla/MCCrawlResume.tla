---------------------------- MODULE MCCrawlResume ----------------------------
(* The seed u1 links to a page u2 of a subdomain, to a file u3 and to a    *)
(* page u4 of the parent domain, which --same-domain refuses; u2 links     *)
(* back, to the file and to the parent.  A process that is resumed with u2 *)
(* alone follows none of these links.                                      *)
EXTENDS CrawlResume, TLC

CONSTANTS u1, u2, u3, u4

MCURL      == {u1, u2, u3, u4}
MCHostOf   == [u \in MCURL |-> "a"]
MCPriority == (u3 :> 0) @@ [u \in MCURL |-> 1]
MCLinks    == (u1 :> {u2, u3, u4}) @@ (u2 :> {u1, u3, u4}) @@ [u \in MCURL |-> {}]
MCSeeds    == {u1}
MCBody     == MCURL \ {u3}

MCDomainOf  == (u2 :> "s.a.x") @@ (u4 :> "x") @@ [u \in MCURL |-> "a.x"]
MCSubdomain == ("x" :> {"a.x", "s.a.x"}) @@ ("a.x" :> {"s.a.x"}) @@ ("s.a.x" :> {})

Symmetry == Permutations(Worker)
=============================================================================
