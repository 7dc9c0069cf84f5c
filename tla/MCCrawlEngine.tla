---------------------------- MODULE MCCrawlEngine ----------------------------
(* Two pages that link to each other and a file, which is no seed although *)
(* it is listed.  All share a host.                                        *)
EXTENDS CrawlEngine, TLC

CONSTANTS u1, u2, u3

MCURL      == {u1, u2, u3}
MCHostOf   == [u \in MCURL |-> "a"]
MCPriority == (u1 :> 1) @@ (u2 :> 1) @@ (u3 :> 0)
MCLinks    == (u1 :> {u2}) @@ (u2 :> {u1, u3}) @@ (u3 :> {u2})
MCSeeds    == MCURL
MCBody     == {u1, u2}

MCDomainOf  == [u \in MCURL |-> "a"]
MCSubdomain == ("a" :> {})

Symmetry == Permutations(Worker)
=============================================================================
