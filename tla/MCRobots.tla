------------------------------ MODULE MCRobots ------------------------------
(* Host a forbids /x/ but allows /x/b to us, and forbids everything to     *)
(* others; host b allows everything but what ends in .p.                   *)
EXTENDS Robots, TLC

CONSTANTS a, b, w1, w2

MCWorker == {w1, w2}

Page(h, p) == [host |-> h, path |-> p]

aRoot  == Page(a, <<>>)
aX     == Page(a, <<"/", "x", "/", "a">>)
aXb    == Page(a, <<"/", "x", "/", "b">>)
bPage  == Page(b, <<"/", "x", "/", "a">>)
bFile  == Page(b, <<"/", "x", ".", "p">>)

MCURL == {aRoot, aX, aXb, bPage, bFile}

MCSeeds == {aRoot, aX}

MCLinks == (aRoot :> {aXb, bPage} @@ aX :> {bFile} @@ aXb :> {aX}
            @@ bPage :> {bFile, aX} @@ bFile :> {aXb})

Line(k, v) == [kind |-> k, value |-> v]

MCFile ==
    (a :> << Line("agent", "*"), Line("disallow", <<"/">>),
             Line("agent", "other"), Line("agent", "ours"),
             Line("disallow", <<"/", "x", "/">>),
             Line("allow", <<"/", "x", "/", "b">>) >>
     @@ b :> << Line("agent", "*"), Line("disallow", <<"*", ".", "p", "$">>) >>)

Symmetry == Permutations(MCWorker)
=============================================================================
