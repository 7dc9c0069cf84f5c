------------------------------- MODULE MCDedup -------------------------------
(* One URL under up to three keys and one under its own; keys 2 and 4 are  *)
(* those of this version.                                                  *)
EXTENDS Dedup, TLC

CONSTANTS u1, u2

MCURL == {u1, u2}
MCHash == 1 .. 4
MCUrlOf == [h \in MCHash |-> IF h = 4 THEN u2 ELSE u1]
MCSha == u1 :> 2 @@ u2 :> 4
MCLegacy == <<u1, u2, u1>>
=============================================================================
