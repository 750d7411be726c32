-------------------------- MODULE MCCoreStreamData --------------------------
(* An instance of CoreStreamData for TLC.                                     *)
EXTENDS CoreStreamData, TLC

CONSTANTS u1, u2, u3

MCUnits == {u1, u2, u3}
MCFailures == {"create", "configure", "initialize", "mute", "listen", "lookUp", "start"}
Symmetry == Permutations(MCUnits)
=============================================================================
