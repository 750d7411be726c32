------------------------ MODULE MCLatencyController ------------------------
(* Instances of LatencyController for TLC.                                    *)
EXTENDS LatencyController, TLC

CONSTANTS s1, s2, s3

MCUsers == {s1, s2, s3}
MCRequests == {0, 256, 1024}
Symmetry == Permutations(MCUsers)
=============================================================================
