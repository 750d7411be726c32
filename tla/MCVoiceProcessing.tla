------------------------- MODULE MCVoiceProcessing -------------------------
(* Instances of VoiceProcessing for TLC.                                      *)
EXTENDS VoiceProcessing

CONSTANTS s1, s2, v1, v2

MCUsers == {s1, s2}
MCUnits == {v1, v2}

(* One stream is started and sets its units; the other one comes and goes,    *)
(* takes what the first leaves and leaves what it took.                       *)
MCCallers == {s1} \X {"start", "mute", "params"}
MCRequests == {Defaults}
=============================================================================
