------------------------- MODULE MCAudioUnitStream -------------------------
(* Instances of AudioUnitStream for TLC.                                      *)
EXTENDS AudioUnitStream

MCOutput == {"output"}
MCInput == {"input"}
MCDuplex == {"input", "output"}
=============================================================================
