------------------------- MODULE MCAggregateDevice -------------------------
(* Instances of AggregateDevice for TLC: two builds, the second a retry of    *)
(* the first, and a buffer size.                                              *)
EXTENDS AggregateDevice, TLC

CONSTANTS b1, b2, blank1, blank2, sub1, sub2, buffer, a1, a2, h1, h2

MCKind == blank1 :> "blank" @@ blank2 :> "blank" @@ sub1 :> "sub" @@ sub2 :> "sub"
          @@ buffer :> "buffer"
MCBlank == b1 :> blank1 @@ b2 :> blank2
MCSub == b1 :> sub1 @@ b2 :> sub2
=============================================================================
