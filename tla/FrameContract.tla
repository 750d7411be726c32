--------------------------- MODULE FrameContract ---------------------------
(* What the callbacks of a duplex stream promise of the frames captured: each *)
(* is given to the client at most once, none before it has been captured, and *)
(* they are given in the order of capture.  Frames may be passed over - for   *)
(* want of room, by a trim, or by a reinit - but one that has been given or   *)
(* passed over never comes back.                                              *)
EXTENDS Naturals, Sequences

VARIABLES captured, \* the number of frames captured: frame f is the f-th
          gone,     \* every frame up to this one has been given or passed over
          given     \* the frames an output callback is giving to the client

fvars == <<captured, gone, given>>

Init == captured = 0 /\ gone = 0 /\ given = <<>>

(* s are frames after a, up to b, in their order.                             *)
InOrder(s, a, b) ==
    \A i \in DOMAIN s :
        /\ s[i] \in (a + 1)..b
        /\ \A j \in DOMAIN s : i < j => s[i] < s[j]

Capture ==
    /\ captured' \in Nat /\ captured' > captured
    /\ gone' \in gone..captured'
    /\ UNCHANGED given

PassOver ==
    /\ gone' \in gone..captured
    /\ UNCHANGED <<captured, given>>

Give ==
    /\ gone' \in gone..captured
    /\ given' \in Seq(Nat)
    /\ InOrder(given', gone, gone')
    /\ UNCHANGED captured

Return ==
    /\ given' = <<>>
    /\ UNCHANGED <<captured, gone>>

Next == Capture \/ PassOver \/ Give \/ Return

Spec == Init /\ [][Next]_fvars
=============================================================================
