----------------------- MODULE DuplexCallbacksProof -----------------------
(* The data between the callbacks is right for any sizes, rates and number of *)
(* callbacks, however the threads overlap.                                    *)
EXTENDS DuplexCallbacks, TLAPS

(* What Drop and a push do to the ring. *)
LEMMA DropLemma ==
    ASSUME NEW s \in Seq(Nat), NEW n \in 0..Len(s)
    PROVE  /\ Drop(s, n) \in Seq(Nat)
           /\ Len(Drop(s, n)) = Len(s) - n
           /\ \A i \in 1..(Len(s) - n) : Drop(s, n)[i] = s[i + n]
BY DEF Drop

LEMMA PushLemma ==
    ASSUME NEW s \in Seq(Nat), NEW k \in Nat, NEW m \in Nat, NEW n \in 0..m
    PROVE  LET t == s \o SubSeq([i \in 1..m |-> k + i], 1, n)
           IN  /\ t \in Seq(Nat)
               /\ Len(t) = Len(s) + n
               /\ \A i \in 1..Len(s) : t[i] = s[i]
               /\ \A i \in (Len(s) + 1)..(Len(s) + n) : t[i] > k
<1> DEFINE new == [i \in 1..m |-> k + i]
           sub == SubSeq(new, 1, n)
<1>1. new \in Seq(Nat) /\ Len(new) = m
  OBVIOUS
<1>2. /\ sub \in Seq(Nat) /\ Len(sub) = n
      /\ \A i \in 1..n : sub[i] = k + i
  BY <1>1
<1>3. /\ s \o sub \in Seq(Nat)
      /\ Len(s \o sub) = Len(s) + n
      /\ \A i \in 1..Len(s) : (s \o sub)[i] = s[i]
      /\ \A i \in (Len(s) + 1)..(Len(s) + n) : (s \o sub)[i] = sub[i - Len(s)]
  BY <1>2
<1>4. \A i \in (Len(s) + 1)..(Len(s) + n) : i - Len(s) \in 1..n
  OBVIOUS
<1> QED
  BY <1>2, <1>3, <1>4

(* Products of sizes. *)
LEMMA TimesLemma ==
    ASSUME NEW a \in Nat, NEW b \in Nat, NEW c \in Nat \ {0}
    PROVE  /\ a * c \in Nat /\ a * c >= a
           /\ (a + 1) * c = a * c + c
           /\ a <= b => a * c <= b * c
<1>1. a * c \in Nat /\ a * c >= a /\ (a + 1) * c = a * c + c
  BY SMT
<1>2. ASSUME a <= b PROVE a * c <= b * c
  <2>1. b - a \in Nat /\ (b - a) * c \in Nat
    BY <1>2
  <2>2. b * c = a * c + (b - a) * c
    BY <2>1
  <2> QED
    BY <2>1, <2>2
<1> QED
  BY <1>1, <1>2

LEMMA SizesLemma ==
    ASSUME role \in Roles, upmix \in Upmixes
    PROVE  /\ upmix \in Nat \ {0} /\ CallbackFrames \in Nat \ {0} /\ Slack \in Nat \ {0}
           /\ Capacity \in Nat
           /\ Capacity >= Slack * CallbackFrames
           /\ \A n \in Nat : Needed(n) \in Nat
<1>1. /\ upmix \in Nat \ {0} /\ CallbackFrames \in Nat \ {0} /\ Slack \in Nat \ {0}
      /\ InputRate \in Nat \ {0} /\ OutputRate \in Nat \ {0}
  BY SizesAssumption
<1>2. Slack * CallbackFrames \in Nat
  BY <1>1, TimesLemma
<1>3. Capacity \in Nat /\ Capacity >= Slack * CallbackFrames
  BY <1>1, <1>2, TimesLemma DEF Capacity
<1>4. \A n \in Nat : Needed(n) \in Nat
  BY <1>1 DEF Needed
<1> QED
  BY <1>1, <1>3, <1>4

LEMMA NumbersLemma ==
    ASSUME TypeOK
    PROVE  /\ Len(ring) \in Nat /\ Capacity \in Nat /\ CallbackFrames \in Nat
           /\ call.out \in Nat /\ call.buffered \in Nat /\ call.input \in Nat
           /\ Needed(call.out) \in Nat
           /\ 0 * CallbackFrames = 0
           /\ older * CallbackFrames \in Nat /\ newer * CallbackFrames \in Nat
<1>1. call.out \in Nat /\ call.buffered \in Nat /\ call.input \in Nat
  BY DEF TypeOK, Calls
<1>2. /\ role \in Roles /\ upmix \in Upmixes /\ older \in Nat /\ newer \in Nat
      /\ Len(ring) \in Nat
  BY DEF TypeOK
<1>3. Capacity \in Nat /\ CallbackFrames \in Nat \ {0} /\ Needed(call.out) \in Nat
  BY <1>1, <1>2, SizesLemma
<1> QED
  BY <1>1, <1>2, <1>3, TimesLemma

-----------------------------------------------------------------------------
(* Between looking and pulling. *)
Waiting == {"trim", "discard", "choose", "pull"}

(* The ring holds no more than the pushes since the last look have brought,    *)
(* and, from the next look until its pull, what that look has found.           *)
Counted ==
    /\ Len(ring) <= older * CallbackFrames
    /\ opc \in Waiting => Len(ring) <= call.buffered + newer * CallbackFrames
    /\ opc = "pop" => Len(ring) <= popping + newer * CallbackFrames

(* It never holds more than its capacity, not even after a push into the room  *)
(* that was found before a pop.                                                *)
Roomy ==
    /\ Len(ring) <= Capacity
    /\ pushing.frames <= CallbackFrames
    /\ ipc = "push" => Len(ring) + pushing.room <= Capacity
    /\ BurstsFit

(* What was there when the callback looked is at the front. *)
Ordered ==
    /\ mark <= captured
    /\ opc \in Waiting => \A i \in 1..Len(ring) : i > call.buffered => ring[i] > mark
    /\ opc = "pop" => \A i \in 1..Len(ring) : i > popping => ring[i] > mark
    /\ role = "duplex" /\ opc \in {"idle", "look", "fill"} =>
          \A i \in 1..Len(ring) : ring[i] > mark

(* Of the frames the callback has found, those it has not trimmed. *)
Kept == IF call.trimmed THEN Needed(call.out) ELSE call.buffered

(* More than was found is asked for only where silence makes up for it. *)
Chosen ==
    /\ call.buffered <= call.input
    /\ call.input # call.buffered =>
          call.excused /\ ~call.trimmed /\ call.input = Needed(call.out)

(* What the callback has looked at, it can pull. *)
Pulled ==
    /\ opc \in {"discard", "pop"} => popping <= Len(ring)
    /\ opc \in {"trim", "discard"} => ~call.trimmed /\ Needed(call.out) < call.buffered
    /\ opc \in {"choose", "pull", "pop"} /\ call.trimmed => Needed(call.out) < call.buffered
    /\ opc \in Waiting => Kept <= Len(ring)
    /\ opc = "discard" => popping + Needed(call.out) <= Len(ring)
    /\ opc \in {"pull", "pop"} => Chosen
    /\ opc = "pop" => Kept <= popping
    /\ AssertionsHold
    /\ SilenceFillsTheGap

Timed ==
    /\ timing.queued + timing.size <= framesQueued
    /\ snapshot.queued + snapshot.size <= framesQueued
    /\ PositionNotAhead

(* The callbacks a stream has. *)
Callbacks ==
    /\ role = "input" => opc = "idle"
    /\ ipc = "deliver" => role = "input"

IInv == TypeOK /\ Counted /\ Roomy /\ Ordered /\ Pulled /\ Timed /\ Callbacks

LEMMA InitInvariant == Init => IInv
<1> SUFFICES ASSUME Init PROVE IInv
  OBVIOUS
<1> USE DEF Init
<1>1. CallbackFrames \in Nat /\ 0 * CallbackFrames = 0 /\ Capacity \in Nat
  BY SizesLemma
<1>2. TypeOK
  <2>1. call \in Calls
    BY DEF NoCall, Calls
  <2>2. got \in [frames : Seq(Nat), silence : Nat] /\ ring \in Seq(Nat)
    BY DEF Nothing
  <2>3. pushing \in [frames : Nat, room : Nat, burst : Nat]
    BY DEF NoPush
  <2> QED
    BY <2>1, <2>2, <2>3 DEF TypeOK
<1>3. Counted
  BY <1>1 DEF Counted, Waiting
<1>4. Roomy
  BY <1>1 DEF Roomy, BurstsFit, NoPush
<1>5. Ordered
  BY DEF Ordered, Waiting
<1>6. Pulled /\ Timed /\ Callbacks
  BY DEF Pulled, Kept, Chosen, AssertionsHold,
         SilenceFillsTheGap, Needed, Waiting, Timed, PositionNotAhead, Callbacks
<1> QED
  BY <1>2, <1>3, <1>4, <1>5, <1>6 DEF IInv

-----------------------------------------------------------------------------
(* The input callback                                                         *)

LEMMA CaptureInvariant == IInv /\ Capture => IInv'
<1> SUFFICES ASSUME IInv, Capture PROVE IInv'
  OBVIOUS
<1> USE DEF Capture, stream, output, client, counts
<1>1. TypeOK /\ Counted /\ Roomy /\ Ordered /\ Pulled /\ Timed /\ Callbacks
  BY DEF IInv
<1>2. /\ CallbackFrames \in Nat \ {0} /\ Slack \in Nat \ {0} /\ Capacity \in Nat
      /\ Capacity >= Slack * CallbackFrames
  BY <1>1, SizesLemma DEF TypeOK
<1>3. PICK n \in 1..CallbackFrames :
         pushing' = [frames |-> n, room |-> Capacity - Len(ring), burst |-> older]
  OBVIOUS
<1>4. Len(ring) \in Nat /\ Capacity - Len(ring) \in Nat /\ n \in Nat /\ older \in Nat
  BY <1>1, <1>2 DEF TypeOK, Roomy
<1>5. TypeOK'
  BY <1>1, <1>3, <1>4 DEF TypeOK
<1>6. BurstsFit'
  <2>1. ASSUME Capacity - Len(ring) < n PROVE older >= Slack
    <3>1. Slack * CallbackFrames < (older + 1) * CallbackFrames
      <4>1. /\ (older + 1) * CallbackFrames = older * CallbackFrames + CallbackFrames
            /\ older * CallbackFrames \in Nat /\ Slack * CallbackFrames \in Nat
        BY <1>2, <1>4, TimesLemma
      <4> QED
        BY <1>1, <1>2, <1>4, <2>1, <4>1 DEF Counted
    <3>2. ~(older + 1 <= Slack)
      <4>1. /\ Slack * CallbackFrames \in Nat /\ (older + 1) * CallbackFrames \in Nat
            /\ older + 1 <= Slack =>
                  (older + 1) * CallbackFrames <= Slack * CallbackFrames
        BY <1>2, <1>4, TimesLemma
      <4> QED
        BY <3>1, <4>1
    <3> QED
      BY <1>2, <1>4, <3>2
  <2> QED
    BY <1>3, <2>1 DEF BurstsFit
<1>7. Roomy'
  BY <1>1, <1>2, <1>3, <1>4, <1>6 DEF Roomy, Capacity
<1>8. Counted' /\ Ordered' /\ Pulled' /\ Timed' /\ Callbacks'
  BY <1>1
     DEF Counted, Ordered, Pulled, Timed, Kept, Chosen, AssertionsHold,
         SilenceFillsTheGap, PositionNotAhead, Needed, Callbacks
<1> QED
  BY <1>5, <1>7, <1>8 DEF IInv

LEMMA PushInvariant == IInv /\ Push => IInv'
<1> SUFFICES ASSUME IInv, Push PROVE IInv'
  OBVIOUS
<1>1. TypeOK /\ Counted /\ Roomy /\ Ordered /\ Pulled /\ Timed /\ Callbacks
  BY DEF IInv
<1>2. /\ CallbackFrames \in Nat \ {0} /\ Slack \in Nat \ {0} /\ Capacity \in Nat
  BY <1>1, SizesLemma DEF TypeOK
<1> DEFINE fit == Lesser(pushing.frames, pushing.room)
           new == [i \in 1..pushing.frames |-> captured + i]
<1>0. /\ ipc = "push" /\ ipc' \in {"deliver", "idle"} /\ (ipc' = "deliver" => role = "input")
      /\ ring' = ring \o SubSeq(new, 1, fit)
      /\ captured' = captured + pushing.frames
      /\ pushing' = NoPush /\ newer' = newer + 1 /\ older' = older + 1
      /\ UNCHANGED <<role, upmix, framesRead, framesWritten, framesQueued, changing,
                     opc, call, popping, latency, timing, got, ppc, snapshot, position,
                     mark, setups>>
  BY DEF Push, stream, output, client
<1>3. /\ pushing.frames \in Nat /\ pushing.room \in Nat /\ ring \in Seq(Nat)
      /\ captured \in Nat /\ newer \in Nat /\ older \in Nat /\ Len(ring) \in Nat
      /\ fit \in 0..pushing.frames /\ fit <= pushing.room /\ fit <= CallbackFrames
  BY <1>1, <1>2 DEF TypeOK, Roomy, Lesser
<1>4. ring' = ring \o SubSeq([i \in 1..pushing.frames |-> captured + i], 1, fit)
  BY <1>0
<1> HIDE DEF fit, new
<1>5. /\ ring' \in Seq(Nat)
      /\ Len(ring') = Len(ring) + fit
      /\ \A i \in 1..Len(ring) : ring'[i] = ring[i]
      /\ \A i \in (Len(ring) + 1)..(Len(ring) + fit) : ring'[i] > captured
  BY ONLY <1>3, <1>4, PushLemma
<1>6. TypeOK'
  <2>1. pushing' \in [frames : Nat, room : Nat, burst : Nat]
    BY <1>0 DEF NoPush
  <2>2. captured' \in Nat /\ newer' \in Nat /\ older' \in Nat /\ ring' \in Seq(Nat)
    BY <1>0, <1>3, <1>5
  <2> QED
    BY <1>0, <1>1, <2>1, <2>2 DEF TypeOK
<1>7. Counted'
  <2>1. /\ (newer + 1) * CallbackFrames = newer * CallbackFrames + CallbackFrames
        /\ (older + 1) * CallbackFrames = older * CallbackFrames + CallbackFrames
        /\ newer * CallbackFrames \in Nat /\ older * CallbackFrames \in Nat
    BY <1>2, <1>3, TimesLemma
  <2>2. call.buffered \in Nat /\ popping \in Nat
    BY <1>0, <1>1 DEF TypeOK, Calls
  <2>3. Len(ring') <= Len(ring) + CallbackFrames /\ Len(ring') \in Nat
    BY <1>2, <1>3, <1>5
  <2>4. Len(ring') <= older' * CallbackFrames
    BY <1>0, <1>1, <1>2, <1>3, <2>1, <2>3 DEF Counted
  <2>5. opc \in Waiting => Len(ring') <= call.buffered + newer' * CallbackFrames
    BY <1>0, <1>1, <1>2, <1>3, <2>1, <2>2, <2>3 DEF Counted
  <2>6. opc = "pop" => Len(ring') <= popping + newer' * CallbackFrames
    BY <1>0, <1>1, <1>2, <1>3, <2>1, <2>2, <2>3 DEF Counted
  <2> QED
    BY <1>0, <2>4, <2>5, <2>6 DEF Counted
<1>8. Roomy'
  BY <1>0, <1>1, <1>2, <1>3, <1>5 DEF Roomy, BurstsFit, NoPush, Capacity
<1>9. Ordered'
  <2>1. captured' >= captured /\ mark \in Nat /\ call.buffered \in Nat /\ popping \in Nat
    BY <1>0, <1>1, <1>3 DEF TypeOK, Calls
  <2>2. \A i \in 1..Len(ring') :
           \/ i \in 1..Len(ring) /\ ring'[i] = ring[i]
           \/ ring'[i] > mark
    <3> SUFFICES ASSUME NEW i \in 1..Len(ring'), i \notin 1..Len(ring)
                 PROVE  ring'[i] > mark
      BY <1>5
    <3>1. i \in (Len(ring) + 1)..(Len(ring) + fit)
      BY <1>3, <1>5
    <3>2. ring'[i] > captured /\ ring'[i] \in Nat
      BY <1>5, <3>1
    <3> QED
      BY <1>0, <1>1, <1>3, <2>1, <3>2 DEF Ordered
  <2> QED
    BY <1>0, <1>1, <2>1, <2>2, <1>3 DEF Ordered
<1>10. Pulled'
  <2>1. Len(ring') >= Len(ring) /\ Len(ring') \in Nat
    BY <1>3, <1>5
  <2>2. call.buffered \in Nat /\ popping \in Nat /\ Needed(call.out) \in Nat
    BY <1>0, <1>1, SizesLemma DEF TypeOK, Calls
  <2>3. Needed(call'.out) = Needed(call.out) /\ Needed(call.out)' = Needed(call.out)
    BY <1>0 DEF Needed
  <2>4. AssertionsHold' /\ SilenceFillsTheGap' /\ Kept' = Kept /\ (Chosen <=> Chosen')
    BY <1>0, <1>1, <1>3, <2>1, <2>2, <2>3
       DEF Pulled, AssertionsHold, SilenceFillsTheGap, Kept, Chosen
  <2> QED
    BY <1>0, <1>1, <1>3, <2>1, <2>2, <2>3, <2>4 DEF Pulled, Kept
<1>11. Timed' /\ Callbacks'
  BY <1>0, <1>1 DEF Timed, PositionNotAhead, Callbacks
<1> QED
  BY <1>6, <1>7, <1>8, <1>9, <1>10, <1>11 DEF IInv

LEMMA DeliverInputInvariant == IInv /\ DeliverInput => IInv'
<1> SUFFICES ASSUME IInv, DeliverInput PROVE IInv'
  OBVIOUS
<1> USE DEF DeliverInput, stream, output, client
<1>1. TypeOK /\ Counted /\ Roomy /\ Ordered /\ Pulled /\ Timed /\ Callbacks
  BY DEF IInv
<1>2. opc = "idle" /\ Len(ring') = 0 /\ Len(ring) \in Nat /\ Capacity \in Nat
  BY <1>1, SizesLemma DEF Callbacks, TypeOK
<1>3. TypeOK'
  BY <1>1, <1>2 DEF TypeOK
<1>4. Counted' /\ Roomy' /\ Ordered'
  BY <1>1, <1>2, SizesAssumption DEF Counted, Roomy, Ordered, BurstsFit, Waiting, Capacity, TypeOK
<1>5. Pulled' /\ Timed' /\ Callbacks'
  BY <1>1, <1>2
     DEF Pulled, Kept, Chosen, AssertionsHold,
         SilenceFillsTheGap, Needed, Waiting, Timed, PositionNotAhead, Callbacks
<1> QED
  BY <1>3, <1>4, <1>5 DEF IInv

-----------------------------------------------------------------------------
(* The output callback                                                        *)

LEMMA RenderInvariant == IInv /\ Render => IInv'
<1> SUFFICES ASSUME IInv, Render PROVE IInv'
  OBVIOUS
<1>1. TypeOK /\ Counted /\ Roomy /\ Ordered /\ Pulled /\ Timed /\ Callbacks
  BY DEF IInv
<1> USE DEF Render, stream, input, client, counts
<1>2. opc = "idle" /\ opc' \in {"look", "fill"} /\ (opc' = "fill" => role # "duplex")
  BY <1>1 DEF TypeOK
<1>3. PICK n \in Outputs, l \in Latencies :
         /\ latency' = l
         /\ call' = [call EXCEPT !.out = n, !.prev = framesWritten]
         /\ framesWritten' = framesWritten + n
  OBVIOUS
<1>4. n \in Nat /\ l \in Nat
  BY SizesAssumption
<1>5. call' \in Calls
  BY <1>1, <1>3, <1>4 DEF TypeOK, Calls
<1>6. TypeOK'
  <2>1. framesWritten' \in Nat /\ latency' \in Nat
    <3>1. framesWritten \in Nat
      BY <1>1 DEF TypeOK
    <3>2. framesWritten' = framesWritten + n /\ latency' = l
      BY <1>3
    <3> QED
      BY ONLY <3>1, <3>2, <1>4
  <2> QED
    BY <1>1, <1>2, <1>5, <2>1 DEF TypeOK
<1>7. Counted' /\ Roomy' /\ Ordered'
  BY <1>1, <1>2 DEF Counted, Roomy, Ordered, BurstsFit, Waiting, Capacity
<1>8. Pulled' /\ Timed' /\ Callbacks'
  BY <1>1, <1>2
     DEF Pulled, Kept, Chosen, AssertionsHold,
         SilenceFillsTheGap, Needed, Waiting, Timed, PositionNotAhead, Callbacks
<1> QED
  BY <1>6, <1>7, <1>8 DEF IInv

LEMMA LookInvariant == IInv /\ Look => IInv'
<1> SUFFICES ASSUME IInv, Look PROVE IInv'
  OBVIOUS
<1>1. TypeOK /\ Counted /\ Roomy /\ Ordered /\ Pulled /\ Timed /\ Callbacks
  BY DEF IInv
<1> USE DEF Look, OGoto, stream, input, client
<1>2. /\ opc = "look" /\ opc' \in {"trim", "choose"} /\ UNCHANGED <<ring, popping, role, upmix, ipc>>
      /\ opc' = "trim" => Len(ring) > Needed(call.out)
      /\ newer' = 0 /\ mark' = captured
  OBVIOUS
<1>3. /\ Len(ring) \in Nat /\ Needed(call.out) \in Nat /\ CallbackFrames \in Nat
      /\ 0 * CallbackFrames = 0
  BY <1>1, NumbersLemma
<1>4. /\ call' \in Calls /\ call'.buffered = Len(ring) /\ call'.trimmed = FALSE
      /\ call'.out = call.out
  BY <1>1, <1>3 DEF TypeOK, Calls
<1>5. TypeOK'
  BY <1>1, <1>2, <1>4 DEF TypeOK
<1>6. Counted'
  BY <1>1, <1>2, <1>3, <1>4 DEF Counted, Waiting
<1>7. Roomy'
  BY <1>1, <1>2 DEF Roomy, BurstsFit, Capacity
<1>8. Ordered'
  <2>1. mark' <= captured' /\ ~(opc' \in {"pop", "idle", "look", "fill"})
    BY <1>1, <1>2 DEF TypeOK
  <2>2. \A i \in 1..Len(ring') : ~(i > call'.buffered)
    BY <1>2, <1>3, <1>4
  <2> QED
    BY <2>1, <2>2 DEF Ordered
<1>9. Pulled'
  BY <1>1, <1>2, <1>3, <1>4
     DEF Pulled, Kept, Chosen, AssertionsHold,
         SilenceFillsTheGap, Waiting, Needed
<1>10. Timed' /\ Callbacks'
  BY <1>1, <1>2 DEF Timed, PositionNotAhead, Callbacks
<1> QED
  BY <1>5, <1>6, <1>7, <1>8, <1>9, <1>10 DEF IInv

LEMMA TrimInvariant == IInv /\ Trim => IInv'
<1> SUFFICES ASSUME IInv, Trim PROVE IInv'
  OBVIOUS
<1>1. TypeOK /\ Counted /\ Roomy /\ Ordered /\ Pulled /\ Timed /\ Callbacks
  BY DEF IInv
<1> USE DEF Trim, OGoto, stream, input, client, counts
<1>2. /\ Len(ring) \in Nat /\ Needed(call.out) \in Nat /\ Needed(call.out) <= Len(ring)
  BY <1>1, NumbersLemma DEF Pulled, AssertionsHold
<1>3. /\ popping' \in Nat /\ popping' <= Len(ring)
      /\ popping' + Needed(call.out) <= Len(ring)
  BY <1>2
<1>4. TypeOK'
  BY <1>1, <1>3 DEF TypeOK
<1>5. Counted' /\ Roomy' /\ Ordered'
  BY <1>1 DEF Counted, Roomy, Ordered, BurstsFit, Waiting, Capacity
<1>6. Pulled'
  <2>1. /\ opc = "trim" /\ opc' = "discard" /\ UNCHANGED <<ring, call, role, got>>
        /\ Needed(call.out)' = Needed(call.out) /\ Kept' = Kept
    BY DEF Kept, Needed
  <2> QED
    BY <1>1, <1>3, <2>1 DEF Pulled, AssertionsHold, SilenceFillsTheGap, Waiting
<1>7. Timed' /\ Callbacks'
  BY <1>1 DEF Timed, PositionNotAhead, Callbacks
<1> QED
  BY <1>4, <1>5, <1>6, <1>7 DEF IInv

LEMMA DiscardInvariant == IInv /\ Discard => IInv'
<1> SUFFICES ASSUME IInv, Discard PROVE IInv'
  OBVIOUS
<1>1. TypeOK /\ Counted /\ Roomy /\ Ordered /\ Pulled /\ Timed /\ Callbacks
  BY DEF IInv
<1> USE DEF Discard, OGoto, stream, input, client, counts
<1>2. ring \in Seq(Nat) /\ popping \in 0..Len(ring) /\ Len(ring) \in Nat
  BY <1>1 DEF TypeOK, Pulled
<1>3. /\ ring' \in Seq(Nat) /\ Len(ring') = Len(ring) - popping
      /\ \A i \in 1..Len(ring') : ring'[i] = ring[i + popping]
  BY <1>2, DropLemma
<1>4. /\ call' \in Calls /\ call'.buffered = call.buffered /\ call'.trimmed = TRUE
  BY <1>1 DEF TypeOK, Calls
<1>5. TypeOK'
  BY <1>1, <1>3, <1>4 DEF TypeOK
<1>6. Counted'
  <2>1. /\ Len(ring') <= Len(ring) /\ Len(ring') \in Nat
        /\ older * CallbackFrames \in Nat /\ newer * CallbackFrames \in Nat
        /\ call.buffered \in Nat
    BY <1>1, <1>2, <1>3, NumbersLemma
  <2> QED
    BY <1>1, <1>2, <1>4, <2>1 DEF Counted, Waiting
<1>7. Roomy'
  <2>1. Capacity \in Nat /\ pushing.room \in Nat
    BY <1>1, SizesLemma DEF TypeOK
  <2> QED
    BY <1>1, <1>2, <1>3, <2>1 DEF Roomy, BurstsFit, Capacity
<1>8. Ordered'
  <2>1. \A i \in 1..Len(ring') : i + popping \in 1..Len(ring) /\ i + popping >= i
    BY <1>2, <1>3
  <2>2. call.buffered \in Nat
    BY <1>1 DEF TypeOK, Calls
  <2>3. ASSUME NEW i \in 1..Len(ring'), i > call.buffered PROVE ring'[i] > mark
    <3>1. i + popping \in 1..Len(ring) /\ i + popping > call.buffered
      BY <1>2, <2>1, <2>2, <2>3
    <3>2. ring[i + popping] > mark
      BY <1>1, <3>1 DEF Ordered, Waiting
    <3> QED
      BY <1>3, <3>2
  <2> QED
    BY <1>1, <1>4, <2>3 DEF Ordered, Waiting
<1>9. Pulled'
  <2>1. /\ opc = "discard" /\ opc' = "choose" /\ popping' = 0 /\ call'.out = call.out
    BY <1>1 DEF TypeOK, Calls
  <2>2. Needed(call.out)' = Needed(call.out) /\ Needed(call.out) \in Nat
    BY <1>1, <2>1, NumbersLemma DEF Needed
  <2>3. Kept' = Needed(call.out) /\ Needed(call.out) <= Len(ring')
    BY <1>1, <1>2, <1>3, <1>4, <2>1, <2>2 DEF Kept, Pulled
  <2> QED
    BY <1>1, <1>4, <2>1, <2>2, <2>3
       DEF Pulled, AssertionsHold,
           SilenceFillsTheGap, Waiting
<1>10. Timed' /\ Callbacks'
  BY <1>1 DEF Timed, PositionNotAhead, Callbacks
<1> QED
  BY <1>5, <1>6, <1>7, <1>8, <1>9, <1>10 DEF IInv

LEMMA ChooseInvariant == IInv /\ Choose => IInv'
<1> SUFFICES ASSUME IInv, Choose PROVE IInv'
  OBVIOUS
<1>1. TypeOK /\ Counted /\ Roomy /\ Ordered /\ Pulled /\ Timed /\ Callbacks
  BY DEF IInv
<1> DEFINE n == IF Excused THEN Needed(call.out) ELSE call.buffered
<1>0. /\ opc = "choose" /\ opc' = "pull"
      /\ call' = [call EXCEPT !.input = n, !.excused = changing \/ framesRead = 0]
      /\ framesRead' = framesRead + n
      /\ UNCHANGED <<role, upmix, ring, framesWritten, framesQueued, changing, ipc, pushing,
                     popping, got, latency, timing, ppc, snapshot, position, captured, mark,
                     newer, older, setups>>
  BY DEF Choose, OGoto, stream, input, client, counts
<1>2. /\ n \in Nat /\ call.buffered \in Nat /\ n >= call.buffered
      /\ n # call.buffered =>
            (changing \/ framesRead = 0) /\ n = Needed(call.out) /\ n > call.buffered
  BY <1>1, NumbersLemma DEF Excused
<1> HIDE DEF n
<1>3. /\ call' \in Calls /\ call'.buffered = call.buffered /\ call'.trimmed = call.trimmed
      /\ call'.out = call.out
      /\ call'.input = n /\ (call'.excused <=> (changing \/ framesRead = 0))
  BY <1>0, <1>1, <1>2 DEF TypeOK, Calls
<1>4. TypeOK'
  <2>1. framesRead' \in Nat
    <3>1. framesRead \in Nat
      BY <1>1 DEF TypeOK
    <3>2. framesRead' = framesRead + n
      BY <1>0
    <3> QED
      BY ONLY <3>1, <3>2, <1>2
  <2> QED
    BY <1>0, <1>1, <1>3, <2>1 DEF TypeOK
<1>5. Counted' /\ Roomy' /\ Ordered'
  BY <1>0, <1>1, <1>3 DEF Counted, Roomy, Ordered, BurstsFit, Waiting, Capacity
<1>6. Pulled'
  <2>1. Needed(call.out)' = Needed(call.out) /\ Needed(call.out) \in Nat
    BY <1>1, <1>3, NumbersLemma DEF Needed
  <2>2. Kept' = Kept
    BY <1>3, <2>1 DEF Kept
  <2>3. Chosen'
    BY <1>0, <1>1, <1>2, <1>3, <2>1 DEF Chosen, Pulled
  <2> QED
    BY <1>0, <1>1, <1>3, <2>1, <2>2, <2>3
       DEF Pulled, AssertionsHold, SilenceFillsTheGap, Waiting
<1>7. Timed' /\ Callbacks'
  BY <1>0, <1>1 DEF Timed, PositionNotAhead, Callbacks
<1> QED
  BY <1>4, <1>5, <1>6, <1>7 DEF IInv

LEMMA PullInvariant == IInv /\ Pull => IInv'
<1> SUFFICES ASSUME IInv, Pull PROVE IInv'
  OBVIOUS
<1>1. TypeOK /\ Counted /\ Roomy /\ Ordered /\ Pulled /\ Timed /\ Callbacks
  BY DEF IInv
<1>0. /\ opc = "pull" /\ opc' = "pop"
      /\ popping' = Lesser(Len(ring), call.input * upmix)
      /\ UNCHANGED <<role, upmix, ring, framesRead, framesWritten, framesQueued, changing, ipc,
                     pushing, call, got, latency, timing, ppc, snapshot, position, captured,
                     mark, newer, older, setups>>
  BY DEF Pull, OGoto, stream, input, client, counts
<1>2. /\ call.input \in Nat /\ call.buffered \in Nat /\ upmix \in Nat \ {0}
      /\ Len(ring) \in Nat /\ call.buffered <= call.input
  BY <1>0, <1>1, SizesLemma DEF TypeOK, Calls, Pulled, Chosen
<1>3. call.input * upmix \in Nat /\ call.input * upmix >= call.input
  BY <1>2, TimesLemma
<1>4. /\ popping' \in Nat /\ popping' <= Len(ring)
      /\ popping' = Len(ring) \/ popping' >= call.input
  BY <1>0, <1>2, <1>3 DEF Lesser
<1>5. TypeOK'
  BY <1>0, <1>1, <1>4 DEF TypeOK
<1>6. Counted'
  <2>1. newer * CallbackFrames \in Nat
    BY <1>1, TimesLemma, SizesAssumption DEF TypeOK
  <2>2. Len(ring) <= popping' + newer * CallbackFrames
    BY <1>0, <1>1, <1>2, <1>4, <2>1 DEF Counted, Waiting
  <2> QED
    BY <1>0, <1>1, <2>2 DEF Counted, Waiting
<1>7. Roomy'
  BY <1>0, <1>1 DEF Roomy, BurstsFit, Capacity
<1>8. Ordered'
  BY <1>0, <1>1, <1>2, <1>4 DEF Ordered, Waiting
<1>9. Pulled'
  <2>1. Needed(call.out)' = Needed(call.out) /\ Needed(call.out) \in Nat
    BY <1>0, <1>1, NumbersLemma DEF Needed
  <2>2. Kept' = Kept /\ (Chosen <=> Chosen') /\ Kept <= call.input
    BY <1>0, <1>1, <1>2, <2>1 DEF Kept, Chosen, Pulled
  <2>3. Kept <= popping'
    BY <1>0, <1>1, <1>2, <1>4, <2>1, <2>2 DEF Pulled, Waiting, Kept
  <2> QED
    BY <1>0, <1>1, <1>4, <2>1, <2>2, <2>3
       DEF Pulled, AssertionsHold, SilenceFillsTheGap, Waiting
<1>10. Timed' /\ Callbacks'
  BY <1>0, <1>1 DEF Timed, PositionNotAhead, Callbacks
<1> QED
  BY <1>5, <1>6, <1>7, <1>8, <1>9, <1>10 DEF IInv

LEMMA PopInvariant == IInv /\ Pop => IInv'
<1> SUFFICES ASSUME IInv, Pop PROVE IInv'
  OBVIOUS
<1>1. TypeOK /\ Counted /\ Roomy /\ Ordered /\ Pulled /\ Timed /\ Callbacks
  BY DEF IInv
<1> DEFINE real == Lesser(popping, call.input)
<1>0. /\ opc = "pop" /\ opc' = "fill"
      /\ got' = [frames |-> SubSeq(ring, 1, real), silence |-> call.input - real]
      /\ popping' = 0 /\ ring' = Drop(ring, popping) /\ older' = newer
      /\ UNCHANGED <<role, upmix, framesRead, framesWritten, framesQueued, changing, ipc,
                     pushing, call, latency, timing, ppc, snapshot, position, captured,
                     mark, newer, setups>>
  BY DEF Pop, OGoto, stream, input, client
<1>2. /\ ring \in Seq(Nat) /\ popping \in 0..Len(ring) /\ Len(ring) \in Nat
      /\ call.input \in Nat /\ real \in 0..Len(ring) /\ real <= call.input
      /\ real = popping \/ real = call.input
  BY <1>0, <1>1 DEF TypeOK, Pulled, Calls, Lesser
<1> HIDE DEF real
<1>3. /\ ring' \in Seq(Nat) /\ Len(ring') = Len(ring) - popping
      /\ \A i \in 1..Len(ring') : ring'[i] = ring[i + popping]
  BY <1>0, <1>2, DropLemma
<1>4. /\ got' \in [frames : Seq(Nat), silence : Nat]
      /\ Len(got'.frames) = real /\ got'.silence = call.input - real
  <2>1. SubSeq(ring, 1, real) \in Seq(Nat) /\ Len(SubSeq(ring, 1, real)) = real
    BY <1>2
  <2> QED
    BY <1>0, <1>2, <2>1
<1>5. TypeOK'
  BY <1>0, <1>1, <1>3, <1>4 DEF TypeOK
<1>6. Counted'
  <2>1. newer * CallbackFrames \in Nat
    BY <1>1, TimesLemma, SizesAssumption DEF TypeOK
  <2>2. Len(ring') <= newer * CallbackFrames
    BY <1>0, <1>1, <1>2, <1>3, <2>1 DEF Counted
  <2> QED
    BY <1>0, <2>2 DEF Counted, Waiting
<1>7. Roomy'
  <2>1. Capacity \in Nat /\ pushing.room \in Nat
    BY <1>1, SizesLemma DEF TypeOK
  <2> QED
    BY <1>0, <1>1, <1>2, <1>3, <2>1 DEF Roomy, BurstsFit, Capacity
<1>8. Ordered'
  <2>1. \A i \in 1..Len(ring') : i + popping \in 1..Len(ring) /\ i + popping > popping
    BY <1>2, <1>3
  <2>2. \A i \in 1..Len(ring') : ring'[i] > mark
    BY <1>0, <1>1, <1>3, <2>1 DEF Ordered
  <2> QED
    BY <1>0, <1>1, <2>2 DEF Ordered, Waiting
<1>9. Pulled'
  <2>1. /\ Needed(call.out)' = Needed(call.out) /\ Needed(call.out) \in Nat
        /\ call.buffered \in Nat
    BY <1>0, <1>1, NumbersLemma DEF Needed
  <2>2. Chosen /\ Kept <= popping /\ (call.trimmed => Needed(call.out) < call.buffered)
    BY <1>0, <1>1 DEF Pulled
  <2>3. Kept <= real /\ real >= Lesser(Needed(call.out), call.buffered)
    BY <1>2, <2>1, <2>2 DEF Kept, Chosen, Lesser
  <2>4. ASSUME call.input - real > 0
        PROVE  IF call.trimmed THEN call.input - real <= call.buffered - Needed(call.out)
               ELSE call.excused /\ real + (call.input - real) = Needed(call.out)
    BY <1>2, <2>1, <2>2, <2>3, <2>4 DEF Kept, Chosen
  <2>5. /\ Len(got'.frames) >= Lesser(Needed(call.out), call.buffered)
        /\ got'.silence > 0 =>
              IF call.trimmed THEN got'.silence <= call.buffered - Needed(call.out)
              ELSE call.excused /\ Len(got'.frames) + got'.silence = Needed(call.out)
    BY <1>4, <2>3, <2>4
  <2>6. SilenceFillsTheGap'
    BY <1>0, <2>5 DEF SilenceFillsTheGap, Lesser, Needed
  <2> QED
    BY <1>0, <2>6 DEF Pulled, AssertionsHold, Waiting
<1>10. Timed' /\ Callbacks'
  BY <1>0, <1>1 DEF Timed, PositionNotAhead, Callbacks
<1> QED
  BY <1>5, <1>6, <1>7, <1>8, <1>9, <1>10 DEF IInv

LEMMA FillInvariant == IInv /\ Fill => IInv'
<1> SUFFICES ASSUME IInv, Fill PROVE IInv'
  OBVIOUS
<1>1. TypeOK /\ Counted /\ Roomy /\ Ordered /\ Pulled /\ Timed /\ Callbacks
  BY DEF IInv
<1> USE DEF Fill, OGoto, stream, input, client, counts
<1>2. /\ framesQueued' \in Nat /\ framesQueued' >= framesQueued
      /\ timing' \in [queued : Nat, size : Nat]
      /\ timing'.queued + timing'.size <= framesQueued'
  <2>1. framesQueued \in Nat /\ call.out \in Nat /\ timing \in [queued : Nat, size : Nat]
    BY <1>1 DEF TypeOK, Calls
  <2>2. CASE UNCHANGED <<timing, framesQueued>>
    BY <1>1, <2>1, <2>2 DEF Timed
  <2>3. CASE \E n \in 0..call.out :
               /\ timing' = [queued |-> framesQueued, size |-> n]
               /\ framesQueued' = framesQueued + n
    BY <2>1, <2>3
  <2> QED
    BY <2>2, <2>3
<1>3. call' \in Calls /\ got' \in [frames : Seq(Nat), silence : Nat]
  BY DEF NoCall, Nothing, Calls
<1>4. TypeOK'
  BY <1>1, <1>2, <1>3 DEF TypeOK
<1>5. Counted' /\ Roomy' /\ Ordered'
  BY <1>1 DEF Counted, Roomy, Ordered, BurstsFit, Waiting, Capacity
<1>6. Pulled' /\ Callbacks'
  BY <1>1
     DEF Pulled, Kept, Chosen, AssertionsHold,
         SilenceFillsTheGap, Needed, Waiting, Callbacks
<1>7. Timed'
  <2>1. /\ snapshot.queued + snapshot.size \in Nat /\ position \in Nat /\ framesQueued \in Nat
    BY <1>1 DEF TypeOK
  <2> QED
    BY <1>1, <1>2, <2>1 DEF Timed, PositionNotAhead
<1> QED
  BY <1>4, <1>5, <1>6, <1>7 DEF IInv

-----------------------------------------------------------------------------
(* The client and the queue                                                   *)

LEMMA ReadTimingInvariant == IInv /\ ReadTiming => IInv'
<1> SUFFICES ASSUME IInv, ReadTiming PROVE IInv'
  OBVIOUS
<1>1. TypeOK /\ Counted /\ Roomy /\ Ordered /\ Pulled /\ Timed /\ Callbacks
  BY DEF IInv
<1> USE DEF ReadTiming, stream, input, output, counts
<1>2. TypeOK'
  BY <1>1 DEF TypeOK
<1>3. Counted' /\ Roomy' /\ Ordered'
  BY <1>1 DEF Counted, Roomy, Ordered, BurstsFit, Waiting, Capacity
<1>4. Pulled' /\ Timed' /\ Callbacks'
  BY <1>1
     DEF Pulled, Kept, Chosen, AssertionsHold,
         SilenceFillsTheGap, Waiting, Timed, PositionNotAhead, Callbacks, Needed
<1> QED
  BY <1>2, <1>3, <1>4 DEF IInv

LEMMA PositionInvariant == IInv /\ Position => IInv'
<1> SUFFICES ASSUME IInv, Position PROVE IInv'
  OBVIOUS
<1>1. TypeOK /\ Counted /\ Roomy /\ Ordered /\ Pulled /\ Timed /\ Callbacks
  BY DEF IInv
<1> USE DEF Position, stream, input, output, counts
<1>2. /\ snapshot.queued \in Nat /\ snapshot.size \in Nat /\ position \in Nat
      /\ framesQueued \in Nat /\ latency \in Nat
  BY <1>1 DEF TypeOK
<1>3. position' \in Nat /\ position' <= framesQueued
  <2>1. PICK n \in 0..snapshot.size :
           position' = IF PlayedOut(n) > position THEN PlayedOut(n) ELSE position
    OBVIOUS
  <2>2. PlayedOut(n) \in Nat /\ PlayedOut(n) <= snapshot.queued + snapshot.size
    BY <1>2 DEF PlayedOut
  <2> QED
    BY <1>1, <1>2, <2>1, <2>2 DEF Timed, PositionNotAhead
<1>4. snapshot' \in [queued : Nat, size : Nat] /\ snapshot'.queued + snapshot'.size = 0
  OBVIOUS
<1>5. TypeOK'
  BY <1>1, <1>3, <1>4 DEF TypeOK
<1>6. Counted' /\ Roomy' /\ Ordered'
  BY <1>1 DEF Counted, Roomy, Ordered, BurstsFit, Waiting, Capacity
<1>7. Pulled' /\ Timed' /\ Callbacks'
  BY <1>1, <1>2, <1>3, <1>4
     DEF Pulled, Kept, Chosen, AssertionsHold,
         SilenceFillsTheGap, Waiting, Timed, PositionNotAhead, Callbacks, Needed
<1> QED
  BY <1>5, <1>6, <1>7 DEF IInv

LEMMA ChangeInvariant == IInv /\ Change => IInv'
<1> SUFFICES ASSUME IInv, Change PROVE IInv'
  OBVIOUS
<1>1. TypeOK /\ Counted /\ Roomy /\ Ordered /\ Pulled /\ Timed /\ Callbacks
  BY DEF IInv
<1> USE DEF Change, stream, input, output, client, counts
<1>2. TypeOK'
  BY <1>1 DEF TypeOK
<1>3. Counted' /\ Roomy' /\ Ordered'
  BY <1>1 DEF Counted, Roomy, Ordered, BurstsFit, Waiting, Capacity
<1>4. Pulled' /\ Timed' /\ Callbacks'
  BY <1>1
     DEF Pulled, Kept, Chosen, AssertionsHold,
         SilenceFillsTheGap, Waiting, Timed, PositionNotAhead, Callbacks, Needed
<1> QED
  BY <1>2, <1>3, <1>4 DEF IInv

LEMMA SetupInvariant == IInv /\ Setup => IInv'
<1> SUFFICES ASSUME IInv, Setup PROVE IInv'
  OBVIOUS
<1>1. TypeOK /\ Counted /\ Roomy /\ Ordered /\ Pulled /\ Timed /\ Callbacks
  BY DEF IInv
<1> USE DEF Setup, stream, input, output, client
<1>2. /\ Len(ring') = 0 /\ ring' \in Seq(Nat) /\ Capacity \in Nat /\ CallbackFrames \in Nat
      /\ 0 * CallbackFrames = 0
  BY <1>1, SizesLemma DEF TypeOK
<1>3. TypeOK'
  BY <1>1, <1>2 DEF TypeOK
<1>4. Counted' /\ Roomy' /\ Ordered'
  BY <1>1, <1>2 DEF Counted, Roomy, Ordered, BurstsFit, Waiting, Capacity
<1>5. Pulled' /\ Timed' /\ Callbacks'
  BY <1>1, <1>2
     DEF Pulled, Kept, Chosen, AssertionsHold,
         SilenceFillsTheGap, Needed, Waiting, Timed, PositionNotAhead, Callbacks
<1> QED
  BY <1>3, <1>4, <1>5 DEF IInv

LEMMA StepInvariant == IInv /\ [Next]_vars => IInv'
<1> SUFFICES ASSUME IInv, UNCHANGED vars PROVE IInv'
  BY CaptureInvariant, PushInvariant, DeliverInputInvariant, RenderInvariant, LookInvariant,
     TrimInvariant, DiscardInvariant, ChooseInvariant, PullInvariant, PopInvariant,
     FillInvariant, ReadTimingInvariant, PositionInvariant, ChangeInvariant, SetupInvariant
     DEF Next, InputCallback, OutputCallback
<1> USE DEF vars, stream, input, output, client, counts
<1>1. TypeOK'
  BY DEF IInv, TypeOK
<1>2. Counted' /\ Roomy' /\ Ordered'
  BY DEF IInv, Counted, Roomy, Ordered, BurstsFit, Waiting, Capacity
<1>3. Pulled' /\ Timed' /\ Callbacks'
  BY
     DEF IInv, Pulled, Kept, Chosen, AssertionsHold,
         SilenceFillsTheGap, Needed, Waiting, Timed, PositionNotAhead,
         Callbacks, Needed
<1> QED
  BY <1>1, <1>2, <1>3 DEF IInv

LEMMA Invariance == Spec => []IInv
BY InitInvariant, StepInvariant, PTL DEF Spec

(* Types: in particular no count of frames is ever negative. *)
THEOREM TypeCorrect == Spec => []TypeOK
BY Invariance, PTL DEF IInv

(* Frames are dropped only after as many input callbacks in a row as the ring  *)
(* has slack for.                                                              *)
THEOREM BurstsAlwaysFit == Spec => []BurstsFit
BY Invariance, PTL DEF IInv, Roomy

(* An output callback leaves nothing behind that it has seen. *)
THEOREM InputKeepsUp == Spec => []NothingStays
<1>1. IInv => NothingStays
  <2> SUFFICES ASSUME IInv, role = "duplex", opc \in {"idle", "look", "fill"},
                      NEW f \in Elements(ring)
               PROVE  f > mark
    BY DEF NothingStays
  <2>1. PICK i \in 1..Len(ring) : f = ring[i]
    BY DEF Elements, IInv, TypeOK
  <2> QED
    BY <2>1 DEF IInv, Ordered
<1> QED
  BY <1>1, Invariance, PTL

(* No frame found gives way to silence, and where silence is added there is as *)
(* much of it as is missing, or no more than was to be trimmed: whatever the   *)
(* input callback pushes, and whenever a device change begins or ends, between *)
(* the callback's look at the ring and its pop.                                *)
THEOREM SilenceOnlyFills == Spec => []SilenceFillsTheGap
BY Invariance, PTL DEF IInv, Pulled

(* The position is of frames that were rendered. *)
THEOREM PositionBounded == Spec => []PositionNotAhead
BY Invariance, PTL DEF IInv, Timed

(* The assertion of trim never fails. *)
THEOREM TrimFindsFrames == Spec => []AssertionsHold
BY Invariance, PTL DEF IInv, Pulled

-----------------------------------------------------------------------------
(* The frames in the ring have been captured, and are in the order of capture. *)
Sorted ==
    \A i \in 1..Len(ring) :
        /\ ring[i] \in 1..captured
        /\ \A j \in 1..Len(ring) : i < j => ring[i] < ring[j]

(* Up to here the frames have left the ring, or have never been in it.        *)
gone == IF ring = <<>> THEN captured ELSE Head(ring) - 1

LEMMA GoneLemma ==
    ASSUME TypeOK, Sorted
    PROVE  /\ gone \in 0..captured
           /\ \A i \in 1..Len(ring) : ring[i] \in (gone + 1)..captured
<1>1. ring \in Seq(Nat) /\ Len(ring) \in Nat /\ captured \in Nat
  BY DEF TypeOK
<1>2. CASE ring = <<>>
  BY <1>1, <1>2 DEF gone
<1>3. CASE ring # <<>>
  <2>1. 1 \in 1..Len(ring) /\ gone = ring[1] - 1
    BY <1>1, <1>3 DEF gone
  <2>2. ring[1] \in 1..captured
    BY <2>1 DEF Sorted
  <2>3. ASSUME NEW i \in 1..Len(ring) PROVE ring[i] \in ring[1]..captured
    <3>1. ring[i] \in 1..captured /\ (1 < i => ring[1] < ring[i])
      BY <2>1 DEF Sorted
    <3> QED
      BY <1>1, <2>2, <3>1
  <2> QED
    BY <1>1, <2>1, <2>2, <2>3
<1> QED
  BY <1>2, <1>3

(* The first n frames leave the ring.                                         *)
LEMMA LeaveLemma ==
    ASSUME TypeOK, Sorted, NEW n \in 0..Len(ring),
           ring' = Drop(ring, n), captured' = captured
    PROVE  /\ Sorted'
           /\ gone' \in gone..captured
           /\ \A i \in 1..n : ring[i] \in (gone + 1)..gone'
<1>1. ring \in Seq(Nat) /\ Len(ring) \in Nat /\ captured \in Nat /\ n \in Nat
  BY DEF TypeOK
<1>2. /\ ring' \in Seq(Nat) /\ Len(ring') = Len(ring) - n
      /\ \A i \in 1..Len(ring') : ring'[i] = ring[i + n] /\ i + n \in 1..Len(ring)
  <2>1. /\ ring' \in Seq(Nat) /\ Len(ring') = Len(ring) - n
        /\ \A i \in 1..(Len(ring) - n) : ring'[i] = ring[i + n]
    BY <1>1, DropLemma
  <2>2. \A i \in 1..(Len(ring) - n) : i + n \in 1..Len(ring)
    BY <1>1
  <2> QED
    BY <2>1, <2>2
<1>3. Sorted'
  <2> SUFFICES ASSUME NEW i \in 1..Len(ring')
               PROVE  /\ ring'[i] \in 1..captured
                      /\ \A j \in 1..Len(ring') : i < j => ring'[i] < ring'[j]
    BY DEF Sorted
  <2>1. ring'[i] = ring[i + n] /\ ring[i + n] \in 1..captured
    BY <1>2 DEF Sorted
  <2>2. ASSUME NEW j \in 1..Len(ring'), i < j PROVE ring'[i] < ring'[j]
    <3>1. ring'[j] = ring[j + n] /\ i + n \in 1..Len(ring) /\ j + n \in 1..Len(ring)
      BY <1>2
    <3>2. i + n < j + n
      BY <1>1, <2>2
    <3> QED
      BY <2>1, <3>1, <3>2 DEF Sorted
  <2> QED
    BY <2>1, <2>2
<1>4. /\ gone \in 0..captured
      /\ \A i \in 1..Len(ring) : ring[i] \in (gone + 1)..captured
  BY GoneLemma
<1>5. CASE ring' = <<>>
  <2>1. gone' = captured /\ n = Len(ring)
    BY <1>1, <1>2, <1>5 DEF gone
  <2> QED
    BY <1>1, <1>3, <1>4, <2>1
<1>6. CASE ring' # <<>>
  <2>1. 1 \in 1..Len(ring') /\ gone' = ring'[1] - 1
    BY <1>2, <1>6 DEF gone
  <2>2. gone' = ring[1 + n] - 1 /\ 1 + n \in 1..Len(ring)
    BY <1>2, <2>1
  <2>3. ring[1 + n] \in (gone + 1)..captured
    BY <1>4, <2>2
  <2>4. ASSUME NEW i \in 1..n PROVE ring[i] \in (gone + 1)..gone'
    <3>1. i \in 1..Len(ring) /\ i < 1 + n
      BY <1>1
    <3>2. ring[i] \in (gone + 1)..captured /\ ring[i] < ring[1 + n]
      BY <1>4, <2>2, <3>1 DEF Sorted
    <3> QED
      BY <1>1, <1>4, <2>2, <2>3, <3>2
  <2> QED
    BY <1>1, <1>3, <1>4, <2>2, <2>3, <2>4
<1> QED
  BY <1>5, <1>6

LEMMA AppendLemma ==
    ASSUME NEW s \in Seq(Nat), NEW t \in Seq(Nat)
    PROVE  /\ Len(s \o t) = Len(s) + Len(t)
           /\ \A i \in 1..Len(s) : (s \o t)[i] = s[i]
           /\ \A i \in (Len(s) + 1)..(Len(s) + Len(t)) : (s \o t)[i] = t[i - Len(s)]
OBVIOUS

(* The frames of a callback join the ring, as many as there is room for. *)
LEMMA JoinLemma ==
    ASSUME TypeOK, Sorted, Push
    PROVE  /\ Sorted'
           /\ captured' \in Nat /\ captured' >= captured
           /\ gone' \in gone..captured'
           /\ captured' = captured => gone' = gone
<1> DEFINE m == pushing.frames
           n == Lesser(pushing.frames, pushing.room)
           new == [i \in 1..m |-> captured + i]
           sub == SubSeq(new, 1, n)
<1>1. /\ m \in Nat /\ n \in 0..m /\ captured \in Nat
      /\ ring \in Seq(Nat) /\ Len(ring) \in Nat
  BY DEF TypeOK, Lesser
<1>2. ring' = ring \o sub /\ captured' = captured + m
  BY DEF Push
<1> HIDE DEF m, n
<1>3. new \in Seq(Nat) /\ Len(new) = m /\ \A i \in 1..m : new[i] = captured + i
  BY <1>1
<1> HIDE DEF new
<1>4. sub \in Seq(Nat) /\ Len(sub) = n /\ \A i \in 1..n : sub[i] = captured + i
  BY <1>1, <1>3
<1> HIDE DEF sub
<1>5. /\ Len(ring') = Len(ring) + n
      /\ \A i \in 1..Len(ring) : ring'[i] = ring[i]
      /\ \A i \in (Len(ring) + 1)..(Len(ring) + n) : ring'[i] = sub[i - Len(ring)]
  <2>1. sub \in Seq(Nat) /\ Len(sub) = n /\ n \in Nat
    BY <1>1, <1>4
  <2> QED
    BY ONLY <1>1, <1>2, <2>1, AppendLemma
<1>6. ASSUME NEW i \in (Len(ring) + 1)..(Len(ring) + n)
      PROVE  ring'[i] = captured + (i - Len(ring)) /\ i - Len(ring) \in 1..n
  <2>1. i - Len(ring) \in 1..n
    BY <1>1, <1>6
  <2> QED
    BY <1>4, <1>5, <2>1
<1>7. \A i \in 1..Len(ring') : i \in 1..Len(ring) \/ i \in (Len(ring) + 1)..(Len(ring) + n)
  BY <1>1, <1>5
<1>8. Sorted'
  <2> SUFFICES ASSUME NEW i \in 1..Len(ring')
               PROVE  /\ ring'[i] \in 1..captured'
                      /\ \A j \in 1..Len(ring') : i < j => ring'[i] < ring'[j]
    BY DEF Sorted
  <2>1. CASE i \in 1..Len(ring)
    <3>1. ring'[i] = ring[i] /\ ring[i] \in 1..captured
      BY <1>5, <2>1 DEF Sorted
    <3>2. ASSUME NEW j \in 1..Len(ring'), i < j PROVE ring'[i] < ring'[j]
      <4>1. CASE j \in 1..Len(ring)
        BY <1>5, <2>1, <3>2, <4>1 DEF Sorted
      <4>2. CASE j \in (Len(ring) + 1)..(Len(ring) + n)
        BY <1>1, <1>6, <3>1, <4>2
      <4> QED
        BY <1>7, <4>1, <4>2
    <3> QED
      BY <1>1, <1>2, <3>1, <3>2
  <2>2. CASE i \in (Len(ring) + 1)..(Len(ring) + n)
    <3>1. ring'[i] = captured + (i - Len(ring)) /\ i - Len(ring) \in 1..n
      BY <1>6, <2>2
    <3>2. ASSUME NEW j \in 1..Len(ring'), i < j PROVE ring'[i] < ring'[j]
      <4>1. j \in (Len(ring) + 1)..(Len(ring) + n)
        BY <1>1, <1>7, <2>2, <3>2
      <4>2. ring'[j] = captured + (j - Len(ring))
        BY <1>6, <4>1
      <4> QED
        BY <1>1, <3>1, <3>2, <4>2
    <3> QED
      BY <1>1, <1>2, <3>1, <3>2
  <2> QED
    BY <1>7, <2>1, <2>2
<1>9. gone \in 0..captured
  BY GoneLemma
<1>10. gone' \in gone..captured' /\ (captured' = captured => gone' = gone)
  <2>1. CASE ring # <<>>
    <3>1. 1 \in 1..Len(ring) /\ 1 \in 1..Len(ring') /\ ring' # <<>>
      BY <1>1, <1>5, <2>1
    <3>2. gone = ring[1] - 1 /\ gone' = ring'[1] - 1
      BY <1>1, <1>2, <1>4, <2>1, <3>1 DEF gone
    <3>3. gone' = gone
      BY <1>5, <3>1, <3>2
    <3> QED
      BY <1>1, <1>2, <1>9, <3>3
  <2>2. CASE ring = <<>> /\ n = 0
    <3>1. ring' = <<>>
      BY <1>1, <1>2, <1>4, <1>5, <2>2
    <3>2. gone = captured /\ gone' = captured'
      BY <2>2, <3>1 DEF gone
    <3> QED
      BY <1>1, <1>2, <3>2
  <2>3. CASE ring = <<>> /\ n # 0
    <3>1. Len(ring) = 0 /\ 1 \in (Len(ring) + 1)..(Len(ring) + n)
      BY <1>1, <2>3
    <3>2. ring'[1] = captured + 1 /\ ring' # <<>>
      BY <1>1, <1>5, <1>6, <2>3, <3>1
    <3>3. gone = captured /\ gone' = captured
      BY <1>1, <1>2, <1>4, <2>3, <3>2 DEF gone
    <3> QED
      BY <1>1, <1>2, <3>3
  <2> QED
    BY <2>1, <2>2, <2>3
<1> QED
  BY <1>1, <1>2, <1>8, <1>10

-----------------------------------------------------------------------------
LEMMA FramesStep ==
    ASSUME IInv, Sorted, [Next]_vars
    PROVE  Sorted' /\ [Frames!Next]_(Frames!fvars)
<1> USE DEF IInv
<1>1. ASSUME UNCHANGED <<ring, captured, got>>
      PROVE  Sorted' /\ UNCHANGED Frames!fvars
  BY <1>1 DEF Sorted, Frames!fvars
<1>2. CASE Push
  <2>1. /\ Sorted' /\ captured' \in Nat /\ captured' >= captured
        /\ gone' \in gone..captured'
        /\ captured' = captured => gone' = gone
        /\ got' = got /\ captured \in Nat
    BY <1>2, JoinLemma DEF Push, TypeOK
  <2>2. CASE captured' = captured
    BY <2>1, <2>2 DEF Frames!fvars, gone
  <2>3. CASE captured' # captured
    <3>1. Frames!Capture
      BY <2>1, <2>3 DEF Frames!Capture, gone
    <3> QED
      BY <2>1, <3>1 DEF Frames!Next
  <2> QED
    BY <2>2, <2>3
<1>3. CASE DeliverInput \/ Setup
  <2>1. ring' = <<>> /\ captured' = captured /\ got' = got /\ captured \in Nat
    BY <1>3 DEF DeliverInput, Setup, TypeOK
  <2>2. gone \in 0..captured /\ gone' = captured /\ Sorted'
    BY <2>1, GoneLemma DEF gone, Sorted
  <2>3. Frames!PassOver
    BY <2>1, <2>2 DEF Frames!PassOver, gone
  <2> QED
    BY <2>2, <2>3 DEF Frames!Next
<1>4. CASE Discard
  <2>1. /\ popping \in 0..Len(ring) /\ ring' = Drop(ring, popping)
        /\ captured' = captured /\ got' = got
    BY <1>4 DEF Discard, OGoto, Pulled, TypeOK
  <2>2. Sorted' /\ gone' \in gone..captured
    BY <2>1, LeaveLemma
  <2>3. Frames!PassOver
    BY <2>1, <2>2 DEF Frames!PassOver, gone
  <2> QED
    BY <2>2, <2>3 DEF Frames!Next
<1>5. CASE Pop
  <2> DEFINE real == Lesser(popping, call.input)
  <2>1. /\ popping \in 0..Len(ring) /\ ring' = Drop(ring, popping)
        /\ captured' = captured /\ got'.frames = SubSeq(ring, 1, real)
    <3>1. opc = "pop" /\ ring' = Drop(ring, popping)
      BY <1>5 DEF Pop, OGoto
    <3>2. popping \in 0..Len(ring)
      BY <3>1 DEF Pulled, TypeOK
    <3>3. captured' = captured /\ got'.frames = SubSeq(ring, 1, real)
      BY <1>5 DEF Pop
    <3> QED
      BY <3>1, <3>2, <3>3
  <2>2. real \in 0..popping /\ ring \in Seq(Nat) /\ Len(ring) \in Nat
    BY <2>1 DEF Lesser, TypeOK, Calls
  <2> HIDE DEF real
  <2>3. /\ Sorted' /\ gone' \in gone..captured
        /\ \A i \in 1..popping : ring[i] \in (gone + 1)..gone'
    BY <2>1, LeaveLemma
  <2>4. /\ got'.frames \in Seq(Nat) /\ DOMAIN got'.frames = 1..real
        /\ \A i \in 1..real : got'.frames[i] = ring[i] /\ i \in 1..popping /\ i \in 1..Len(ring)
    BY <2>1, <2>2
  <2>5. \A i \in DOMAIN got'.frames :
           /\ got'.frames[i] \in (gone + 1)..gone'
           /\ \A j \in DOMAIN got'.frames : i < j => got'.frames[i] < got'.frames[j]
    BY <2>3, <2>4 DEF Sorted
  <2>6. Frames!Give
    BY <2>1, <2>3, <2>4, <2>5 DEF Frames!Give, Frames!InOrder, gone
  <2> QED
    BY <2>3, <2>6 DEF Frames!Next
<1>6. CASE Fill
  <2>1. ring' = ring /\ captured' = captured /\ got'.frames = <<>>
    BY <1>6 DEF Fill, Nothing
  <2>2. Frames!Return
    BY <2>1 DEF Frames!Return
  <2> QED
    BY <2>1, <2>2 DEF Frames!Next, Sorted
<1>7. CASE Capture \/ Render \/ Look \/ Trim \/ Choose \/ Pull
  BY <1>1, <1>7 DEF Capture, Render, Look, Trim, Choose, Pull
<1>8. CASE ReadTiming \/ Position \/ Change \/ UNCHANGED vars
  BY <1>1, <1>8 DEF ReadTiming, Position, Change, vars
<1> QED
  BY <1>2, <1>3, <1>4, <1>5, <1>6, <1>7, <1>8
     DEF Next, InputCallback, OutputCallback

(* No frame captured is given to the client twice, or out of order: not when   *)
(* the ring was full, trimmed or drained between the two looks of a callback   *)
(* at it, and not over a reinit.                                               *)
THEOREM FramesKept == Spec => KeepsFrames
<1>1. Init => Sorted /\ Frames!Init
  BY DEF Init, Sorted, Nothing, Frames!Init
<1> QED
  BY <1>1, FramesStep, Invariance, PTL DEF Spec, Frames!Spec, KeepsFrames
=============================================================================
