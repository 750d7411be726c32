-------------------------- MODULE DuplexCallbacks --------------------------
(* The two render callbacks of a stream and the data between them: the ring   *)
(* buffer of src/backend/buffer_manager.rs, the frame counters, and the       *)
(* position the client asks for.  The input callback, the output callback and *)
(* the client run on threads of their own.                                    *)
(*                                                                            *)
(* A frame is a number, in the order of capture: what the samples are is left *)
(* out, and the ring is counted in frames (only whole frames enter and leave  *)
(* it).  The flags stopped and draining, and so whether a callback renders at *)
(* all, are AudioUnitStream's.                                                *)
EXTENDS Naturals, Sequences, FiniteSets

CONSTANTS
    Roles,          \* the kinds of streams: "input", "output", "duplex"
    Upmixes,        \* samples pulled per sample stored: > 1 when mono is upmixed
    CallbackFrames, \* SAFE_MAX_LATENCY_FRAMES: the largest callback expected
    Slack,          \* how many of those the ring holds (8)
    InputRate, OutputRate,
    Outputs,        \* what the output unit may ask for
    Latencies,      \* the output latencies that may be computed
    Asked,          \* bound: the kinds whose client asks for the position
    MaxCaptured, MaxWritten, MaxSetups  \* bounds

ASSUME SizesAssumption ==
    /\ CallbackFrames \in Nat \ {0} /\ Slack \in Nat \ {0}
    /\ Upmixes \subseteq Nat \ {0}
    /\ InputRate \in Nat \ {0} /\ OutputRate \in Nat \ {0}
    /\ Outputs \subseteq Nat \ {0}
    /\ Latencies \subseteq Nat
    /\ MaxCaptured \in Nat /\ MaxWritten \in Nat /\ MaxSetups \in Nat

ASSUME RolesAssumption ==
    /\ Roles \subseteq {"input", "output", "duplex"}
    /\ Asked \subseteq Roles

VARIABLES
    role, upmix,    \* of the stream; they never change
    ring,           \* the frames in the ring buffer
    framesRead, framesWritten, framesQueued,
    changing,       \* switching_device or reinit_pending is set
    ipc, pushing,   \* the input callback: where it is; what it pushes, into what room
    opc, call,      \* the output callback: where it is; what it has computed (excused:
                    \* the device changed or no input was read when it chose)
    popping,        \* how many frames are being removed from the ring
    got,            \* what the resampler was given: frames, and silence after them
    latency,        \* total_output_latency_frames
    timing,         \* output_callback_timing_data
    ppc, snapshot,  \* the client in position, and what it has read of timing
    position,       \* prev_position
    \* history
    captured,       \* the number of frames captured
    mark,           \* the last frame captured before the output callback looked
    newer, older,   \* callbacks that pushed since it looked; since it looked the
                    \* time before, until it has pulled
    setups

stream == <<role, upmix>>
input == <<ipc, pushing>>
output == <<opc, call, popping, latency, timing>>
client == <<ppc, snapshot, position>>
counts == <<newer, older>>
vars == <<stream, ring, framesRead, framesWritten, framesQueued, changing,
          input, output, got, client, captured, mark, counts, setups>>

Lesser(a, b) == IF a < b THEN a ELSE b
Drop(s, n) == SubSeq(s, n + 1, Len(s))
Elements(s) == {s[i] : i \in DOMAIN s}

(* Mutant: room for the samples of one callback only. *)
CapacityOfOne == CallbackFrames * upmix

(* BufferManager::new: the ring has the channels the client asked for, and so *)
(* room for more frames when it stores mono.                                  *)
Capacity == Slack * CallbackFrames * upmix

(* minimum_resampling_input_frames: the input a full output buffer takes. *)
Needed(n) == (InputRate * n + OutputRate - 1) \div OutputRate

Calls == [out : Nat, prev : Nat, buffered : Nat, input : Nat,
          trimmed : BOOLEAN, excused : BOOLEAN]

TypeOK ==
    /\ role \in Roles /\ upmix \in Upmixes
    /\ ring \in Seq(Nat)
    /\ framesRead \in Nat /\ framesWritten \in Nat /\ framesQueued \in Nat
    /\ changing \in BOOLEAN
    /\ ipc \in {"idle", "push", "deliver"}
    /\ pushing \in [frames : Nat, room : Nat, burst : Nat]
    /\ opc \in {"idle", "look", "trim", "discard", "choose", "pull", "pop", "fill"}
    /\ call \in Calls
    /\ popping \in Nat
    /\ got \in [frames : Seq(Nat), silence : Nat]
    /\ latency \in Nat
    /\ timing \in [queued : Nat, size : Nat]
    /\ ppc \in {"idle", "latency"}
    /\ snapshot \in [queued : Nat, size : Nat]
    /\ position \in Nat
    /\ captured \in Nat /\ mark \in Nat
    /\ newer \in Nat /\ older \in Nat /\ setups \in Nat

NoPush == [frames |-> 0, room |-> 0, burst |-> 0]
NoCall == [out |-> 0, prev |-> 0, buffered |-> 0, input |-> 0,
           trimmed |-> FALSE, excused |-> FALSE]
Nothing == [frames |-> <<>>, silence |-> 0]

Init ==
    /\ role \in Roles /\ upmix \in Upmixes
    /\ ring = <<>>
    /\ framesRead = 0 /\ framesWritten = 0 /\ framesQueued = 0
    /\ changing = FALSE
    /\ ipc = "idle" /\ pushing = NoPush
    /\ opc = "idle" /\ call = NoCall /\ popping = 0
    /\ got = Nothing
    /\ latency = 0
    /\ timing = [queued |-> 0, size |-> 0]
    /\ ppc = "idle" /\ snapshot = [queued |-> 0, size |-> 0] /\ position = 0
    /\ captured = 0 /\ mark = 0
    /\ newer = 0 /\ older = 0 /\ setups = 0

-----------------------------------------------------------------------------
(* The input callback                                                         *)

(* audio_unit_render succeeds, and push_slice looks how much room there is. *)
Capture ==
    /\ role # "output" /\ ipc = "idle"
    /\ \E n \in 1..CallbackFrames :
          /\ captured + n <= MaxCaptured
          /\ pushing' = [frames |-> n, room |-> Capacity - Len(ring), burst |-> older]
    /\ ipc' = "push"
    /\ UNCHANGED <<stream, ring, framesRead, framesWritten, framesQueued, changing,
                   output, got, client, captured, mark, counts, setups>>

(* push_data: frames for which there is no room are not stored. *)
Push ==
    LET fit == Lesser(pushing.frames, pushing.room)
        new == [i \in 1..pushing.frames |-> captured + i]
    IN /\ ipc = "push"
       /\ ring' = ring \o SubSeq(new, 1, fit)
       /\ captured' = captured + pushing.frames
       /\ pushing' = NoPush
       /\ newer' = newer + 1 /\ older' = older + 1
       /\ ipc' = IF role = "input" THEN "deliver" ELSE "idle"
       /\ UNCHANGED <<stream, framesRead, framesWritten, framesQueued, changing,
                      output, got, client, mark, setups>>

(* Without an output unit all there is goes to the client at once. *)
DeliverInput ==
    /\ ipc = "deliver"
    /\ framesRead' = framesRead + Len(ring)
    /\ ring' = <<>>
    /\ older' = 0
    /\ ipc' = "idle"
    /\ UNCHANGED <<stream, framesWritten, framesQueued, changing, pushing, output,
                   got, client, captured, mark, newer, setups>>

-----------------------------------------------------------------------------
(* The output callback                                                        *)

OGoto(from, to) == opc = from /\ opc' = to

(* The latency is stored, and frames_written loaded and increased. *)
Render ==
    /\ role # "input" /\ opc = "idle"
    /\ \E n \in Outputs, l \in Latencies :
          /\ framesWritten + n <= MaxWritten
          /\ latency' = l
          /\ call' = [call EXCEPT !.out = n, !.prev = framesWritten]
          /\ framesWritten' = framesWritten + n
    /\ opc' = IF role = "duplex" THEN "look" ELSE "fill"
    /\ UNCHANGED <<stream, ring, framesRead, framesQueued, changing, input, popping,
                   got, timing, client, captured, mark, counts, setups>>

(* available_frames.  At its first call an output that started late trims.    *)
Look ==
    /\ OGoto("look", IF call.prev = 0 /\ Len(ring) > Needed(call.out)
                       THEN "trim" ELSE "choose")
    /\ call' = [call EXCEPT !.buffered = Len(ring), !.trimmed = FALSE]
    /\ mark' = captured /\ newer' = 0
    /\ UNCHANGED <<stream, ring, framesRead, framesWritten, framesQueued, changing,
                   input, popping, got, latency, timing, client, captured,
                   older, setups>>

(* Mutant: the number to keep is taken for the number to discard. *)
TrimDropsNeeded ==
    /\ OGoto("trim", "discard")
    /\ popping' = Needed(call.out)
    /\ UNCHANGED <<stream, ring, framesRead, framesWritten, framesQueued, changing,
                   input, call, got, latency, timing, client, captured, mark, counts, setups>>

(* trim: how many frames are there now, and discard all but the newest needed. *)
Trim ==
    /\ OGoto("trim", "discard")
    /\ popping' = Len(ring) - Needed(call.out)
    /\ UNCHANGED <<stream, ring, framesRead, framesWritten, framesQueued, changing,
                   input, call, got, latency, timing, client, captured, mark, counts, setups>>

Discard ==
    /\ OGoto("discard", "choose")
    /\ ring' = Drop(ring, popping)
    /\ call' = [call EXCEPT !.trimmed = TRUE]
    /\ popping' = 0
    /\ UNCHANGED <<stream, framesRead, framesWritten, framesQueued, changing, input,
                   got, latency, timing, client, captured,
                   mark, counts, setups>>

(* Silence makes up for input that is missing because the device is changing  *)
(* or the input has not started.                                              *)
Excused ==
    Needed(call.out) > call.buffered /\ (changing \/ framesRead = 0)

Choose ==
    LET n == IF Excused THEN Needed(call.out) ELSE call.buffered
    IN /\ OGoto("choose", "pull")
       /\ call' = [call EXCEPT !.input = n, !.excused = changing \/ framesRead = 0]
       /\ framesRead' = framesRead + n
       /\ UNCHANGED <<stream, ring, framesWritten, framesQueued, changing, input,
                      popping, got, latency, timing, client, captured, mark, counts, setups>>

(* Mutant: no more than the output takes is pulled. *)
PullNeeded ==
    /\ OGoto("pull", "pop")
    /\ popping' = Lesser(Len(ring), Needed(call.out))
    /\ UNCHANGED <<stream, ring, framesRead, framesWritten, framesQueued, changing,
                   input, call, got, latency, timing, client, captured, mark, counts, setups>>

(* pull_data: pop_slice fills the buffer of the samples that are needed, which *)
(* when mono is upmixed has room for more than the frames that are needed.     *)
Pull ==
    /\ OGoto("pull", "pop")
    /\ popping' = Lesser(Len(ring), call.input * upmix)
    /\ UNCHANGED <<stream, ring, framesRead, framesWritten, framesQueued, changing,
                   input, call, got, latency, timing, client, captured, mark, counts, setups>>

(* Mutant: of the frames given to the resampler one stays in the ring. *)
PopLeavesOne ==
    LET real == Lesser(popping, call.input)
    IN /\ OGoto("pop", "fill")
       /\ got' = [frames |-> SubSeq(ring, 1, real), silence |-> call.input - real]
       /\ popping' = 0
       /\ ring' = Drop(ring, IF popping > 0 THEN popping - 1 ELSE 0)
       /\ older' = newer
       /\ UNCHANGED <<stream, framesRead, framesWritten, framesQueued, changing, input,
                      call, latency, timing, client, captured,
                      mark, newer, setups>>

(* The upmix overwrites the rest; silence is put where frames are missing. *)
Pop ==
    LET real == Lesser(popping, call.input)
    IN /\ OGoto("pop", "fill")
       /\ got' = [frames |-> SubSeq(ring, 1, real), silence |-> call.input - real]
       /\ popping' = 0
       /\ ring' = Drop(ring, popping)
       /\ older' = newer
       /\ UNCHANGED <<stream, framesRead, framesWritten, framesQueued, changing, input,
                      call, latency, timing, client, captured,
                      mark, newer, setups>>

(* Mutant: the frames are counted before the time is published. *)
FillCountsFirst ==
    /\ OGoto("fill", "idle")
    /\ \/ UNCHANGED <<timing, framesQueued>>
       \/ \E n \in 0..call.out :
             /\ framesQueued' = framesQueued + n
             /\ timing' = [queued |-> framesQueued', size |-> n]
    /\ call' = NoCall /\ got' = Nothing
    /\ UNCHANGED <<stream, ring, framesRead, framesWritten, changing, input,
                   popping, latency, client, captured, mark, counts, setups>>

(* Resampler::fill returns an error, or the number of frames it has written. *)
Fill ==
    /\ OGoto("fill", "idle")
    /\ \/ UNCHANGED <<timing, framesQueued>>
       \/ \E n \in 0..call.out :
             /\ timing' = [queued |-> framesQueued, size |-> n]
             /\ framesQueued' = framesQueued + n
    /\ call' = NoCall /\ got' = Nothing
    /\ UNCHANGED <<stream, ring, framesRead, framesWritten, changing, input,
                   popping, latency, client, captured, mark,
                   counts, setups>>

-----------------------------------------------------------------------------
(* The client and the queue                                                   *)

ReadTiming ==
    /\ ppc = "idle" /\ role \in Asked
    /\ snapshot' = timing
    /\ ppc' = "latency"
    /\ UNCHANGED <<stream, ring, framesRead, framesWritten, framesQueued, changing,
                   input, output, got, position, captured, mark,
                   counts, setups>>

(* The latency is loaded; n frames have been played since the time stamp. *)
PlayedOut(n) ==
    IF latency = 0 THEN snapshot.queued
    ELSE IF latency > snapshot.queued THEN 0
    ELSE (snapshot.queued - latency) + n

Position ==
    /\ ppc = "latency"
    /\ \E n \in 0..snapshot.size :
          position' = IF PlayedOut(n) > position THEN PlayedOut(n) ELSE position
    /\ ppc' = "idle" /\ snapshot' = [queued |-> 0, size |-> 0]
    /\ UNCHANGED <<stream, ring, framesRead, framesWritten, framesQueued, changing,
                   input, output, got, captured, mark,
                   counts, setups>>

(* A device change begins or ends (switching_device, reinit_pending). *)
Change ==
    /\ changing' = ~changing
    /\ UNCHANGED <<stream, ring, framesRead, framesWritten, framesQueued, input,
                   output, got, client, captured, mark, counts, setups>>

(* CoreStreamData::setup, of a reinit: the units have been stopped. *)
Setup ==
    /\ ipc = "idle" /\ opc = "idle"
    /\ setups < MaxSetups /\ setups' = setups + 1
    /\ ring' = <<>>
    /\ framesRead' = 0 /\ framesWritten' = 0
    /\ newer' = 0 /\ older' = 0
    /\ UNCHANGED <<stream, framesQueued, changing, input, output, got, client,
                   captured, mark>>

InputCallback == Capture \/ Push \/ DeliverInput
OutputCallback ==
    Render \/ Look \/ Trim \/ Discard \/ Choose \/ Pull \/ Pop \/ Fill
Next ==
    InputCallback \/ OutputCallback \/ ReadTiming \/ Position \/ Change \/ Setup

Spec == Init /\ [][Next]_vars

-----------------------------------------------------------------------------
(* Properties                                                                 *)

(* "8 times the expected callback size, to handle the input callback being    *)
(* called multiple times in a row correctly": a frame finds no room only if   *)
(* that many input callbacks came since the last output callback that pulled  *)
(* had looked, however the threads overlap.                                   *)
BurstsFit ==
    ipc = "push" /\ pushing.room < pushing.frames => pushing.burst >= Slack

(* The input does not lag: what an output callback found when it looked has   *)
(* left the ring when it calls the client.                                    *)
NothingStays ==
    role = "duplex" /\ opc \in {"idle", "look", "fill"} =>
        \A f \in Elements(ring) : f > mark

(* No frame found gives way to silence: an output callback gives the client   *)
(* those it found when it looked, or as many as the output takes, whatever is *)
(* pushed, trimmed or changed meanwhile.  Silence is added when the device    *)
(* changes or frames_read is still 0, and then up to what the output takes;   *)
(* and when the ring has been trimmed, for the count is not read again, and   *)
(* then no more of it than the frames that were to be trimmed.                *)
SilenceFillsTheGap ==
    opc = "fill" /\ role = "duplex" =>
        /\ Len(got.frames) >= Lesser(Needed(call.out), call.buffered)
        /\ got.silence > 0 =>
              IF call.trimmed THEN got.silence <= call.buffered - Needed(call.out)
              ELSE call.excused /\ Len(got.frames) + got.silence = Needed(call.out)

(* The position never runs ahead of the frames given to the output, whichever *)
(* callbacks and latencies its reads of timing and latency fall between.      *)
PositionNotAhead == position <= framesQueued

(* The assertion of trim: it finds the frames it is to keep, whatever has been *)
(* pushed since the callback looked.                                           *)
AssertionsHold == opc = "trim" => Len(ring) >= Needed(call.out)

(* The frames captured reach the client as FrameContract promises, whatever   *)
(* the two callbacks do between the two looks of a push or a pop at the ring: *)
(* what is not in the ring has been given, or passed over.                    *)
Frames == INSTANCE FrameContract
    WITH gone <- IF ring = <<>> THEN captured ELSE Head(ring) - 1,
         given <- got.frames
KeepsFrames == Frames!Spec

-----------------------------------------------------------------------------
(* What a comment says and the code does not do                               *)

(* "If we had more than expected callbacks in a row, or we're currently       *)
(* switching, we add some silence as well to compensate for the fact that     *)
(* we're lacking some input data": the output never lacks input.  It does:    *)
(* of the two reasons the code tests the second, and whether any input has    *)
(* been read; after callbacks in a row it passes on what there is.            *)
LackMadeUp ==
    opc = "fill" /\ role = "duplex" =>
        Len(got.frames) + got.silence >= Needed(call.out)
=============================================================================
