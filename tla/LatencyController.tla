------------------------- MODULE LatencyController -------------------------
(* How the streams of a context agree on a latency (src/backend/mod.rs:       *)
(* LatencyController, stream_init, destroy_internal).  They are created,      *)
(* reopened and destroyed by threads of their own; the buffer of the device   *)
(* they share is resized by each of them when it is set up.                   *)
EXTENDS Integers, FiniteSets

CONSTANTS
    Users,     \* the streams
    Requests,  \* the latencies, in frames, that clients ask for
    NoLatency  \* the latency of a controller without streams

SafeMin == 128
SafeMax == 512

ASSUME UsersAssumption == IsFiniteSet(Users)
ASSUME RequestsAssumption == Requests \subseteq Nat
ASSUME NoLatencyAssumption == NoLatency \notin Int

VARIABLES
    pc,       \* what the thread of each stream does
    frames,   \* latency_frames of each stream
    streams,  \* the controller's count
    latency,  \* and the latency it has settled
    buffer    \* the size of the device's buffer

vars == <<pc, frames, streams, latency, buffer>>

States == {"none", "setup", "resized", "open", "reopen", "closed", "checked"}
Frames == SafeMin..SafeMax

(* The streams the controller has to count. *)
Counted == {s \in Users : pc[s] # "none"}

TypeOK ==
    /\ pc \in [Users -> States]
    /\ frames \in [Users -> Frames \cup {NoLatency}]
    /\ streams \in Nat
    /\ latency \in Frames \cup {NoLatency}
    /\ buffer \in Nat

Init ==
    /\ pc = [s \in Users |-> "none"]
    /\ frames = [s \in Users |-> NoLatency]
    /\ streams = 0
    /\ latency = NoLatency
    /\ buffer \in Requests

Clamp(l) == IF l < SafeMin THEN SafeMin ELSE IF l > SafeMax THEN SafeMax ELSE l

Goto(s, from, to) == pc[s] = from /\ pc' = [pc EXCEPT ![s] = to]

(* Mutant: every stream gets the latency it asks for. *)
AddStreamOwn(s, l) ==
    /\ Goto(s, "none", "setup")
    /\ streams' = streams + 1
    /\ latency' = Clamp(l)
    /\ frames' = [frames EXCEPT ![s] = latency']
    /\ UNCHANGED buffer

(* add_stream: the first stream settles the latency. *)
AddStream(s, l) ==
    /\ Goto(s, "none", "setup")
    /\ streams' = streams + 1
    /\ latency' = IF streams = 0 THEN Clamp(l) ELSE latency
    /\ frames' = [frames EXCEPT ![s] = latency']
    /\ UNCHANGED buffer

(* setup, on the thread of the stream's queue: set_buffer_size_sync, then all *)
(* the rest, which may fail like what comes before.                           *)
Resize(s) ==
    /\ pc[s] \in {"setup", "reopen"}
    /\ pc' = [pc EXCEPT ![s] = "resized"]
    /\ buffer' = frames[s]
    /\ UNCHANGED <<frames, streams, latency>>

SetupEnds(s) == Goto(s, "resized", "open") /\ UNCHANGED <<frames, streams, latency, buffer>>

(* Mutant: a stream that could not be set up is forgotten. *)
SetupFailsUncounted(s) ==
    /\ pc[s] \in {"setup", "resized", "reopen"}
    /\ pc' = [pc EXCEPT ![s] = "none"]
    /\ UNCHANGED <<frames, streams, latency, buffer>>

(* A stream that cannot be set up is dropped by stream_init, and stays closed *)
(* until its client destroys it when it had been open before.                 *)
SetupFails(s) ==
    /\ pc[s] \in {"setup", "resized", "reopen"}
    /\ pc' = [pc EXCEPT ![s] = "closed"]
    /\ UNCHANGED <<frames, streams, latency, buffer>>

(* reinit closes a stream and sets it up again. *)
Reopen(s) == Goto(s, "open", "reopen") /\ UNCHANGED <<frames, streams, latency, buffer>>

(* destroy_internal: close, look at active_streams, and only then take the    *)
(* stream off; the lock is released in between.                               *)
Close(s) == Goto(s, "open", "closed") /\ UNCHANGED <<frames, streams, latency, buffer>>

CheckActive(s) == Goto(s, "closed", "checked") /\ UNCHANGED <<frames, streams, latency, buffer>>

(* Mutant: each stream that goes clears the latency. *)
SubtractStreamClears(s) ==
    /\ Goto(s, "checked", "none")
    /\ streams' = streams - 1
    /\ latency' = NoLatency
    /\ frames' = [frames EXCEPT ![s] = NoLatency]
    /\ UNCHANGED buffer

(* subtract_stream: the last stream unsettles the latency. *)
SubtractStream(s) ==
    /\ Goto(s, "checked", "none")
    /\ streams' = streams - 1
    /\ latency' = IF streams' = 0 THEN NoLatency ELSE latency
    /\ frames' = [frames EXCEPT ![s] = NoLatency]
    /\ UNCHANGED buffer

Next ==
    \E s \in Users :
        \/ \E l \in Requests : AddStream(s, l)
        \/ Resize(s) \/ SetupEnds(s) \/ SetupFails(s)
        \/ Reopen(s)
        \/ Close(s) \/ CheckActive(s) \/ SubtractStream(s)

Spec == Init /\ [][Next]_vars

-----------------------------------------------------------------------------
(* The assertions of add_stream, subtract_stream and destroy_internal, from   *)
(* what makes them hold: the controller counts the streams there are, and has *)
(* a latency exactly while there are some.                                    *)
CountsStreams ==
    /\ streams = Cardinality(Counted)
    /\ latency = NoLatency <=> streams = 0

(* Streams that exist at the same time have the same latency, within the safe *)
(* range: the tests of parallel streams compare them.                         *)
OneLatency ==
    \A s \in Counted : frames[s] = latency /\ frames[s] \in Frames

(* Setting a stream up never takes the buffer of the device away from under   *)
(* another one: an open stream finds the size it has asked for.               *)
BufferFits ==
    \A s \in Users : pc[s] \in {"resized", "open"} => buffer = frames[s]
=============================================================================
