-------------------------- MODULE VoiceProcessing --------------------------
(* What streams do with the voice processing units of the pool (SharedStorage): *)
(* they take one in setup, return it in close, and keep it muted and configured *)
(* as the client has asked, through reinits and whoever had the unit before.    *)
(*                                                                              *)
(* The task queues of the streams and the pool's have one serial queue as their *)
(* target, so one task runs at a time: a task of several steps is a turn.  Each *)
(* stream has a client thread as well.  A call of the client checks the stream  *)
(* on its thread, acts on the queue, and remembers what it has set on its       *)
(* thread again.  The flag stopped and its races are AudioUnitStream's: here a  *)
(* stream is started or not.                                                    *)
EXTENDS SharedStorage

CONSTANTS
    Callers,    \* bound: who starts streams and makes which calls
    Requests    \* the processing parameters clients ask for

Parameters == [agc : BOOLEAN, aec : BOOLEAN]    \* aec and ns are always equal
None == [agc |-> FALSE, aec |-> FALSE]
Defaults == [agc |-> TRUE, aec |-> TRUE]

ASSUME RequestsAssumption == Requests \subseteq Parameters
ASSUME CallersAssumption == Callers \subseteq Users \X {"start", "mute", "params"}

VARIABLES
    setting,    \* setting[e]: what unit e has been set to
    stage,      \* stage[s]: what the queue of stream s does
    why,        \* why[s]: the task that opens or closes it
    started,    \* the streams that are started
    mute, params,   \* input_mute, input_processing_params: what is remembered
    call,       \* call[s]: the client's call
    crossed,    \* history: the streams whose unit was set up again between a call's
                \* setting it and its remembering, and the kind of the call
    halfway     \* history: streams with only a part of the parameters set

queues == <<stage, why, started>>
client == <<mute, params, call>>
history == <<crossed, halfway>>
voice == <<setting, queues, client, history>>
allVars == <<vars, voice>>

Stages == {"none", "acquire", "refused", "setup", "start", "open", "broken", "dead", "close"}
Tasks == {"none", "init", "change", "start", "destroy"}
Kinds == {"mute", "params"}
ClientCalls ==
    [at : {"idle", "checked", "applied", "panic"}, kind : Kinds,
     mute : BOOLEAN, params : Parameters]
NoCall == [at |-> "idle", kind |-> "mute", mute |-> FALSE, params |-> None]

VoiceTypeOK ==
    /\ TypeOK
    /\ setting \in [VPUnits -> [mute : BOOLEAN, agc : BOOLEAN, aec : BOOLEAN]]
    /\ stage \in [Users -> Stages]
    /\ why \in [Users -> Tasks]
    /\ started \in SUBSET Users
    /\ mute \in [Users -> BOOLEAN]
    /\ params \in [Users -> Parameters]
    /\ call \in [Users -> ClientCalls]
    /\ crossed \in SUBSET (Users \X Kinds) /\ halfway \in SUBSET Users

New == [mute |-> FALSE, agc |-> TRUE, aec |-> TRUE]

VoiceInit ==
    /\ Init
    /\ setting = [e \in VPUnits |-> New]
    /\ stage = [s \in Users |-> "none"]
    /\ why = [s \in Users |-> "none"]
    /\ started = {}
    /\ mute = [s \in Users |-> FALSE]
    /\ params = [s \in Users |-> None]
    /\ call = [s \in Users |-> NoCall]
    /\ crossed = {} /\ halfway = {}

Voiced(s) == held[s] # NoUnit       \* using_voice_processing_unit
Applied(s, kind) == call[s].at = "applied" /\ call[s].kind = kind

(* No task has begun that has not ended. *)
Resting == {"none", "open", "broken", "dead"}
NobodysTurn == \A u \in Users : stage[u] \in Resting

Begin(s, st, task) ==
    stage' = [stage EXCEPT ![s] = st] /\ why' = [why EXCEPT ![s] = task]
Become(s, st) == Begin(s, st, IF st \in Resting THEN "none" ELSE why[s])

(* The stream exists, and a task may begin; one the client waits for needs a    *)
(* client that makes no other call.                                             *)
Ready(s) == NobodysTurn /\ stage[s] # "none"
Free(s) == NobodysTurn /\ call[s] = NoCall

(* S with or without x. *)
Marked(S, x, is) == IF is THEN S \cup {x} ELSE S \ {x}

(* set_input_processing_params on unit e; it may fail after the first half. *)
SetParams(e, p, ok) ==
    \/ ok /\ setting' = [setting EXCEPT ![e].agc = p.agc, ![e].aec = p.aec]
    \/ ~ok /\ setting' = [setting EXCEPT ![e].agc = p.agc]
    \/ ~ok /\ UNCHANGED setting

(* stop_audiounits resets the parameters "in case VPIO is reused later", and    *)
(* only logs that this fails.                                                   *)
Reset(s) ==
    IF Voiced(s) THEN \E ok \in BOOLEAN : SetParams(held[s], Defaults, ok)
                 ELSE UNCHANGED setting

ResetIfStarted(s) == IF s \in started THEN Reset(s) ELSE UNCHANGED setting

-----------------------------------------------------------------------------
(* The tasks of a stream's queue                                              *)

NewStream(s) ==
    /\ stage[s] = "none" /\ Free(s) /\ ~final
    /\ Begin(s, "acquire", "init")
    /\ UNCHANGED <<vars, setting, started, client, history>>

(* An error: stream_init drops the stream, reinit_async closes it, and start   *)
(* leaves the stream as it is, to try again.                                   *)
Fail(s) ==
    /\ Become(s, IF why[s] = "start" THEN "broken" ELSE "close")
    /\ started' = started \ {s}

(* create_audiounits: without a voice processing unit it takes regular ones.   *)
Acquire(s) ==
    /\ stage[s] = "acquire"
    /\ \/ /\ Take(s) \/ Create(s)
          /\ Become(s, "setup") \/ Become(s, "refused")
          /\ UNCHANGED <<setting, started>>
       \/ Become(s, "open") /\ UNCHANGED <<vars, setting, started>>
       \/ Fail(s) /\ UNCHANGED <<vars, setting>>
    /\ UNCHANGED <<client, history>>

(* The unit does not take the devices: it is returned, and regular ones are    *)
(* created instead.                                                            *)
Regular(s) ==
    /\ stage[s] = "refused" /\ pc[s] = "idle"
    /\ \/ Become(s, "open") /\ UNCHANGED started
       \/ Fail(s)
    /\ UNCHANGED <<vars, setting, client, history>>

(* Mutant: setup leaves the mute state of the unit as it finds it. *)
SetupNotMuted(s) ==
    /\ stage[s] = "setup"
    /\ \/ /\ Become(s, IF s \in started THEN "start" ELSE "open")
          /\ crossed' = Marked(crossed, <<s, "mute">>, Applied(s, "mute"))
          /\ UNCHANGED <<setting, started>>
       \/ Fail(s) /\ UNCHANGED <<setting, crossed>>
    /\ UNCHANGED <<vars, client, halfway>>

(* The end of setup: "Always try to remember the applied input mute state".    *)
Setup(s) ==
    /\ stage[s] = "setup"
    /\ \/ /\ setting' = [setting EXCEPT ![held[s]].mute = mute[s]]
          /\ Become(s, IF s \in started THEN "start" ELSE "open")
          /\ crossed' = Marked(crossed, <<s, "mute">>, Applied(s, "mute"))
          /\ UNCHANGED started
       \/ Fail(s) /\ UNCHANGED <<setting, crossed>>
    /\ UNCHANGED <<vars, client, halfway>>

(* Mutant: only a stream with parameters other than the defaults sets them. *)
StartUnitsLazy(s, ok) ==
    /\ IF Voiced(s) /\ params[s] # None
         THEN SetParams(held[s], params[s], ok) ELSE UNCHANGED setting
    /\ crossed' = Marked(crossed, <<s, "params">>, Applied(s, "params"))
    /\ halfway' = Marked(halfway, s, ~ok)

(* start_audiounits sets the remembered parameters of a unit it has started. *)
StartUnits(s, ok) ==
    /\ IF Voiced(s) THEN SetParams(held[s], params[s], ok) ELSE UNCHANGED setting
    /\ crossed' = Marked(crossed, <<s, "params">>, Applied(s, "params"))
    /\ halfway' = Marked(halfway, s, ~ok)

(* The end of reinit. *)
Restart(s) ==
    /\ stage[s] = "start"
    /\ \E ok \in BOOLEAN :
          /\ StartUnits(s, ok)
          /\ IF ok THEN Become(s, "open") /\ UNCHANGED started ELSE Fail(s)
    /\ UNCHANGED <<vars, client>>

(* The client starts the stream.  If it fails the unit may have half of the    *)
(* parameters, but the stream is not started.                                  *)
Start(s) ==
    /\ stage[s] = "open" /\ s \notin started /\ Free(s) /\ <<s, "start">> \in Callers
    /\ \E ok \in BOOLEAN :
          StartUnits(s, ok) /\ started' = Marked(started, s, ok)
    /\ UNCHANGED <<vars, stage, why, client>>

(* reinit, of a change while the stream was stopped, when it is started. *)
StartChanged(s) ==
    /\ stage[s] \in {"open", "broken"} /\ s \notin started /\ Free(s) /\ <<s, "start">> \in Callers
    /\ Reset(s)
    /\ started' = started \cup {s}
    /\ Begin(s, "close", "start")
    /\ UNCHANGED <<vars, client, history>>

(* reinit_async: nothing is done to a stream that is not started. *)
Change(s) ==
    /\ stage[s] = "open" /\ s \in started /\ Ready(s)
    /\ Reset(s)
    /\ Begin(s, "close", "change")
    /\ UNCHANGED <<vars, started, client, history>>

Stop(s) ==
    /\ stage[s] = "open" /\ s \in started /\ Free(s)
    /\ Reset(s)
    /\ started' = started \ {s}
    /\ UNCHANGED <<vars, stage, why, client, history>>

Destroy(s) ==
    /\ Ready(s) /\ Free(s)
    /\ ResetIfStarted(s)
    /\ started' = started \ {s}
    /\ Begin(s, "close", "destroy")
    /\ UNCHANGED <<vars, client, history>>

(* close drops the handle of the unit, or get_voiceprocessing_audiounit does. *)
ReturnUnit(s) == stage[s] \in {"close", "refused"} /\ Drop(s) /\ UNCHANGED voice

(* close is done: reinit goes on, unless it has failed. *)
Closed(s) ==
    /\ stage[s] = "close" /\ pc[s] = "idle"
    /\ IF why[s] \in {"init", "destroy"}
         THEN /\ Become(s, "none")
              /\ mute' = [mute EXCEPT ![s] = FALSE]
              /\ params' = [params EXCEPT ![s] = None]
         ELSE /\ Become(s, IF s \in started THEN "acquire" ELSE "dead")
              /\ UNCHANGED <<mute, params>>
    /\ crossed' = crossed \ ({s} \X Kinds) /\ halfway' = halfway \ {s}
    /\ UNCHANGED <<vars, setting, started, call>>

-----------------------------------------------------------------------------
(* set_input_mute and set_input_processing_params                             *)

(* On the client's thread: the stream has a voice processing unit. *)
Check(s) ==
    /\ stage[s] \in Resting \/ (why[s] = "change" /\ stage[s] # "refused")
    /\ Voiced(s) /\ call[s] = NoCall
    /\ \/ <<s, "mute">> \in Callers /\ \E m \in BOOLEAN :
             call' = [call EXCEPT ![s] = [NoCall EXCEPT !.at = "checked", !.mute = m]]
       \/ <<s, "params">> \in Callers /\ \E p \in Requests :
             call' = [call EXCEPT ![s] =
                        [NoCall EXCEPT !.at = "checked", !.kind = "params", !.params = p]]
    /\ UNCHANGED <<vars, setting, queues, mute, params, history>>

Checked(s, kind) == call[s].at = "checked" /\ call[s].kind = kind
To(s, at) == call' = [call EXCEPT ![s].at = at]
Return(s) == call' = [call EXCEPT ![s] = NoCall]

(* On the queue.  Regular units do not know the property. *)
ApplyMute(s) ==
    /\ Checked(s, "mute") /\ Ready(s) /\ Voiced(s)
    /\ \/ /\ setting' = [setting EXCEPT ![held[s]].mute = call[s].mute]
          /\ To(s, "applied") /\ crossed' = crossed \ {<<s, "mute">>}
       \/ Return(s) /\ UNCHANGED <<setting, crossed>>
    /\ UNCHANGED <<vars, queues, mute, params, halfway>>

ApplyParams(s) ==
    /\ Checked(s, "params") /\ Ready(s) /\ Voiced(s)
    /\ \E ok \in BOOLEAN :
          /\ SetParams(held[s], call[s].params, ok)
          /\ IF ok THEN To(s, "applied") ELSE Return(s)
          /\ halfway' = Marked(halfway, s, ~ok)
          /\ crossed' = IF ok THEN crossed \ {<<s, "params">>} ELSE crossed
    /\ UNCHANGED <<vars, queues, mute, params>>

(* The unit has gone since it was checked.  The parameters of a stream whose    *)
(* regular units run are deferred, or else the system refuses.                  *)
ApplyUnvoiced(s) ==
    /\ call[s].at = "checked" /\ Ready(s) /\ stage[s] # "dead" /\ ~Voiced(s)
    /\ IF call[s].kind = "params" /\ s \in started THEN To(s, "applied") ELSE Return(s)
    /\ UNCHANGED <<vars, setting, queues, mute, params, history>>

(* There is no unit at all: the assertion that it is not null fails, and the    *)
(* process with it.                                                             *)
ApplyToNothing(s) ==
    /\ call[s].at = "checked" /\ Ready(s) /\ stage[s] = "dead"
    /\ To(s, "panic")
    /\ UNCHANGED <<vars, setting, queues, mute, params, history>>

(* On the client's thread again. *)
Remember(s) ==
    /\ \/ Applied(s, "mute") /\ mute' = [mute EXCEPT ![s] = call[s].mute]
          /\ UNCHANGED params
       \/ Applied(s, "params") /\ params' = [params EXCEPT ![s] = call[s].params]
          /\ UNCHANGED mute
    /\ Return(s)
    /\ UNCHANGED <<vars, setting, queues, history>>

-----------------------------------------------------------------------------
(* A unit that is disposed of may be created again, and is new then. *)
Disposed ==
    setting' = [e \in VPUnits |-> IF e \in elements' \cup InUse' THEN setting[e] ELSE New]

Timer(t) == NobodysTurn /\ ClearIfUnused(t) /\ Disposed /\ UNCHANGED <<queues, client, history>>

(* The context outlives its streams. *)
DropContext ==
    /\ \A s \in Users : stage[s] = "none"
    /\ DropManager /\ Disposed
    /\ UNCHANGED <<queues, client, history>>

(* The steps of a turn after its first. *)
TurnStep(s) ==
    \/ Acquire(s) \/ Regular(s) \/ Setup(s) \/ Restart(s)
    \/ ReturnUnit(s) \/ Closed(s)

Task(s) ==
    \/ NewStream(s) \/ Start(s) \/ StartChanged(s) \/ Change(s) \/ Stop(s) \/ Destroy(s)
    \/ TurnStep(s)

ClientCall(s) ==
    \/ Check(s) \/ ApplyMute(s) \/ ApplyParams(s) \/ ApplyUnvoiced(s)
    \/ ApplyToNothing(s) \/ Remember(s)

VoiceNext ==
    \/ \E s \in Users : Task(s) \/ ClientCall(s)
    \/ \E t \in timers : Timer(t)
    \/ DropContext

(* A task that has begun ends.  The serial queue runs its tasks in order, so a  *)
(* timer's turn comes however many tasks there are.                             *)
VoiceFairness ==
    /\ WF_allVars(\E s \in Users : TurnStep(s))
    /\ SF_allVars(\E t \in timers : Timer(t))

VoiceSpec == VoiceInit /\ [][VoiceNext]_allVars
FairVoiceSpec == VoiceSpec /\ VoiceFairness

-----------------------------------------------------------------------------
(* Whoever had the unit before, and however setups of the unit fall between    *)
(* the steps of a call: the unit of a stream that is set up is muted as the    *)
(* stream remembers, unless a setup came between a call's setting the unit and *)
(* its remembering (README, section 4).                                        *)
MuteAsRemembered ==
    \A s \in Users :
        stage[s] = "open" /\ Voiced(s) /\ ~Applied(s, "mute")
            => setting[held[s]].mute = mute[s] \/ <<s, "mute">> \in crossed

(* The unit of a started stream has the parameters the stream remembers, with  *)
(* the same exception, or where setting them has failed halfway.               *)
ParamsAsRemembered ==
    \A s \in started :
        stage[s] = "open" /\ Voiced(s) /\ ~Applied(s, "params")
            => \/ setting[held[s]].agc = params[s].agc /\ setting[held[s]].aec = params[s].aec
               \/ <<s, "params">> \in crossed \/ s \in halfway

(* A unit is returned whatever fails: a stream that is gone, or closed by an   *)
(* error, has none.                                                            *)
UnitsReturned == \A s \in Users : stage[s] \in {"none", "dead"} => ~Voiced(s)

(* "Always try to remember the applied input mute state": the client has been  *)
(* told that its stream is muted, and the unit is, or the reverse.  The code   *)
(* does not keep this (README, section 4).                                     *)
MuteRemembered ==
    \A s \in Users :
        stage[s] = "open" /\ Voiced(s) /\ call[s] = NoCall
            => setting[held[s]].mute = mute[s]
=============================================================================
