-------------------------- MODULE AggregateDevice --------------------------
(* AggregateDevice of src/backend/aggregate_device.rs: new builds a device in  *)
(* steps on the serial queue, two of which wait for the system to report       *)
(* (SyncCallback), and drop destroys it.  Other calls that wait come between   *)
(* the builds, where they may find the memory of an earlier call.              *)
EXTENDS SyncCallback

CONSTANTS
    Builds,     \* the calls of AggregateDevice::new
    Blank, Sub  \* Blank[b], Sub[b]: the calls build b makes

ASSUME BuildsAssumption ==
    /\ Blank \in [Builds -> Calls] /\ Sub \in [Builds -> Calls]
    /\ \A b \in Builds : Kind[Blank[b]] = "blank" /\ Kind[Sub[b]] = "sub"
    /\ \A b, d \in Builds : Blank[b] = Blank[d] \/ Sub[b] = Sub[d] => b = d

VARIABLES
    stage,      \* stage[b]: where build b is, or what became of it
    existing,   \* the builds whose device exists
    succeeded,  \* the calls that returned Ok
    answered    \* history: the calls whose own listener reported

building == <<stage, existing, succeeded, answered>>
allVars == <<vars, building>>

Configuring == {"master", "drift", "airpod"}
Stages == {"start", "blank", "sub", "cleanup", "built", "failed", "dropped"} \cup Configuring

BuildTypeOK ==
    /\ TypeOK
    /\ stage \in [Builds -> Stages]
    /\ existing \in SUBSET Builds
    /\ succeeded \in SUBSET Calls /\ answered \in SUBSET Calls

BuildInit ==
    /\ Init
    /\ stage = [b \in Builds |-> "start"]
    /\ existing = {} /\ succeeded = {} /\ answered = {}

InProgress(b) == stage[b] \in {"blank", "sub", "cleanup"} \cup Configuring
QueueIsFree ==
    /\ \A b \in Builds : ~InProgress(b)
    /\ \A c \in Calls : ~Running(c)

Advance(b, from, to) == stage[b] = from /\ stage' = [stage EXCEPT ![b] = to]

-----------------------------------------------------------------------------
(* get_system_plugin_id, the first step of new. *)
Locate(b) ==
    /\ QueueIsFree
    /\ Advance(b, "start", "blank") \/ Advance(b, "start", "failed")
    /\ UNCHANGED <<vars, existing, succeeded, answered>>

(* A call made outside a build, or the one the build has come to. *)
Due(c) ==
    /\ \A b \in Builds : c = Blank[b] => stage[b] = "blank"
    /\ \A b \in Builds : c = Sub[b] => stage[b] = "sub"
    /\ Kind[c] = "buffer" => \A b \in Builds : ~InProgress(b)

(* The call stops waiting because it has seen what it waited for. *)
Satisfied(c) == pc[c] # "remove" /\ pc'[c] = "remove" /\ pc[c] # "change" /\ Reported(c)

(* A step of SyncCallback.  The device exists from create_blank_device on. *)
CallStep(c) ==
    /\ Due(c) /\ Call(c)
    /\ succeeded' = IF Satisfied(c) THEN succeeded \cup {c} ELSE succeeded
    /\ existing' = existing \cup
          {b \in Builds : c = Blank[b] /\ pc[c] = "change" /\ pc'[c] = "lock"}
    /\ UNCHANGED <<stage, answered>>

CallbackStep(h) ==
    /\ Callback(h)
    /\ answered' = IF hal[h].at = "pair" THEN answered \cup {hal[h].of[1]} ELSE answered
    /\ UNCHANGED <<stage, existing, succeeded>>

SystemStep ==
    /\ \/ \E c \in Calls : Appear(c)
       \/ \E h \in HalThreads, l \in listening : Notify(h, l)
    /\ UNCHANGED building

(* create_blank_device_sync returns: the cleanup is only armed if it was Ok. *)
BlankReturns(b) ==
    /\ pc[Blank[b]] = "done"
    /\ Advance(b, "blank", IF Blank[b] \in succeeded THEN "sub" ELSE "failed")
    /\ UNCHANGED <<vars, existing, succeeded, answered>>

SubReturns(b) ==
    /\ pc[Sub[b]] = "done"
    /\ Advance(b, "sub", IF Sub[b] \in succeeded THEN "master" ELSE "cleanup")
    /\ UNCHANGED <<vars, existing, succeeded, answered>>

(* A step that fails leaves the device to the cleanup. *)
Try(b, from, to) ==
    /\ Advance(b, from, to) \/ Advance(b, from, "cleanup")
    /\ UNCHANGED <<vars, existing, succeeded, answered>>

SetMasterDevice(b) == Try(b, "master", "drift")

ActivateDriftCompensation(b) == Try(b, "drift", "airpod")

(* Mutant: the cleanup is dismissed before the last step. *)
WorkaroundDismissed(b) ==
    /\ Advance(b, "airpod", "built") \/ Advance(b, "airpod", "failed")
    /\ UNCHANGED <<vars, existing, succeeded, answered>>

WorkaroundForAirpod(b) == Try(b, "airpod", "built")

(* A listener of a device that is gone "should receive nothing". *)
Forget(b) ==
    LET gone == {l \in listening : l[1] = Sub[b]}
    IN listening' = listening \ gone /\ owed' = owed \ gone

(* The cleanup asserts that destroy_device succeeds. *)
Cleanup(b) ==
    /\ Advance(b, "cleanup", "failed")
    /\ existing' = existing \ {b} /\ Forget(b)
    /\ UNCHANGED <<pc, addr, live, registered, registry, lock, value, present, hal,
                   notices, succeeded, answered>>

(* Drop only logs that destroy_device fails. *)
DropDevice(b) ==
    /\ QueueIsFree /\ Advance(b, "built", "dropped")
    /\ \/ existing' = existing \ {b} /\ Forget(b)
       \/ UNCHANGED <<existing, listening, owed>>
    /\ UNCHANGED <<pc, addr, live, registered, registry, lock, value, present, hal,
                   notices, succeeded, answered>>

BuildStep(b) ==
    \/ Locate(b) \/ BlankReturns(b) \/ SubReturns(b)
    \/ SetMasterDevice(b) \/ ActivateDriftCompensation(b) \/ WorkaroundForAirpod(b)
    \/ Cleanup(b) \/ DropDevice(b)

BuildNext ==
    \/ \E c \in Calls : CallStep(c)
    \/ \E h \in HalThreads : CallbackStep(h)
    \/ SystemStep
    \/ \E b \in Builds : BuildStep(b)

(* The thread of the queue runs, in a call or in a build, and so do the system's *)
(* threads; for the mutexes see SyncCallback.                                    *)
BuildFairness ==
    /\ SF_allVars(\E c \in Calls : CallStep(c))
    /\ \A h \in HalThreads : SF_allVars(CallbackStep(h))
    /\ WF_allVars(\E b \in Builds : InProgress(b) /\ BuildStep(b))

BuildSpec == BuildInit /\ [][BuildNext]_allVars
FairBuildSpec == BuildSpec /\ BuildFairness

-----------------------------------------------------------------------------
(* new returns a device only if the system has reported that device twice: as  *)
(* there, and as having its sub-devices; whatever callbacks of earlier calls    *)
(* write into the memory the wait uses.                                         *)
BuiltMeansReported ==
    \A b \in Builds :
        stage[b] \in Configuring \cup {"built"} => Blank[b] \in present /\ Sub[b] \in answered

(* A build that fails leaves a device behind only if the wait for that device   *)
(* timed out: nobody destroys it then (README, section 4).                      *)
OnlyTimeoutLeaks ==
    \A b \in Builds :
        stage[b] = "failed" /\ b \in existing => Blank[b] \notin succeeded

(* Every build ends, unless its call waits for a callback that waits for it. *)
BuildsEnd ==
    \A b \in Builds : InProgress(b) ~> ~InProgress(b) \/ Stuck(Sub[b])
=============================================================================
