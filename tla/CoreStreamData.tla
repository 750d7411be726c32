--------------------------- MODULE CoreStreamData ---------------------------
(* How a stream acquires and gives back what it takes from CoreAudio          *)
(* (src/backend/mod.rs: CoreStreamData, and the order in which start, stop,   *)
(* reinit and destroy of AudioUnitStream call it).  All of it happens on the  *)
(* queue of the stream; any call may fail, and who called decides what        *)
(* becomes of the half that is done.  The steps of the other threads are in   *)
(* AudioUnitStream.                                                           *)
EXTENDS FiniteSets

CONSTANTS
    Units,      \* audio units of the stream's own
    VoiceUnit,  \* the unit it borrows from the pool of voice processing units
    NoUnit,     \* a null unit
    Failures    \* what may fail

ASSUME UnitsAssumption == VoiceUnit \notin Units /\ NoUnit \notin Units \cup {VoiceUnit}
ASSUME FailuresAssumption ==
    Failures \subseteq {"create", "configure", "initialize", "mute", "listen",
                        "unlisten", "lookUp", "start"}

Scopes == {"input", "output"}

VARIABLES
    sides,        \* has_input, has_output
    follows,      \* the sides that follow the default device
    held,         \* input_unit and output_unit
    handle,       \* voiceprocessing_unit_handle is there
    aggregate,    \* aggregate_device is there
    resampler,    \* and so is the resampler
    unitsRunning, \* units_running
    listeners,    \* the property listeners there are
    unit,         \* CoreAudio: the state of each unit,
    paired,       \* whether they have been made for an aggregate device,
    installed,    \* and the listeners it calls
    stopped, wasStopped, delayedReinit, \* of AudioUnitStream
    phase, job, pc \* the life of the stream, what its queue does and where it is

core == <<held, handle, aggregate, resampler, unit, paired>>
listening == <<listeners, installed>>
flags == <<stopped, wasStopped, delayedReinit>>
life == <<sides, follows, phase>>
vars == <<core, listening, unitsRunning, flags, life, job, pc>>

Default(s) == IF s = "input" THEN "defaultInput" ELSE "defaultOutput"
Source(s) == IF s = "input" THEN "sourceInput" ELSE "sourceOutput"
Alive(s) == IF s = "input" THEN "aliveInput" ELSE "aliveOutput"

SystemListeners == {Default(s) : s \in Scopes}
AliveListeners == {Alive(s) : s \in Scopes}
DeviceListeners == {Source(s) : s \in Scopes} \cup AliveListeners
Listeners == SystemListeners \cup DeviceListeners

Jobs == {"none", "init", "start", "stop", "reinit", "delayed", "giveUp", "dead",
         "destroy", "drop"}
Places == Listeners \cup
    {"idle", "voice", "pair", "createInput", "createOutput", "configureInput",
     "configureOutput", "resample", "initInput", "initOutput", "mute",
     "startInput", "startOutput", "stopUnits", "reinit", "lookUp",
     "quietInput", "freeOutput", "freeInput", "freeRest",
     "unlistenSystem", "unlistenDevice", "leaveSystem", "leaveDevice", "free"}

TypeOK ==
    /\ sides \in SUBSET Scopes /\ follows \in SUBSET sides
    /\ held \in [Scopes -> Units \cup {VoiceUnit, NoUnit}]
    /\ handle \in BOOLEAN /\ aggregate \in BOOLEAN
    /\ resampler \in BOOLEAN /\ unitsRunning \in BOOLEAN
    /\ listeners \in SUBSET Listeners /\ installed \in SUBSET Listeners
    /\ unit \in [Units \cup {VoiceUnit} -> {"none", "made", "initialized", "running"}]
    /\ paired \in BOOLEAN
    /\ stopped \in BOOLEAN /\ wasStopped \in BOOLEAN /\ delayedReinit \in BOOLEAN
    /\ phase \in {"new", "live", "gone"}
    /\ job \in Jobs /\ pc \in Places
    /\ pc = "idle" <=> job = "none"

Init ==
    /\ sides = {} /\ follows = {}
    /\ held = [s \in Scopes |-> NoUnit]
    /\ handle = FALSE /\ aggregate = FALSE /\ resampler = FALSE
    /\ unitsRunning = FALSE
    /\ listeners = {} /\ installed = {}
    /\ unit = [u \in Units \cup {VoiceUnit} |-> IF u = VoiceUnit THEN "made" ELSE "none"]
    /\ paired = FALSE
    /\ stopped = TRUE /\ wasStopped = TRUE /\ delayedReinit = FALSE
    /\ phase = "new" /\ job = "none" /\ pc = "idle"

-----------------------------------------------------------------------------
(* Steps, and what becomes of an error                                        *)

At(place) == pc = place
Goto(place) == pc' = place /\ job' = job
Return == pc' = "idle" /\ job' = "none"
Become(j, place) == pc' = place /\ job' = j

(* stream_init drops the stream, reinit_async closes it, start restores the   *)
(* state: the job goes on elsewhere, or it is over.                           *)
Err ==
    /\ CASE job = "init" -> Become("destroy", "leaveSystem")
         [] job = "reinit" -> Become("giveUp", "quietInput")
         [] OTHER -> Return
    /\ stopped' = IF job \in {"start", "delayed"} THEN wasStopped ELSE stopped
    /\ UNCHANGED <<wasStopped, delayedReinit>>

(* A call that fails has changed nothing but the errors' flow. *)
Fails(f) == f \in Failures /\ Err

Fresh == {u \in Units : unit[u] = "none"}

-----------------------------------------------------------------------------
(* create_audiounits                                                          *)

(* The voice processing unit, if the stream asks for it and it can be had.    *)
CreateVoice ==
    /\ At("voice")
    /\ \/ /\ "input" \in sides
          /\ held' = [s \in Scopes |-> IF s \in sides THEN VoiceUnit ELSE NoUnit]
          /\ handle' = TRUE
          /\ paired' = FALSE
          /\ Goto("configureInput")
          /\ UNCHANGED <<aggregate, resampler, unit>>
       \/ Goto("pair") /\ UNCHANGED core
    /\ UNCHANGED <<listening, unitsRunning, flags, life>>

(* Mutant: of two units of which one cannot be made the other one stays. *)
CreatePairKeepsOne ==
    /\ At("pair")
    /\ sides = Scopes
    /\ \E u \in Fresh : unit' = [unit EXCEPT ![u] = "made"]
    /\ Goto("createInput")
    /\ UNCHANGED <<held, handle, aggregate, resampler, paired>>
    /\ UNCHANGED <<listening, unitsRunning, flags, life>>

(* An aggregate device with two units; if any of the three cannot be made,    *)
(* those that have been are disposed of.                                      *)
CreatePair ==
    /\ At("pair")
    /\ \/ /\ sides = Scopes
          /\ \E u \in Fresh : \E v \in Fresh \ {u} :
                 /\ held' = [s \in Scopes |-> IF s = "input" THEN u ELSE v]
                 /\ unit' = [unit EXCEPT ![u] = "made", ![v] = "made"]
          /\ aggregate' = TRUE
          /\ paired' = TRUE
          /\ Goto("configureInput")
          /\ UNCHANGED <<handle, resampler>>
       \/ Goto("createInput") /\ UNCHANGED core
    /\ UNCHANGED <<listening, unitsRunning, flags, life>>

CreateInput ==
    /\ At("createInput")
    /\ \/ /\ "input" \in sides
          /\ \E u \in Fresh :
                 /\ held' = [held EXCEPT !["input"] = u]
                 /\ unit' = [unit EXCEPT ![u] = "made"]
          /\ paired' = FALSE
          /\ Goto("createOutput")
          /\ UNCHANGED <<handle, aggregate, resampler, flags>>
       \/ "input" \notin sides /\ Goto("createOutput") /\ UNCHANGED <<core, flags>>
       \/ "input" \in sides /\ Fails("create") /\ UNCHANGED core
    /\ UNCHANGED <<listening, unitsRunning, life>>

(* The input unit goes when there is no output unit. *)
CreateOutput ==
    /\ At("createOutput")
    /\ \/ /\ "output" \in sides
          /\ \E u \in Fresh :
                 /\ held' = [held EXCEPT !["output"] = u]
                 /\ unit' = [unit EXCEPT ![u] = "made"]
          /\ paired' = FALSE
          /\ Goto("configureInput")
          /\ UNCHANGED <<handle, aggregate, resampler, flags>>
       \/ "output" \notin sides /\ Goto("configureInput") /\ UNCHANGED <<core, flags>>
       \/ /\ "output" \in sides
          /\ Fails("create")
          /\ held' = [held EXCEPT !["input"] = NoUnit]
          /\ unit' = [u \in DOMAIN unit |-> IF u = held["input"] THEN "none" ELSE unit[u]]
          /\ UNCHANGED <<handle, aggregate, resampler, paired>>
    /\ UNCHANGED <<listening, unitsRunning, life>>

-----------------------------------------------------------------------------
(* setup, after create_audiounits                                             *)

Passes(to) == Goto(to) /\ UNCHANGED flags

ConfigureInput ==
    /\ At("configureInput")
    /\ Passes("configureOutput") \/ ("input" \in sides /\ Fails("configure"))
    /\ UNCHANGED <<core, listening, unitsRunning, life>>

ConfigureOutput ==
    /\ At("configureOutput")
    /\ Passes("resample") \/ ("output" \in sides /\ Fails("configure"))
    /\ UNCHANGED <<core, listening, unitsRunning, life>>

CreateResampler ==
    /\ At("resample")
    /\ resampler' = TRUE
    /\ Goto("initInput")
    /\ UNCHANGED <<held, handle, aggregate, unit, paired, listening, unitsRunning,
                   flags, life>>

(* A unit is only initialized once, though both sides may have it.            *)
InitializeUnit(from, s, to) ==
    /\ At(from)
    /\ IF held[s] = NoUnit \/ (s = "output" /\ held[s] = held["input"])
         THEN Passes(to) /\ UNCHANGED unit
         ELSE \/ Passes(to) /\ unit' = [unit EXCEPT ![held[s]] = "initialized"]
              \/ Fails("initialize") /\ UNCHANGED unit
    /\ UNCHANGED <<held, handle, aggregate, resampler, paired, listening, unitsRunning, life>>

SetInputMute ==
    /\ At("mute")
    /\ Passes("defaultOutput") \/ (handle /\ Fails("mute"))
    /\ UNCHANGED <<core, listening, unitsRunning, life>>

(* Mutant: a listener that could not be added is no error. *)
ListenIgnoring(l, s, wanted, to) ==
    /\ At(l)
    /\ \/ IF held[s] # NoUnit /\ wanted
            THEN listeners' = listeners \cup {l} /\ installed' = installed \cup {l}
            ELSE UNCHANGED listening
       \/ "listen" \in Failures /\ UNCHANGED listening
    /\ IF to = "idle" THEN Return ELSE Goto(to)
    /\ UNCHANGED <<core, unitsRunning, flags, life>>

(* install_system_changed_callback and install_device_changed_callback: one   *)
(* listener.                                                                  *)
Listen(l, s, wanted, to) ==
    /\ At(l)
    /\ \/ /\ IF held[s] # NoUnit /\ wanted
               THEN listeners' = listeners \cup {l} /\ installed' = installed \cup {l}
               ELSE UNCHANGED listening
          /\ IF to = "idle" THEN Return ELSE Goto(to)
          /\ UNCHANGED flags
       \/ held[s] # NoUnit /\ wanted /\ Fails("listen") /\ UNCHANGED listening
    /\ UNCHANGED <<core, unitsRunning, life>>

(* A stream is set up for its client, or to be started again.                 *)
AfterSetup == IF job = "init" THEN "idle" ELSE "startInput"

Setup ==
    \/ CreateVoice \/ CreatePair \/ CreateInput \/ CreateOutput
    \/ ConfigureInput \/ ConfigureOutput \/ CreateResampler
    \/ InitializeUnit("initInput", "input", "initOutput")
    \/ InitializeUnit("initOutput", "output", "mute")
    \/ SetInputMute
    \/ Listen("defaultOutput", "output", "output" \in follows, "defaultInput")
    \/ Listen("defaultInput", "input", "input" \in follows, "sourceOutput")
    \/ Listen("sourceOutput", "output", TRUE, "aliveOutput")
    \/ Listen("aliveOutput", "output", "output" \notin follows, "sourceInput")
    \/ Listen("sourceInput", "input", TRUE, "aliveInput")
    \/ Listen("aliveInput", "input", "input" \notin follows, AfterSetup)

-----------------------------------------------------------------------------
(* close                                                                      *)

(* Mutant: the input unit is unset while the output callback may be live. *)
QuietInputUnsets ==
    /\ At("quietInput")
    /\ unit' = [u \in DOMAIN unit |->
                   IF u = held["input"] THEN IF handle THEN "made" ELSE "none" ELSE unit[u]]
    /\ held' = [s \in Scopes |-> IF s = "input" \/ handle THEN NoUnit ELSE held[s]]
    /\ Goto("freeOutput")
    /\ UNCHANGED <<handle, aggregate, resampler, paired, listening, unitsRunning, flags, life>>

QuietInput ==
    /\ At("quietInput")
    /\ unit' = [u \in DOMAIN unit |-> IF u = held["input"] THEN "made" ELSE unit[u]]
    /\ held' = [held EXCEPT !["output"] =
                   IF held["input"] # NoUnit /\ handle THEN NoUnit ELSE @]
    /\ Goto("freeOutput")
    /\ UNCHANGED <<handle, aggregate, resampler, paired, listening, unitsRunning, flags, life>>

FreeOutput ==
    /\ At("freeOutput")
    /\ unit' = [u \in DOMAIN unit |-> IF u = held["output"] THEN "none" ELSE unit[u]]
    /\ held' = [held EXCEPT !["output"] = NoUnit]
    /\ Goto("freeInput")
    /\ UNCHANGED <<handle, aggregate, resampler, paired, listening, unitsRunning, flags, life>>

(* Mutant: the voice processing unit is disposed of like any other. *)
FreeInputAlways ==
    /\ At("freeInput")
    /\ unit' = [u \in DOMAIN unit |-> IF u = held["input"] THEN "none" ELSE unit[u]]
    /\ held' = [held EXCEPT !["input"] = NoUnit]
    /\ Goto("freeRest")
    /\ UNCHANGED <<handle, aggregate, resampler, paired, listening, unitsRunning, flags, life>>

(* The voice processing unit is shared and must not be disposed of.           *)
FreeInput ==
    /\ At("freeInput")
    /\ unit' = [u \in DOMAIN unit |-> IF u = held["input"] /\ ~handle THEN "none" ELSE unit[u]]
    /\ held' = [held EXCEPT !["input"] = NoUnit]
    /\ Goto("freeRest")
    /\ UNCHANGED <<handle, aggregate, resampler, paired, listening, unitsRunning, flags, life>>

(* The handle goes back to the pool; then the resampler and the aggregate     *)
(* device go.                                                                 *)
FreeRest ==
    /\ At("freeRest")
    /\ handle' = FALSE /\ resampler' = FALSE /\ aggregate' = FALSE
    /\ Goto("unlistenSystem")
    /\ UNCHANGED <<held, unit, paired, listening, unitsRunning, flags, life>>

(* The listeners ls are there no more; CoreAudio may refuse to forget them.   *)
Unlisten(ls, refused) ==
    /\ refused # {} => "unlisten" \in Failures
    /\ listeners' = listeners \ ls
    /\ installed' = installed \ ((listeners \cap ls) \ refused)

(* uninstall_system_changed_callback returns at the first refusal. *)
UnlistenSystem(from, to) ==
    /\ At(from)
    /\ \E refused \in SUBSET (listeners \cap SystemListeners) :
           Unlisten(IF "defaultOutput" \in refused THEN {"defaultOutput"} ELSE SystemListeners,
                    refused)
    /\ Goto(to)
    /\ UNCHANGED <<core, unitsRunning, flags, life>>

(* Mutant: the listeners for the life of the devices are forgotten. *)
UnlistenDeviceSourceOnly(from, next) ==
    /\ At(from)
    /\ \E refused \in SUBSET (listeners \cap DeviceListeners) :
           Unlisten(DeviceListeners \ AliveListeners, refused)
    /\ next
    /\ UNCHANGED <<core, unitsRunning, life>>

(* uninstall_device_changed_callback goes on. *)
UnlistenDevice(from, next) ==
    /\ At(from)
    /\ \E refused \in SUBSET (listeners \cap DeviceListeners) :
           Unlisten(DeviceListeners, refused)
    /\ next
    /\ UNCHANGED <<core, unitsRunning, life>>

(* Where the one who has called close goes on. *)
AfterClose ==
    /\ CASE job \in {"reinit", "delayed"} -> Goto("lookUp")
         [] job = "destroy" -> Become("drop", "stopUnits")
         [] job = "drop" -> Goto("free")
         [] OTHER -> Return
    /\ UNCHANGED flags

CloseUnits == QuietInput \/ FreeOutput \/ FreeInput \/ FreeRest

CloseListeners ==
    \/ UnlistenSystem("unlistenSystem", "unlistenDevice")
    \/ UnlistenDevice("unlistenDevice", AfterClose)

-----------------------------------------------------------------------------
(* start_audiounits and stop_audiounits                                       *)

Started ==
    /\ Return
    /\ delayedReinit' = (delayedReinit /\ job # "delayed")
    /\ UNCHANGED <<stopped, wasStopped>>

Run(s) == unit' = [u \in DOMAIN unit |-> IF u = held[s] THEN "running" ELSE unit[u]]

(* With a voice processing unit that is all, except for its parameters, which *)
(* it may not take; units_running is left alone.                              *)
StartInput ==
    /\ At("startInput")
    /\ \/ Run("input") /\ IF handle THEN Started ELSE Passes("startOutput")
       \/ held["input"] # NoUnit /\ Fails("start") /\ UNCHANGED unit
       \/ handle /\ Fails("start") /\ Run("input")
    /\ UNCHANGED <<held, handle, aggregate, resampler, paired, listening, unitsRunning, life>>

StartOutput ==
    /\ At("startOutput")
    /\ \/ Run("output") /\ unitsRunning' = TRUE /\ Started
       \/ held["output"] # NoUnit /\ Fails("start") /\ UNCHANGED <<unit, unitsRunning>>
    /\ UNCHANGED <<held, handle, aggregate, resampler, paired, listening, life>>

Halt == unit' = [u \in DOMAIN unit |->
                    IF u \in {held[s] : s \in Scopes} /\ unit[u] = "running"
                      THEN "initialized" ELSE unit[u]]

AfterStop ==
    /\ CASE job = "stop" -> Return
         [] job \in {"reinit", "delayed"} -> Goto("reinit")
         [] OTHER -> Goto("quietInput")
    /\ UNCHANGED flags

StopUnits ==
    /\ At("stopUnits")
    /\ unitsRunning' = FALSE
    /\ Halt
    /\ AfterStop
    /\ UNCHANGED <<held, handle, aggregate, resampler, paired, listening, life>>

-----------------------------------------------------------------------------
(* What the queue of the stream does                                          *)

Idle == phase = "live" /\ pc = "idle"

StreamInit ==
    /\ phase = "new"
    /\ sides' \in (SUBSET Scopes) \ {{}}
    /\ follows' \in SUBSET sides'
    /\ phase' = "live"
    /\ Become("init", "voice")
    /\ UNCHANGED <<core, listening, unitsRunning, flags>>

Start ==
    /\ Idle
    /\ wasStopped' = stopped
    /\ stopped' = FALSE
    /\ IF delayedReinit THEN Become("delayed", "stopUnits") ELSE Become("start", "startInput")
    /\ UNCHANGED <<core, listening, unitsRunning, delayedReinit, life>>

Stop ==
    /\ Idle /\ ~stopped
    /\ stopped' = TRUE
    /\ Become("stop", "stopUnits")
    /\ UNCHANGED <<core, listening, unitsRunning, wasStopped, delayedReinit, life>>

(* A notification, and the task of reinit_async: a stopped stream is opened   *)
(* again by its next start.                                                   *)
DeviceChanges ==
    /\ Idle
    /\ installed \ AliveListeners # {}
    /\ IF stopped
         THEN delayedReinit' = TRUE /\ UNCHANGED <<job, pc>>
         ELSE Become("reinit", "stopUnits") /\ UNCHANGED delayedReinit
    /\ UNCHANGED <<core, listening, unitsRunning, stopped, wasStopped, life>>

(* And the one that makes the listener call close_on_error. *)
DeviceDies ==
    /\ Idle /\ ~stopped
    /\ installed \cap AliveListeners # {}
    /\ stopped' = TRUE
    /\ Become("dead", "stopUnits")
    /\ UNCHANGED <<core, listening, unitsRunning, wasStopped, delayedReinit, life>>

(* reinit, with its units stopped, closes them,                               *)
Reinit ==
    /\ At("reinit")
    /\ Passes("quietInput")
    /\ UNCHANGED <<core, listening, unitsRunning, life>>

(* and looks the default devices up.                                          *)
LookUp ==
    /\ At("lookUp")
    /\ Passes("voice") \/ (follows # {} /\ Fails("lookUp"))
    /\ UNCHANGED <<core, listening, unitsRunning, life>>

Destroy ==
    /\ Idle
    /\ Become("destroy", "leaveSystem")
    /\ UNCHANGED <<core, listening, unitsRunning, flags, life>>

(* destroy, once the listeners are gone; the drop of CoreStreamData then      *)
(* stops and closes once more.                                                *)
StopToDestroy ==
    /\ stopped' = TRUE
    /\ Goto(IF stopped THEN "quietInput" ELSE "stopUnits")
    /\ UNCHANGED <<wasStopped, delayedReinit>>

Free ==
    /\ At("free")
    /\ phase' = "gone"
    /\ Return
    /\ UNCHANGED <<core, listening, unitsRunning, flags, sides, follows>>

Destroying ==
    \/ UnlistenSystem("leaveSystem", "leaveDevice")
    \/ UnlistenDevice("leaveDevice", StopToDestroy)
    \/ Free

Next ==
    \/ StreamInit \/ Start \/ Stop \/ DeviceChanges \/ DeviceDies \/ Destroy
    \/ Setup
    \/ CloseUnits \/ CloseListeners
    \/ StartInput \/ StartOutput \/ StopUnits
    \/ Reinit \/ LookUp
    \/ Destroying

Spec == Init /\ [][Next]_vars

-----------------------------------------------------------------------------
Held == {held[s] : s \in Scopes} \ {NoUnit}

(* Whatever fails, the units that exist are the ones the stream holds.        *)
NoLeakedUnit == {u \in Units : unit[u] # "none"} = Held \ {VoiceUnit}

(* The voice processing unit is never disposed of, and goes back to the pool  *)
(* neither initialized nor running.                                           *)
VoiceUnitReturned == ~handle => unit[VoiceUnit] = "made" /\ VoiceUnit \notin Held

(* As long as a unit may call back, its callback finds the units of all sides *)
(* (close unsets the input unit last for that reason), the resampler and the  *)
(* aggregate device.                                                          *)
CallbacksFindAll ==
    \A u \in DOMAIN unit : unit[u] \in {"initialized", "running"} =>
        /\ u \in Held
        /\ \A s \in sides : held[s] # NoUnit
        /\ resampler
        /\ paired => aggregate

(* "register ... without unregistering the one in use": the assertions of the *)
(* two functions that install listeners.                                      *)
RegisterUnused ==
    pc \in listeners =>
        \A s \in Scopes : held[s] # NoUnit =>
            ~(pc = Default(s) /\ s \in follows) /\ pc # Source(s)
                /\ ~(pc = Alive(s) /\ s \notin follows)

(* A stream that runs hears of what happens to its devices: of their sources, *)
(* and of either the default device or the life of the one it was given (the  *)
(* assertions at the end of setup).                                           *)
RunningIsWatched ==
    pc = "idle" /\ (\E u \in DOMAIN unit : unit[u] = "running") =>
        \A s \in sides :
            /\ Source(s) \in installed
            /\ Default(s) \in installed <=> s \in follows
            /\ Alive(s) \in installed <=> s \notin follows

(* A stream without units has given everything back, however it was closed;   *)
(* so has one that is gone.                                                   *)
NothingLeft ==
    (pc = "idle" /\ Held = {}) \/ phase = "gone" =>
        /\ Held = {} /\ ~handle /\ ~aggregate /\ ~resampler
        /\ listeners = {} /\ installed = {}

(* The assertion of reinit: it is only called with units.  The code does not  *)
(* keep this after a delayed reinit that failed (README, section 4).          *)
ReinitFindsUnits == pc = "reinit" => Held # {}

(* What the stream's tasks rely on (StreamCore): setup only begins when no    *)
(* listener is left and nothing runs, listeners come after all units, and     *)
(* only a core that has all of both, or nothing, is started.                  *)
UnitOf(s) ==
    IF held[s] = NoUnit THEN "null"
    ELSE IF unit[held[s]] = "running" THEN "running" ELSE "idle"

Contract == INSTANCE StreamCore WITH unit <- [s \in Scopes |-> UnitOf(s)],
                                     listening <- listeners # {}
ImplementsCore == Contract!Spec
=============================================================================
