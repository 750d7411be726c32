-------------------------- MODULE AudioUnitStream --------------------------
(* One stream of src/backend/mod.rs, shared by four kinds of threads:         *)
(*   - the client, calling start, stop and finally destroying the stream;     *)
(*   - the serial queue, executing the tasks the others hand to it;           *)
(*   - the render threads of CoreAudio, calling audiounit_input_callback and  *)
(*     audiounit_output_callback while the audio units run;                   *)
(*   - the notification thread of the HAL, calling                            *)
(*     audiounit_property_listener_callback when a device changes.            *)
(* They share the atomic flags of the struct AudioUnitStream; every load,     *)
(* store or swap of one that another thread can tell apart is a step.         *)
(*                                                                            *)
(* Left out: the voice processing unit (two roles, one unit), the audio data, *)
(* the latencies and the positions.                                           *)
EXTENDS Integers, Sequences, FiniteSets

CONSTANTS
    Units,        \* the roles of the audio units the stream was opened with
    EventKinds,   \* the notifications its devices may send
    CallbackEnds, \* what the render callbacks may run into
    Failures,     \* the steps that may fail: "setup", "start"
    RestartEarly, \* the client may start a stream that is not stopped, or whose
                  \* last end it has been told of with the stop task pending
    MaxStarts,    \* bound: calls of start
    MaxEvents     \* bound: device events

ASSUME UnitsAssumption == Units \in SUBSET {"input", "output"} /\ Units # {}
ASSUME KindsAssumption ==
    /\ EventKinds \in SUBSET {"change", "dead"}
    /\ CallbackEnds \in SUBSET {"drain", "error", "reinit"}
    /\ Failures \in SUBSET {"setup", "start"}
    /\ RestartEarly \in BOOLEAN
    /\ MaxStarts \in Nat
    /\ MaxEvents \in Nat

Tasks == {"reinit", "stop", "dead", "start", "stopSync", "final"}

VARIABLES
    \* AtomicBools of the stream, and delayed_reinit, written by the queue only
    stopped, draining, switchingDevice, reinitPending, delayedReinit,
    unit,       \* each unit: "null", "idle" (created) or "running"
    listening,  \* the property listeners are installed
    tasks,      \* the stream's queue
    task, wpc,  \* the task being executed and where it is in it
    failed,     \* the task closes the stream because reinit failed
    cpc,        \* where the client is
    was,        \* was_stopped and was_draining of start
    cb,         \* where the render callback of each unit is
    lpc,        \* where the notification thread is
    notices,    \* notifications the HAL has yet to deliver
    freed,      \* the stream's memory has been released
    \* history
    stale,      \* the device changed since the stream last looked it up
    leftRunning, \* a start task has itself left units of a stopped stream running
    starts, undoneStarts, \* calls of start, and those whose failure stopped the stream
    events,               \* device events
    ends, reopenErrors    \* ends notified, and those of failed reinit tasks

flags == <<stopped, draining, switchingDevice, reinitPending, delayedReinit>>
device == <<unit, listening>>
worker == <<task, wpc, failed>>
client == <<cpc, was>>
hal == <<lpc, notices>>
history ==
    <<stale, leftRunning, starts, undoneStarts, events, ends, reopenErrors>>
vars == <<flags, device, tasks, worker, client, cb, hal, freed, history>>

(* Where the queue may be in each task. *)
Steps(t) ==
    {"finish"} \cup
    CASE t \in {"stop", "stopSync"} -> {"stopUnits", "waitCallbacks"}
      [] t = "dead" -> {"stopUnits", "waitCallbacks", "close", "waitClosed",
                        "notifyError", "clearSwitching"}
      [] t = "reinit" -> {"checkStopped", "stopUnits", "waitCallbacks",
                          "recheckStopped", "close", "waitClosed", "lookup",
                          "setup", "restart", "notifyError", "clearSwitching",
                          "clearPending"}
      [] t = "start" -> {"startUnits", "checkStopped", "stopUnits",
                         "waitCallbacks", "recheckStopped", "close", "waitClosed",
                         "lookup", "setup", "restart", "clearDelayed",
                         "restoreStopped", "restoreDraining"}
      [] t = "final" -> {"uninstall", "swapStopped", "stopUnits", "waitCallbacks",
                         "close", "waitClosed", "release"}

ClientPCs ==
    {"idle", "storeStopped", "storeDraining", "submitStart", "inStart",
     "notifyStarted", "submitStop", "inStop", "notifyStopped", "inDestroy",
     "gone"}
CallbackPCs ==
    {"idle", "render", "checkDrain", "swapDrain", "notifyDrained", "swapError",
     "notifyError", "submitStop", "swapPending", "submitReinit"}
ListenerPCs ==
    {"idle", "change", "dead", "submitDead", "submitReinit"}

TypeOK ==
    /\ stopped \in BOOLEAN /\ draining \in BOOLEAN
    /\ switchingDevice \in BOOLEAN /\ reinitPending \in BOOLEAN
    /\ delayedReinit \in BOOLEAN
    /\ unit \in [Units -> {"null", "idle", "running"}]
    /\ listening \in BOOLEAN
    /\ tasks \in Seq(Tasks)
    /\ \/ task = "none" /\ wpc = "idle"
       \/ task \in Tasks /\ wpc \in Steps(task)
    /\ failed \in BOOLEAN
    /\ cpc \in ClientPCs
    /\ was \in [stopped : BOOLEAN, draining : BOOLEAN]
    /\ cb \in [Units -> CallbackPCs]
    /\ lpc \in ListenerPCs
    /\ notices \in Seq({"change", "dead"})
    /\ freed \in BOOLEAN
    /\ stale \in BOOLEAN /\ leftRunning \in BOOLEAN
    /\ starts \in Nat /\ undoneStarts \in Nat /\ events \in Nat
    /\ ends \in Nat /\ reopenErrors \in Nat

(* The stream stream_init returns: set up, not started. *)
Init ==
    /\ stopped = TRUE /\ draining = FALSE
    /\ switchingDevice = FALSE /\ reinitPending = FALSE
    /\ delayedReinit = FALSE
    /\ unit = [u \in Units |-> "idle"]
    /\ listening = TRUE
    /\ tasks = <<>>
    /\ task = "none" /\ wpc = "idle" /\ failed = FALSE
    /\ cpc = "idle"
    /\ was = [stopped |-> TRUE, draining |-> FALSE]
    /\ cb = [u \in Units |-> "idle"]
    /\ lpc = "idle" /\ notices = <<>>
    /\ freed = FALSE
    /\ stale = FALSE /\ leftRunning = FALSE
    /\ starts = 0 /\ undoneStarts = 0 /\ events = 0
    /\ ends = 0 /\ reopenErrors = 0

Submit(t) == tasks' = Append(tasks, t)

Opened == \E u \in Units : unit[u] # "null"
Running == \E u \in Units : unit[u] = "running"
CallbacksDone == \A u \in Units : cb[u] = "idle"

-----------------------------------------------------------------------------
(* The client                                                                 *)

(* Whether every end of the stream that a callback or the notification thread *)
(* decided on has been carried through by the queue.                          *)
Settled ==
    /\ \A u \in Units : cb[u] \in {"idle", "render"}
    /\ lpc \notin {"dead", "submitDead"}
    /\ task \notin {"stop", "dead"}
    /\ \A i \in DOMAIN tasks : tasks[i] \notin {"stop", "dead"}

(* start: was_stopped and was_draining are loaded. *)
ClientStart ==
    /\ cpc = "idle"
    /\ starts < MaxStarts
    /\ RestartEarly \/ (stopped /\ Settled)
    /\ starts' = starts + 1
    /\ was' = [stopped |-> stopped, draining |-> draining]
    /\ cpc' = "storeStopped"
    /\ UNCHANGED <<flags, device, tasks, worker, cb, hal, freed, stale,
                   leftRunning, undoneStarts, events, ends, reopenErrors>>

StoreStopped ==
    /\ cpc = "storeStopped"
    /\ stopped' = FALSE
    /\ cpc' = "storeDraining"
    /\ UNCHANGED <<draining, switchingDevice, reinitPending, delayedReinit,
                   device, tasks, worker, was, cb, hal, freed, history>>

StoreDraining ==
    /\ cpc = "storeDraining"
    /\ draining' = FALSE
    /\ cpc' = "submitStart"
    /\ UNCHANGED <<stopped, switchingDevice, reinitPending, delayedReinit,
                   device, tasks, worker, was, cb, hal, freed, history>>

(* Mutant: stop leaves the units to the reinit task that will stop them. *)
ClientStopTrustsReinit ==
    /\ cpc = "idle"
    /\ stopped' = TRUE
    /\ cpc' = IF stopped THEN "idle"
              ELSE IF reinitPending THEN "notifyStopped" ELSE "submitStop"
    /\ UNCHANGED <<draining, switchingDevice, reinitPending, delayedReinit,
                   device, tasks, worker, was, cb, hal, freed, history>>

(* stop: nothing is left to do when something else has stopped the stream. *)
ClientStop ==
    /\ cpc = "idle"
    /\ stopped' = TRUE
    /\ cpc' = IF stopped THEN "idle" ELSE "submitStop"
    /\ UNCHANGED <<draining, switchingDevice, reinitPending, delayedReinit,
                   device, tasks, worker, was, cb, hal, freed, history>>

(* run_sync and run_final: the client waits for its task (TaskDone). *)
ClientSubmit ==
    /\ \/ cpc = "submitStart" /\ Submit("start") /\ cpc' = "inStart"
       \/ cpc = "submitStop" /\ Submit("stopSync") /\ cpc' = "inStop"
    /\ UNCHANGED <<flags, device, worker, was, cb, hal, freed, history>>

ClientDestroy ==
    /\ cpc = "idle"
    /\ Submit("final")
    /\ cpc' = "inDestroy"
    /\ UNCHANGED <<flags, device, worker, was, cb, hal, freed, history>>

(* notify_state_changed(Started) or (Stopped), and the call returns. *)
ClientNotify ==
    /\ cpc \in {"notifyStarted", "notifyStopped"}
    /\ ends' = IF cpc = "notifyStopped" THEN ends + 1 ELSE ends
    /\ cpc' = "idle"
    /\ UNCHANGED <<flags, device, tasks, worker, was, cb, hal, freed,
                   stale, leftRunning, starts, undoneStarts, events,
                   reopenErrors>>

Client ==
    \/ ClientStart \/ StoreStopped \/ StoreDraining
    \/ ClientStop \/ ClientSubmit \/ ClientDestroy \/ ClientNotify

-----------------------------------------------------------------------------
(* The render callbacks                                                       *)

(* CoreAudio calls a running unit.  A stopped stream only renders silence:    *)
(* nothing is left to model.  Loading stopped and draining is one step, as    *)
(* start stores them in the order in which the callback loads them.           *)
CallbackBegin(u) ==
    /\ cb[u] = "idle" /\ unit[u] = "running" /\ ~stopped
    /\ cb' = [cb EXCEPT ![u] =
         IF ~draining THEN "render"
         ELSE IF u = "output" THEN "swapDrain"
         ELSE IF Units = {"input"} THEN "checkDrain" ELSE "idle"]
    /\ UNCHANGED <<flags, device, tasks, worker, client, hal, freed, history>>

(* The output callback fills the buffer; fewer frames than asked for mean that *)
(* the client has no more to give.                                             *)
RenderOutput ==
    /\ "output" \in Units /\ cb["output"] = "render"
    /\ \/ /\ \/ draining' = FALSE
             \/ "drain" \in CallbackEnds /\ draining' = TRUE
          /\ cb' = [cb EXCEPT !["output"] = "idle"]
       \/ /\ "error" \in CallbackEnds
          /\ cb' = [cb EXCEPT !["output"] = "swapError"]
          /\ UNCHANGED draining
    /\ UNCHANGED <<stopped, switchingDevice, reinitPending, delayedReinit,
                   device, tasks, worker, client, hal, freed, history>>

(* The input callback of an input-only stream delivers the buffer itself and   *)
(* never clears draining.                                                      *)
RenderInputOnly ==
    /\ Units = {"input"} /\ cb["input"] = "render"
    /\ \/ /\ \/ UNCHANGED draining
             \/ "drain" \in CallbackEnds /\ draining' = TRUE
          /\ cb' = [cb EXCEPT !["input"] = "checkDrain"]
       \/ /\ "error" \in CallbackEnds
          /\ cb' = [cb EXCEPT !["input"] = "swapError"]
          /\ UNCHANGED draining
    /\ UNCHANGED <<stopped, switchingDevice, reinitPending, delayedReinit,
                   device, tasks, worker, client, hal, freed, history>>

(* That of a duplex stream only buffers its data, and asks for a reinit when   *)
(* the unit cannot render any more (kAudioUnitErr_CannotDoInCurrentContext).   *)
RenderInputDuplex ==
    /\ Units = {"input", "output"} /\ cb["input"] = "render"
    /\ \/ cb' = [cb EXCEPT !["input"] = "idle"]
       \/ /\ "reinit" \in CallbackEnds
          /\ cb' = [cb EXCEPT !["input"] = "swapPending"]
    /\ UNCHANGED <<flags, device, tasks, worker, client, hal, freed, history>>

CheckDrain(u) ==
    /\ cb[u] = "checkDrain"
    /\ cb' = [cb EXCEPT ![u] = IF draining THEN "swapDrain" ELSE "idle"]
    /\ UNCHANGED <<flags, device, tasks, worker, client, hal, freed, history>>

(* Mutant: stopped is stored, whatever it was. *)
CallbackStore(u) ==
    /\ cb[u] \in {"swapDrain", "swapError"}
    /\ stopped' = TRUE
    /\ cb' = [cb EXCEPT ![u] =
         IF cb[u] = "swapDrain" THEN "notifyDrained" ELSE "notifyError"]
    /\ UNCHANGED <<draining, switchingDevice, reinitPending, delayedReinit,
                   device, tasks, worker, client, hal, freed, history>>

(* stopped.swap(true): the thread that finds it false ends the stream. *)
CallbackSwap(u) ==
    /\ cb[u] \in {"swapDrain", "swapError"}
    /\ stopped' = TRUE
    /\ cb' = [cb EXCEPT ![u] =
         IF stopped THEN "idle"
         ELSE IF cb[u] = "swapDrain" THEN "notifyDrained" ELSE "notifyError"]
    /\ UNCHANGED <<draining, switchingDevice, reinitPending, delayedReinit,
                   device, tasks, worker, client, hal, freed, history>>

(* Mutant: the client is told of the end and left to stop the units. *)
CallbackNotifyOnly(u) ==
    /\ cb[u] \in {"notifyDrained", "notifyError"}
    /\ ends' = ends + 1
    /\ cb' = [cb EXCEPT ![u] = "idle"]
    /\ UNCHANGED <<flags, device, tasks, worker, client, hal, freed,
                   stale, leftRunning, starts, undoneStarts, events,
                   reopenErrors>>

(* notify_state_changed(Drained) or (Error) precedes the run_async. *)
CallbackNotify(u) ==
    /\ cb[u] \in {"notifyDrained", "notifyError"}
    /\ ends' = ends + 1
    /\ cb' = [cb EXCEPT ![u] = "submitStop"]
    /\ UNCHANGED <<flags, device, tasks, worker, client, hal, freed,
                   stale, leftRunning, starts, undoneStarts, events,
                   reopenErrors>>

(* Mutant: the callback waits for its stop task (run_sync). *)
CallbackSubmitSync(u) ==
    \/ /\ cb[u] = "submitStop"
       /\ task # "stop" /\ \A i \in DOMAIN tasks : tasks[i] # "stop"
       /\ Submit("stop")
       /\ UNCHANGED <<flags, device, worker, client, cb, hal, freed, history>>
    \/ /\ cb[u] = "submitReinit" /\ Submit("reinit")
       /\ cb' = [cb EXCEPT ![u] = "idle"]
       /\ UNCHANGED <<flags, device, worker, client, hal, freed, history>>

CallbackSubmit(u) ==
    /\ \/ cb[u] = "submitStop" /\ Submit("stop")
       \/ cb[u] = "submitReinit" /\ Submit("reinit")
    /\ cb' = [cb EXCEPT ![u] = "idle"]
    /\ UNCHANGED <<flags, device, worker, client, hal, freed, history>>

(* Mutant: every callback that cannot render hands over a reinit task. *)
CallbackStorePending(u) ==
    /\ cb[u] = "swapPending"
    /\ reinitPending' = TRUE
    /\ cb' = [cb EXCEPT ![u] = "submitReinit"]
    /\ UNCHANGED <<stopped, draining, switchingDevice, delayedReinit,
                   device, tasks, worker, client, hal, freed, history>>

(* reinit_async: only the thread that finds reinit_pending false hands over a *)
(* reinit task.                                                               *)
CallbackSwapPending(u) ==
    /\ cb[u] = "swapPending"
    /\ reinitPending' = TRUE
    /\ cb' = [cb EXCEPT ![u] = IF reinitPending THEN "idle" ELSE "submitReinit"]
    /\ UNCHANGED <<stopped, draining, switchingDevice, delayedReinit,
                   device, tasks, worker, client, hal, freed, history>>

CallbackContinue(u) ==
    \/ (u = "output" /\ RenderOutput)
    \/ (u = "input" /\ (RenderInputOnly \/ RenderInputDuplex))
    \/ CheckDrain(u) \/ CallbackSwap(u) \/ CallbackNotify(u)
    \/ CallbackSubmit(u) \/ CallbackSwapPending(u)

-----------------------------------------------------------------------------
(* The HAL and its notification thread                                        *)

(* A device changes, or dies; the HAL tells the listeners installed now. *)
DeviceEvent(kind) ==
    /\ kind \in EventKinds
    /\ ~freed
    /\ events < MaxEvents
    /\ events' = events + 1
    /\ stale' = (stale \/ kind = "change")
    /\ notices' = IF listening THEN Append(notices, kind) ELSE notices
    /\ UNCHANGED <<flags, device, tasks, worker, client, cb, lpc, freed,
                   leftRunning, starts, undoneStarts, ends, reopenErrors>>

(* audiounit_property_listener_callback.  Only this thread sets               *)
(* switching_device, so that its load and store are one step.                 *)
ListenerBegin ==
    /\ lpc = "idle" /\ listening /\ notices # <<>>
    /\ notices' = Tail(notices)
    /\ switchingDevice' = TRUE
    /\ lpc' = IF switchingDevice THEN "idle" ELSE Head(notices)
    /\ UNCHANGED <<stopped, draining, reinitPending, delayedReinit,
                   device, tasks, worker, client, cb, freed, history>>

(* The device is dead: end the stream unless it is stopped already. *)
ListenerDead ==
    /\ lpc = "dead"
    /\ stopped' = TRUE
    /\ lpc' = IF stopped THEN "idle" ELSE "submitDead"
    /\ UNCHANGED <<draining, switchingDevice, reinitPending, delayedReinit,
                   device, tasks, worker, client, cb, notices, freed, history>>

(* The client's device_changed_callback has been called; then reinit_async. *)
ListenerSwapPending ==
    /\ lpc = "change"
    /\ reinitPending' = TRUE
    /\ lpc' = IF reinitPending THEN "idle" ELSE "submitReinit"
    /\ UNCHANGED <<stopped, draining, switchingDevice, delayedReinit,
                   device, tasks, worker, client, cb, notices, freed, history>>

ListenerSubmit ==
    /\ \/ lpc = "submitDead" /\ Submit("dead")
       \/ lpc = "submitReinit" /\ Submit("reinit")
    /\ lpc' = "idle"
    /\ UNCHANGED <<flags, device, worker, client, cb, notices, freed, history>>

Listener == ListenerBegin \/ ListenerDead \/ ListenerSwapPending \/ ListenerSubmit

-----------------------------------------------------------------------------
(* The serial queue                                                           *)

(* Mutant: start forgets the reinit delayed until it. *)
FirstStepNoDelayed(t) ==
    CASE t \in {"reinit"} -> "checkStopped"
      [] t \in {"stop", "stopSync", "dead"} -> "stopUnits"
      [] t = "start" -> "startUnits"
      [] t = "final" -> "uninstall"

(* Where each task starts: start reinitializes a stream whose device changed   *)
(* while it was stopped.  A reinit task first loads destroy_pending, but the   *)
(* final task, which sets it, is also the last one executed.                   *)
FirstStep(t) ==
    CASE t = "reinit" -> "checkStopped"
      [] t \in {"stop", "stopSync", "dead"} -> "stopUnits"
      [] t = "start" -> IF delayedReinit THEN "checkStopped" ELSE "startUnits"
      [] t = "final" -> "uninstall"

(* Closures executed after the final one find should_cancel set. *)
BeginTask ==
    /\ wpc = "idle" /\ tasks # <<>>
    /\ tasks' = Tail(tasks)
    /\ IF freed THEN UNCHANGED <<task, wpc>>
                ELSE task' = Head(tasks) /\ wpc' = FirstStep(Head(tasks))
    /\ UNCHANGED <<flags, device, failed, client, cb, hal, freed, history>>

(* The worker's steps that only move it on, by what it reads. *)
Goto(from, to) == wpc = from /\ wpc' = to

(* run_sync and run_final return to the client. *)
TaskDone ==
    /\ Goto("finish", "idle")
    /\ task' = "none"
    /\ failed' = FALSE
    /\ cpc' = CASE task = "start" -> IF failed THEN "idle" ELSE "notifyStarted"
                [] task = "stopSync" -> "notifyStopped"
                [] task = "final" -> "gone"
                [] OTHER -> cpc
    /\ UNCHANGED <<flags, device, tasks, was, cb, hal, freed, history>>

(* stop_audiounits: AudioOutputUnitStop lets no new callback in and waits for  *)
(* the one in flight.                                                          *)
StopUnits ==
    /\ Goto("stopUnits", "waitCallbacks")
    /\ unit' = [u \in Units |-> IF unit[u] = "running" THEN "idle" ELSE unit[u]]
    /\ UNCHANGED <<flags, listening, tasks, task, failed, client, cb, hal, freed, history>>

UnitsStopped ==
    /\ CallbacksDone
    /\ Goto("waitCallbacks",
            CASE task \in {"stop", "stopSync"} -> "finish"
              [] task \in {"reinit", "start"} -> "recheckStopped"
              [] task \in {"dead", "final"} -> "close")
    /\ UNCHANGED <<flags, device, tasks, task, failed, client, cb, hal, freed, history>>

(* start_audiounits, of an open stream in a debug build.  The units start in  *)
(* the order input, output, and stay as they are when one fails.              *)
StartedUnits == [u \in Units |-> IF unit[u] = "null" THEN "null" ELSE "running"]

PartlyStarted(v) ==
    \/ v = unit
    \/ Cardinality(Units) = 2 /\ v = [StartedUnits EXCEPT !["output"] = unit["output"]]

(* The start task of a stream that needs no reinit does not look at stopped. *)
StartUnits ==
    /\ \/ Goto("startUnits", "finish") /\ unit' = StartedUnits
       \/ /\ "start" \in Failures /\ Opened
          /\ Goto("startUnits", "restoreStopped")
          /\ PartlyStarted(unit')
    /\ leftRunning' = (stopped /\ \E u \in Units : unit'[u] = "running")
    /\ UNCHANGED <<flags, listening, tasks, task, failed, client, cb, hal, freed,
                   stale, starts, undoneStarts, events, ends, reopenErrors>>

(* In case of failure, start restores the two flags it has stored. *)
RestoreStopped ==
    /\ Goto("restoreStopped", "restoreDraining")
    /\ stopped' = was.stopped
    /\ failed' = TRUE
    /\ leftRunning' = (was.stopped /\ Running)
    /\ undoneStarts' = IF stopped THEN undoneStarts ELSE undoneStarts + 1
    /\ UNCHANGED <<draining, switchingDevice, reinitPending, delayedReinit,
                   device, tasks, task, client, cb, hal, freed,
                   stale, starts, events, ends, reopenErrors>>

RestoreDraining ==
    /\ Goto("restoreDraining", "finish")
    /\ draining' = was.draining
    /\ UNCHANGED <<stopped, switchingDevice, reinitPending, delayedReinit,
                   device, tasks, task, failed, client, cb, hal, freed, history>>

-----------------------------------------------------------------------------
(* reinit, of a reinit task or of a start task                                *)

CheckStopped ==
    /\ Goto("checkStopped", IF stopped THEN "recheckStopped" ELSE "stopUnits")
    /\ UNCHANGED <<flags, device, tasks, task, failed, client, cb, hal, freed, history>>

(* Mutant: the early return of reinit misses the clearing of switching_device. *)
ReinitOkEarly == IF task = "start" THEN "clearDelayed" ELSE "clearPending"

(* Mutant: a reinit task that fails tells the client, and closes nothing. *)
ReinitErrUnclosed == IF task = "start" THEN "restoreStopped" ELSE "notifyError"

(* Where reinit returns Ok to, and where it returns Err to. *)
ReinitOk == IF task = "start" THEN "clearDelayed" ELSE "clearSwitching"
ReinitErr == IF task = "start" THEN "restoreStopped" ELSE "close"

(* Mutant: a stream that is stopped needs no reinit. *)
RecheckForgets ==
    /\ Goto("recheckStopped", IF stopped THEN ReinitOk ELSE "close")
    /\ UNCHANGED <<flags, device, tasks, task, failed, client, cb, hal, freed, history>>

(* Something stopped the stream: reinit on the next start. *)
RecheckStopped ==
    /\ Goto("recheckStopped", IF stopped THEN ReinitOk ELSE "close")
    /\ delayedReinit' = (delayedReinit \/ stopped)
    /\ UNCHANGED <<stopped, draining, switchingDevice, reinitPending,
                   device, tasks, task, failed, client, cb, hal, freed, history>>

(* close: the units are uninitialized and disposed of, the listeners removed. *)
Close ==
    /\ Goto("close", "waitClosed")
    /\ unit' = [u \in Units |-> "null"]
    /\ listening' = FALSE
    /\ notices' = <<>>
    /\ UNCHANGED <<flags, tasks, task, failed, client, cb, lpc, freed, history>>

(* The HAL serializes those calls with the callbacks in flight. *)
Closed ==
    /\ CallbacksDone
    /\ lpc = "idle"
    /\ Goto("waitClosed",
            CASE task = "final" -> "release"
              [] task = "dead" \/ failed -> "notifyError"
              [] OTHER -> "lookup")
    /\ UNCHANGED <<flags, device, tasks, task, failed, client, cb, hal, freed, history>>

(* A stream that follows the default device looks it up again. *)
LookUpDevice ==
    /\ \/ Goto("lookup", "setup") /\ stale' = FALSE /\ UNCHANGED failed
       \/ /\ "setup" \in Failures
          /\ Goto("lookup", ReinitErr)
          /\ failed' = TRUE
          /\ UNCHANGED stale
    /\ UNCHANGED <<flags, device, tasks, task, client, cb, hal, freed,
                   leftRunning, starts, undoneStarts, events, ends, reopenErrors>>

(* CoreStreamData::setup.  It may fail before it has units, with units and no *)
(* listeners, or with some of its listeners installed.                        *)
Setup ==
    \/ /\ Goto("setup", "restart")
       /\ unit' = [u \in Units |-> "idle"]
       /\ listening' = TRUE
       /\ UNCHANGED <<flags, tasks, task, failed, client, cb, hal, freed, history>>
    \/ /\ "setup" \in Failures
       /\ Goto("setup", ReinitErr)
       /\ failed' = TRUE
       /\ \/ UNCHANGED device
          \/ /\ unit' = [u \in Units |-> "idle"]
             /\ listening' \in BOOLEAN
       /\ UNCHANGED <<flags, tasks, task, client, cb, hal, freed, history>>

(* Mutant: the stream is left for the client to start again. *)
RestartNever ==
    /\ Goto("restart", ReinitOk)
    /\ UNCHANGED <<flags, device, tasks, task, failed, client, cb, hal, freed, history>>

(* If the stream was running, start it again. *)
Restart ==
    \/ /\ stopped
       /\ Goto("restart", ReinitOk)
       /\ UNCHANGED <<flags, device, tasks, task, failed, client, cb, hal, freed, history>>
    \/ /\ ~stopped
       /\ Goto("restart", ReinitOk)
       /\ unit' = StartedUnits
       /\ UNCHANGED <<flags, listening, tasks, task, failed, client, cb, hal, freed, history>>
    \/ /\ ~stopped
       /\ "start" \in Failures
       /\ Goto("restart", ReinitErr)
       /\ PartlyStarted(unit')
       /\ failed' = TRUE
       /\ UNCHANGED <<flags, listening, tasks, task, client, cb, hal, freed, history>>

ClearDelayed ==
    /\ Goto("clearDelayed", "finish")
    /\ delayedReinit' = FALSE
    /\ UNCHANGED <<stopped, draining, switchingDevice, reinitPending,
                   device, tasks, task, failed, client, cb, hal, freed, history>>

(* notify_state_changed(Error), by close_on_error or by a reinit task that has *)
(* failed.  The latter has not ended the stream: it leaves stopped as it is,   *)
(* and whoever sets it later tells the client of one more end.                 *)
NotifyError ==
    /\ Goto("notifyError", "clearSwitching")
    /\ ends' = ends + 1
    /\ reopenErrors' = IF task = "dead" THEN reopenErrors ELSE reopenErrors + 1
    /\ UNCHANGED <<flags, device, tasks, task, failed, client, cb, hal, freed,
                   stale, leftRunning, starts, undoneStarts, events>>

(* The two flags are cleared one after the other. *)
ClearSwitching ==
    /\ Goto("clearSwitching", IF task = "reinit" THEN "clearPending" ELSE "finish")
    /\ switchingDevice' = FALSE
    /\ UNCHANGED <<stopped, draining, reinitPending, delayedReinit,
                   device, tasks, task, failed, client, cb, hal, freed, history>>

ClearPending ==
    /\ Goto("clearPending", "finish")
    /\ reinitPending' = FALSE
    /\ UNCHANGED <<stopped, draining, switchingDevice, delayedReinit,
                   device, tasks, task, failed, client, cb, hal, freed, history>>

-----------------------------------------------------------------------------
(* destroy, in the final task                                                 *)

(* The listeners are removed; the HAL waits for the one in flight. *)
Uninstall ==
    /\ wpc = "uninstall"
    /\ listening' = FALSE
    /\ notices' = <<>>
    /\ IF listening THEN UNCHANGED wpc ELSE lpc = "idle" /\ wpc' = "swapStopped"
    /\ UNCHANGED <<flags, unit, tasks, task, failed, client, cb, lpc, freed, history>>

(* Mutant: a stopped stream has nothing to close. *)
DestroySkipsClose ==
    /\ Goto("swapStopped", IF stopped THEN "release" ELSE "stopUnits")
    /\ stopped' = TRUE
    /\ UNCHANGED <<draining, switchingDevice, reinitPending, delayedReinit,
                   device, tasks, task, failed, client, cb, hal, freed, history>>

DestroySwap ==
    /\ Goto("swapStopped", IF stopped THEN "close" ELSE "stopUnits")
    /\ stopped' = TRUE
    /\ UNCHANGED <<draining, switchingDevice, reinitPending, delayedReinit,
                   device, tasks, task, failed, client, cb, hal, freed, history>>

(* core_stream_data is replaced, should_cancel set, and the box is dropped. *)
Release ==
    /\ Goto("release", "finish")
    /\ freed' = TRUE
    /\ UNCHANGED <<flags, device, tasks, task, failed, client, cb, hal, history>>

Worker ==
    \/ BeginTask \/ TaskDone \/ StopUnits \/ UnitsStopped
    \/ StartUnits \/ RestoreStopped \/ RestoreDraining
    \/ CheckStopped \/ RecheckStopped \/ Close \/ Closed
    \/ LookUpDevice \/ Setup \/ Restart \/ ClearDelayed
    \/ NotifyError \/ ClearSwitching \/ ClearPending
    \/ Uninstall \/ DestroySwap \/ Release

Next ==
    \/ Client
    \/ \E u \in Units : CallbackBegin(u) \/ CallbackContinue(u)
    \/ \E kind \in EventKinds : DeviceEvent(kind)
    \/ Listener
    \/ Worker

(* Every thread goes on with what it has begun; nothing makes the client call *)
(* the stream, a device change, or a unit that runs keep on running.          *)
Fairness ==
    /\ WF_vars(Worker)
    /\ WF_vars(Listener)
    /\ \A u \in Units : WF_vars(CallbackContinue(u))
    /\ WF_vars(StoreStopped \/ StoreDraining \/ ClientSubmit \/ ClientNotify)

Spec == Init /\ [][Next]_vars
FairSpec == Spec /\ Fairness

-----------------------------------------------------------------------------
(* Properties                                                                 *)

(* No thread is inside the stream, and the queue has nothing to execute. *)
Quiet ==
    /\ cpc = "idle" /\ lpc = "idle" /\ CallbacksDone
    /\ tasks = <<>> /\ wpc = "idle"

(* Once everything has settled a stopped stream has no unit running: whoever  *)
(* set stopped, the client, a callback or the notification thread, has the    *)
(* units stopped, and no reinit started them again behind its back.  The one  *)
(* exception is a start task that starts the units of a stream stopped        *)
(* meanwhile, or fails and leaves some running (README, section 4).           *)
NoOrphanRunning == Quiet /\ stopped => ~Running \/ leftRunning

(* And a stream nobody stopped runs, unless a failed reinit has closed it. *)
StartedMeansRunning ==
    Quiet /\ ~stopped => \/ \A u \in Units : unit[u] = "running"
                         \/ ~Opened /\ ~listening

(* The ends the client has still to be told of: one for each call of start,    *)
(* unless start itself has stopped the stream again, because it failed.  The   *)
(* Error of a reinit task that fails ends no start: it leaves stopped false,   *)
(* so that the client is told of one more end (README, section 4).             *)
EndsDue == (starts + reopenErrors) - (ends + undoneStarts)

(* However many threads decide to end a stream at once, the client is told of *)
(* an end (Stopped, Drained or Error) once for each of its starts: never one   *)
(* too many, and none is forgotten.  Once everything has settled the end of    *)
(* the last start is still to come if, and only if, the stream is not stopped. *)
EndsMatchStarts ==
    /\ EndsDue \in {0, 1}
    /\ Quiet => EndsDue = IF stopped THEN 0 ELSE 1

(* reinit_pending is set exactly while one thread is about to hand over, or   *)
(* the queue holds or executes, the one reinit task there ever is.            *)
ReinitHolders ==
    {<<"callback", u>> : u \in {v \in Units : cb[v] = "submitReinit"}}
    \cup (IF lpc = "submitReinit" THEN {<<"listener">>} ELSE {})
    \cup {<<"queue", i>> : i \in {j \in DOMAIN tasks : tasks[j] = "reinit"}}
    \cup (IF task = "reinit" /\ wpc # "finish" THEN {<<"worker">>} ELSE {})

OneReinitWhilePending ==
    ~freed => Cardinality(ReinitHolders) = IF reinitPending THEN 1 ELSE 0

(* When the memory of the stream is released no unit, listener, callback or   *)
(* notification is left that could touch it.                                  *)
NothingAfterRelease ==
    freed => ~Opened /\ ~listening /\ CallbacksDone /\ lpc = "idle"

(* And no task of the queue touches it later. *)
ReleasedStaysUntouched == [][freed => UNCHANGED <<flags, device>>]_vars

(* start, stop and destroy return: the queue, the callbacks they wait for and  *)
(* the notification thread never wait for each other in a circle.              *)
CallsReturn == (cpc # "idle") ~> (cpc \in {"idle", "gone"})

(* A stopped stream stops rendering, or is started again; the exception is    *)
(* that of NoOrphanRunning.                                                   *)
StopTakesEffect == stopped ~> (~Running \/ ~stopped \/ leftRunning)

(* A stream that renders to a device that has changed is reinitialized,       *)
(* stopped or closed.                                                         *)
ChangeFollowed == (stale /\ Running) ~> (~stale \/ ~Running)

(* A device change is being handled: by the notification thread, or by a task *)
(* it or a callback has handed over, until that clears switching_device.      *)
ChangeHandled ==
    \/ lpc # "idle"
    \/ \E u \in Units : cb[u] = "submitReinit"
    \/ \E i \in DOMAIN tasks : tasks[i] \in {"reinit", "dead"}
    \/ task \in {"reinit", "dead"} /\ wpc \notin {"clearPending", "finish"}

(* switching_device is true only while a device change is being handled       *)
(* ("This is true if a device change callback is currently running", mod.rs). *)
SwitchingIsTransient == switchingDevice /\ ~freed => ChangeHandled

(* There are two ways to end the handling of a change and leave the flag set, *)
(* so that the listener is silent from then on: the dead device of a stream   *)
(* that is stopped, and a change that trusts a reinit task which has cleared  *)
(* the flag already.                                                          *)
SwitchingLostTwoWays ==
    [][switchingDevice /\ ChangeHandled =>
          \/ ChangeHandled' \/ ~switchingDevice' \/ freed'
          \/ ListenerDead /\ stopped
          \/ ListenerSwapPending /\ wpc = "clearPending"]_vars

(* The stream will look its changed device up again: the change has yet to    *)
(* reach the notification thread, is handled there, or a reinit is handed     *)
(* over, queued, under way to its look-up, or left to the next start.         *)
ReinitComing ==
    \/ \E i \in DOMAIN notices : notices[i] = "change"
    \/ lpc \in {"change", "submitReinit"}
    \/ \E u \in Units : cb[u] = "submitReinit"
    \/ \E i \in DOMAIN tasks : tasks[i] = "reinit"
    \/ /\ task \in {"reinit", "start"} /\ ~failed
       /\ wpc \in {"checkStopped", "stopUnits", "waitCallbacks", "recheckStopped",
                    "close", "waitClosed", "lookup"}
    \/ delayedReinit

(* The stream is being closed for good: its device is dead, its reinit has    *)
(* failed, or it is destroyed.                                                *)
ClosesForGood == task \in {"dead", "final"} \/ failed \/ freed

(* A change of the device is followed by a look-up, unless the stream ends,   *)
(* or in one of four ways: it comes while nothing listens, between the        *)
(* look-up of a reinit and the listeners of its setup; its notification finds *)
(* an earlier change handled, or a reinit pending, which may have looked the  *)
(* device up already; or the delayed reinit that would see it is written off  *)
(* by the start that has tried to make up for it.                             *)
ChangeLostFourWays ==
    [][(stale => ReinitComing) =>
          \/ (stale' => ReinitComing')
          \/ ClosesForGood \/ ClosesForGood'
          \/ (stale' /\ ~listening /\ events' > events)
          \/ (ListenerBegin /\ switchingDevice)
          \/ (ListenerSwapPending /\ reinitPending)
          \/ ClearDelayed]_vars

(* What the tasks do to the core of the stream is what StreamCore promises    *)
(* to do for them: none starts a core that is set up by half, or sets one up  *)
(* that is not closed.                                                        *)
Core == INSTANCE StreamCore
    WITH sides <- Units,
         unit <- [s \in {"input", "output"} |-> IF s \in Units THEN unit[s] ELSE "null"]
UsesCore == Core!Spec

(* And the tasks are executed as the contract of their queue promises: in the *)
(* order they were handed over, one at a time, and none after the final one,  *)
(* at whose end run_final closes the queue.                                   *)
Queue == INSTANCE QueueContract
    WITH Queues <- {"stream"},
         Works <- Tasks,
         waiting <- [q \in {"stream"} |-> tasks],
         performing <- IF task = "none" THEN {} ELSE {<<"stream", task>>},
         final <- {"final"},
         closed <- [q \in {"stream"} |-> freed /\ task = "none"]
UsesQueue == Queue!Spec

-----------------------------------------------------------------------------
(* What comments and assertions promise, or a client may expect, and the code *)
(* does not keep; the README, section 4, says with which constants TLC shows  *)
(* it.                                                                        *)

(* close only sees units that no longer call back: stop_audiounits has been   *)
(* called before, to avoid a data race with a running data callback.          *)
CloseSeesQuietUnits == wpc = "close" => CallbacksDone

(* A start that fails leaves no unit of a stopped stream running.             *)
FailedStartStopsUnits ==
    wpc = "finish" /\ task = "start" /\ failed /\ stopped => ~Running

(* The client is told of at most one end for each start: not by the Error of  *)
(* a reinit task that has failed, and by a stop after it.                     *)
OneEndPerStart == ends <= starts

(* start_audiounits is only called on a stream that is open. *)
StartsOnlyOpenStream == wpc = "startUnits" => Opened
=============================================================================
