# A specification of cubeb-coreaudio-rs

cubeb-coreaudio-rs is the CoreAudio backend of cubeb, Firefox's audio library.
It opens audio units for a client's streams, follows the devices of the system
as they come and go, and hands the client's data callback the samples. Nearly
all of it is in `src/src/backend/mod.rs` (in what follows `mod.rs`), on top of
the serial queues of `src/coreaudio-sys-utils/src/dispatch.rs` (`dispatch.rs`).

The code is hard where threads meet: the client's threads, the serial queue of
each stream, the render threads of CoreAudio, and the threads on which the HAL
(the part of CoreAudio that owns the devices) delivers notifications. They share
a dozen atomic flags, raw pointers to streams and condition variables, and the
steps in which they take turns are rarely covered by a test: the tests of the
repository need real devices and cannot choose a schedule. That is what these
modules are about.

Contents:

1. Inventory of the system
2. The modules, and how they correspond to the code
3. Runs, bounds, fairness
4. What the runs find
5. What is proved
6. What is only model-checked, and what is not modelled
7. Plan

## 1. Inventory

| Component | State | Operations | Interacts with | What makes it correct |
|---|---|---|---|---|
| **Serial queues** (`dispatch.rs`) | the libdispatch queue, `should_cancel` | `run_async`, `run_after`, `run_sync`, `run_final` | everything: streams, the pool, device collection | closures run one at a time, in order; after `run_final` nothing else runs, and whoever waits is answered |
| **Stream** (`AudioUnitStream`) | atomics `stopped`, `draining`, `switching_device`, `reinit_pending`, `destroy_pending`; `delayed_reinit` | `start`, `stop`, `destroy`, `reinit`, `reinit_async`, `close_on_error`; render callbacks, property listener | its queue, its core data, CoreAudio, the client | units run exactly while the stream is started; its client is told of one end per start, and of an Error for each reinit that fails; nothing touches it after its release; device changes are followed |
| **Core data** (`CoreStreamData`) | the two audio units, the voice processing handle, aggregate device, resampler, mixer, six listeners, `units_running` | `create_audiounits`, `setup`, `start_audiounits`, `stop_audiounits`, `close`, install and uninstall of listeners | the pool, aggregate devices, CoreAudio | whatever fails, nothing is leaked or freed twice, live callbacks find what they use, listeners are registered once |
| **Voice processing pool** (`SharedStorage`, `SharedVoiceProcessingUnitManager`) | units, outstanding count, generation | `take`, `take_or_create_with`, `recycle`, `clear_if_all_unused`, delayed task | core data of all streams, the context's queue | one owner per unit; units are disposed of all or none, and in the end |
| **Context** (`AudioUnitContext`) | latency controller, device collection, pool | `stream_init`, `register_device_collection_changed`, drop | streams, HAL notifications | see the next two |
| **Latency controller** | stream count, latency | `add_stream`, `subtract_stream` | stream creation and destruction on several threads | one latency for all streams, settled exactly while there are some |
| **Device collection** (`SharedDevices`) | per scope: callback, list of devices | add, remove of the client's callback; two system listeners | HAL notifications, the context's queue | no change lost, no call after removal, listeners all or none |
| **Synchronous property changes** (`set_buffer_size_sync`, `create_blank_device_sync`, `set_sub_devices_sync`) | a mutex and a condition variable per call, a registry of live callbacks | listen, change, wait with time-out, tear down | HAL notifications | a late callback never touches a freed pair; calls return; no lost wakeup |
| **Aggregate devices** (`aggregate_device.rs`) | device id, plugin id | `new`, `set_sub_devices_sync`, `set_master_device`, drift compensation, drop | core data, the synchronous changes | a device that is returned is complete; on failure it is destroyed |
| **Input buffering** (`buffer_manager.rs`) | ring buffer, producer and consumer | push, pull, trim, underrun | the two render callbacks | bursts of input find room, the input does not lag, no frame found gives way to silence |
| **Positions and latencies** | `frames_queued`, `frames_read`, `frames_written`, latencies | `position`, `latency` | render callbacks | the position does not run ahead of what was queued, and does not underflow |
| **Voice processing parameters** | `input_mute`, `input_processing_params` | `set_input_mute`, `set_input_processing_params` | reinit, the pool | the unit in use has the settings its stream remembers, whoever had it before |
| **Mixer** (`mixer.rs`), **identifiers** (`intern.rs`) | a mapping of channels; a map of strings | pure | | not modelled |
| **Device queries** (`device_property.rs`), RAII wrappers, CoreAudio bindings, C interface | none of their own | one foreign call each | | not modelled |

Where it is hard:

* *interleavings*: `start`, `stop`, a failing or draining render callback, the
  property listener and a queued reinit each load, store or swap the same flags
  in steps of their own;
* *failure half-way*: every CoreAudio call of `setup` may fail, and who
  called `setup` decides what becomes of the half that is done;
* *ordering*: stop, uninitialize, dispose, unregister and free have to be in the
  one order in which a callback in flight finds what it uses;
* *late messages*: notifications, queued closures and delayed tasks arrive after
  the object they point to has changed hands or gone;
* *waiting*: `run_sync`, AudioOutputUnitStop, the removal of a listener and the
  condition variables wait for each other's threads.

`PROJECT.json` lists the hazards one by one, at their lines, with the property
that would catch each.

## 2. The modules

| Module | Models | Instances | Proofs |
|---|---|---|---|
| `QueueContract` | what a serial queue promises: order, one work at a time, nothing but a final work after the final work | (by the three that use it) | (in their proof modules) |
| `StreamCore` | what the tasks of a stream may rely on when they call its core data, whatever fails in it | (by the two sides) | (in their proof modules) |
| `FrameContract` | what becomes of the frames captured, whatever the two callbacks do | (by DuplexCallbacks) | `DuplexCallbacksProof` |
| `DispatchQueue` | `dispatch.rs`: implements `QueueContract` | `MCDispatchQueue` | `DispatchQueueProof` |
| `AudioUnitStream` | one stream and its four kinds of threads | `MCAudioUnitStream` | `AudioUnitStreamProof` |
| `CoreStreamData` | what a stream acquires and gives back, on its queue | `MCCoreStreamData` | `CoreStreamDataProof` |
| `SharedStorage` | the pool of voice processing units | (by VoiceProcessing) | `VoiceProcessingProof` |
| `VoiceProcessing` | the streams that use the pool and set its units: extends `SharedStorage` | `MCVoiceProcessing` | `VoiceProcessingProof` |
| `SyncCallback` | the three calls that wait for a notification | `MCSyncCallback` | `AggregateDeviceProof` |
| `AggregateDevice` | the construction of a device with two of these calls: extends `SyncCallback` | `MCAggregateDevice` | `AggregateDeviceProof` |
| `DeviceCollection` | the client's callback for the lists of devices | `MCDeviceCollection` | `DeviceCollectionProof` |
| `LatencyController` | how the streams agree on a latency | `MCLatencyController` | `LatencyControllerProof` |
| `DuplexCallbacks` | the two render callbacks, the ring buffer between them and the position | `MCDuplexCallbacks` | `DuplexCallbacksProof` |

Each `...Proof` module extends the module it is about. The field `map` of
`PROJECT.json` gives the lines of every definition. Definitions called
`X...` that a comment introduces with "Mutant:" are a plausible bug in `X`; no
specification uses them. They stand beside the definition they change and show
what the properties are sensitive to.

**DispatchQueue.** `Enqueue`, `RunAsync`, `RunAfter`, `RunSync`, `RunFinal` hand
over closures; `Begin` and `End` execute one at a time, as all queues target the
singleton queue; `Cancelled` is the test of `should_cancel` in the executor.
`Due` is libdispatch's timer. A sync caller waits until `Return`.

**AudioUnitStream.** One action per load, store or swap another thread can tell
apart. The client's actions are `start` (store `stopped`, store `draining`, hand
over, notify), `stop` and `destroy`; the callbacks' are the drain, error and
reinit paths of the two render callbacks; the listener's are the two paths of
`audiounit_property_listener_callback`; the worker executes the closures. What
is external: AudioOutputUnitStop and the disposal of a unit wait for the render
callback in flight; the removal of a listener waits for the notification in
flight and drops those pending; the HAL delivers a stream's notifications on
one thread; AudioOutputUnitStart may fail. What is said of the removal is an
assumption, which nothing in the repository states (its comments on notify
callbacks, mod.rs:1058-1059 and mod.rs:5030-5031, are about Get/SetProperties).
`NothingAfterRelease` rests on it for a notification that is being delivered when
the stream is destroyed: it shows that the code removes the listeners before
it frees the stream, not that CoreAudio then leaves it alone. SyncCallback does
without the assumption. `RestartEarly` FALSE keeps to clients that start a stream
only when it is stopped and the stop task of its last end has been executed; with
TRUE they call `start` whenever they like. `starts`, `events`, `ends` and `stale`
are history, and so are `undoneStarts` (calls of `start` that failed and have
stopped the stream again themselves), `reopenErrors` (reinit tasks that failed and
notified Error) and `leftRunning`: the last step that started units was one of a start task
and has left them running although the stream is stopped. There are two ways to
this. A start of two units fails at the second, and `start` restores `stopped`
without stopping the first; or something stops the stream between the hand-over
of the start task and its execution, which does not look at `stopped` again.

**CoreStreamData.** The steps of `create_audiounits`, `setup`, `close` and of the
functions that install and remove listeners, in the order of the code; `job`
says for whom (`stream_init`, `start`, `reinit`, a delayed reinit, destruction
and so on) and so what `Err` does: `stream_init` drops the stream, `reinit_async`
closes it, `start` restores `stopped`. CoreAudio's side is the state of each
unit, and the listeners it calls. The interleavings with other threads are in
AudioUnitStream, where `setup` and `close` are single steps; here a job that has
begun is not interrupted, except that any call may fail (`Failures`). A stream
lives once ("gone" is the end), because listeners are not told apart by stream.

**SharedStorage.** `Take`, `Create`, `Recycle` are the critical sections;
`CheckIdle` and `ScheduleClear` the steps of a recycling stream after it released
the lock; `ClearIfUnused` the delayed task. Which unit `pop` returns is left
open.

**VoiceProcessing.** The streams of a context as the users of the pool, each with
the tasks of its queue and a client thread. All queues run on the singleton queue,
so that a task of several steps is a turn (`NobodysTurn`), and `TurnStep` its
steps after the first: `Acquire` (take or create a unit; or do without, or fail),
`Regular` (the unit does not take the devices, is returned, and regular ones are
created), `Setup`, `Restart`, `ReturnUnit`, `Closed`. A call of the client is
three steps: `Check` on its thread, `ApplyMute` or `ApplyParams` on the queue,
`Remember` on its thread again. `setting` is what each unit has been set to, which
it keeps in the pool. `crossed` and `halfway` are history: a setup that fell
between setting and remembering, and parameters of which only the first could be
set. The reinit of one stream and the calls, setups and returns of another are
interleaved; the flag `stopped` and its races are AudioUnitStream's.

**SyncCallback.** Each call allocates its pair at an address, registers it,
listens, changes the property, waits (a time-out and a spurious wakeup may end
the wait), and tears down in its own order: that of `set_sub_devices_sync` differs
from the other two. Callbacks take the registry's lock, look their address up and
lock the pair. Here, the removal of a listener is *not* assumed to wait for a
callback in flight: the registry exists because of that. Notifications with
scope 0 and the asserted statuses are left out.

**AggregateDevice.** `new` in the steps of the code: `Locate`, the two waiting
calls (`CallStep` is a step of SyncCallback, made when the build has come to that
call), `SetMasterDevice`, `ActivateDriftCompensation`, `WorkaroundForAirpod`, each
of which may fail, and `Cleanup`, which is armed once the first call has
returned the device. Other calls (a buffer size) come between the builds, and may
get the memory of an earlier call's pair while a callback for it is on its way.
`existing` says whose device exists, `succeeded` which calls returned Ok, and the
history `answered` which calls were reported to by their own listener.

**DeviceCollection.** `Ask` and the steps `Check`, `AddListeners`, `SetScope`,
`Clear`, `RemoveAll` run on the context's queue, the reports of the system
callbacks between them. Calls of the client and changes of the devices come at
any time; adding and removing a listener may fail. Notifications not yet delivered
are counted per property: nothing orders those of different properties.

**LatencyController.** Streams are created and destroyed by threads of their own;
`AddStream` and `SubtractStream` are the critical sections, and what happens
between them (`Resize`, failure, reopening, the check of `destroy_internal`) is
steps. It is assumed that no other program resizes the buffer of the device.

**DuplexCallbacks.** The steps of the two callbacks between which the other one can
come: `Capture` (what is rendered, and how much room there is), `Push`; `Render`
(how much output, and the latency), `Look` (how much is there), `Trim` and
`Discard`, `Choose`, `Pull` and `Pop`, `Fill` (what the resampler wrote; time
stamp and count). A frame is the number of its capture; the ring holds frames.
`upmix` is how many samples are asked for per sample stored when a mono device
serves more channels. `Change` is the pair of flags of AudioUnitStream, `Setup` the
resets of a reinit with the callbacks stopped. The client reads the time stamp and
the latency separately (`ReadTiming`, `Position`).

How they compose. Three small modules are contracts: a module on one side is shown
to implement them, the modules on the other to do nothing they do not allow.

* `QueueContract`. DispatchQueue implements it (`ImplementsContract`); the tasks of
  AudioUnitStream and of DeviceCollection are works of such a queue (`UsesQueue` of
  each), handed over with `run_async`, `run_sync` and `run_final`. The final work of
  a stream closes its queue, and what is left in it is dropped.
* `StreamCore`. CoreStreamData implements it step by step (`ImplementsCore`);
  AudioUnitStream, for which `setup`, `start_audiounits`, `stop_audiounits` and
  `close` are one step or two, makes only calls it allows (`UsesCore`). So what one
  module takes for granted of the core, under all interleavings, the other shows
  of its steps, under all failures. A core is only set up when it has no listeners
  and nothing runs, and is only started as a whole or when it has nothing.
* `FrameContract`. DuplexCallbacks implements it (`KeepsFrames`): whatever is
  dropped for want of room, trimmed, popped too many of, or lost to a reinit, no
  frame of the input is given to the client twice, or before an earlier one.

`VoiceUnitReturned` of CoreStreamData is what SharedStorage assumes of a stream that
recycles a unit. VoiceProcessing and AggregateDevice contain the modules they extend: their
steps are steps of the pool and of the calls, interleaved with what the streams
and the builds do.

## 3. Runs

Runs whose properties include a liveness property use the fair specification, the
others the one without fairness. Deadlock is checked only for the latency
controller: in the other modules everything may be done (a destroyed stream, a
dropped pool, calls that have returned, bounds used up).

| Run | Bounds | Shows |
|---|---|---|
| MCDispatchQueue | 2 threads, 2 queues, 3 closures | the queues implement QueueContract; `run_sync` and `run_final` return |
| MCStreamSwitch | input, 4 starts, 1 change, drains, errors, reinits and starts that fail | the change is followed, stops take effect |
| MCStreamAll | duplex, 2 starts, 1 event, everything | once all is quiet, units run exactly if the stream is started; one end for each start and an Error for each failed reinit, one reinit task at a time, nothing after release, nobody waits in a circle; the flag of a change is lost in two ways only, and a change in four; tasks use the core as StreamCore allows |
| MCCoreStreamData | 3 units, all failures but of removals | no leak, the voice processing unit is returned, callbacks find all, what runs is listened to, and once; StreamCore is implemented |
| MCVoiceProcessing | 2 streams, 2 units, 3 takes; one stream is started and sets its unit | ownership and disposal of the units; the unit in use has its stream's mute state and parameters |
| MCAggregateDevice | 2 builds and a buffer size, 2 addresses, 1 callback thread, 1 notice beyond those owed | no callback touches a freed pair, no lost wakeup; a device returned has been reported, a failure is cleaned up; builds end |
| MCDeviceCollection | 2 lists, 2 changes, 3 calls, refused additions and removals | no lost change, no call after removal, listeners all or none; changes are reported |
| MCLatencyController | 3 streams, 3 requests | one latency, the right count, a buffer that fits |
| MCDuplexCallbacks | input, output and duplex streams; callbacks of 1 and 2 frames, room for 2 or 4 times these, 5 frames captured, 4 written, 1 reinit | bursts find room, nothing stays behind, no frame found gives way to silence, the position is not ahead; FrameContract is implemented |

*Why these bounds are enough.* A hazard of the stream needs an event that
overlaps with an end, and one start to be stopped behind. Two queues and three
closures give a final work, a closure before or after it, and one on another
queue. Three takes let a unit pass from one stream to the other and back, and a
second unit be created while the first is in use; a third stream would add
another owner of a unit whose settings depend on the last one only. Three units
of CoreStreamData are one more than a stream holds, so that a leaked one does not
stop the model from creating the next. A call of SyncCallback can be reached by
the callback of one other call, and a third address would never be reused. Five
frames in callbacks of one or two fill a ring of four and more, and leave a late
output more than it needs; four frames written are two output callbacks of each
size. The proofs of section 5 need none of these bounds.

What the bounds of the stream's runs keep apart, and why:

* MCStreamSwitch has one change. With two, `SwitchingIsTransient` is violated:
  that is MCStreamLostChange, the first finding below, and `ChangeFollowed` with
  it. With one change, no dead device and no reinit asked for by a callback it
  holds, for any number of starts (theorem SwitchingTransient). What MCStreamSwitch shows is that a single change is followed whatever the
  client does meanwhile and however often its reinit fails or is delayed.
* `RestartEarly` is FALSE in both: the client starts only a stopped stream, and when
  it is told of an end it waits for the stop task of that end before it starts the
  stream again. Otherwise that task stops the new start (*restart when told of the
  end* below), and a start that fails restores the value of `stopped` it loaded
  before it was handed over, so that a stream is ended twice. The hazard at
  mod.rs:802, and the one at mod.rs:5149 for a stream that is already started, are
  about other clients, and no property of a run covers them there.
* `EndsMatchStarts` allows the Error of a reinit that has failed on top of the end
  of the start, as the code leaves the stream unstopped (*error, then stopped*
  below).
* `NoOrphanRunning` and `StopTakesEffect` exempt `leftRunning` (*half a duplex
  start* and *start against reinit* below). They are about all other ways to stop
  a stream, and about the units once one of those has stopped them again. What
  starting half a stream leaves behind (mod.rs:3426) is therefore shown by
  `FailedStartStopsUnits` below, and by no property that holds.
* MCCoreStreamData lets every step fail but the removal of a listener; when that
  fails the listener's field stays set, which `RegisterUnused` excludes (*refused
  removal* below), and which `ImplementsCore` does not allow either.
* MCStreamAll has one event as well. `ChangeLostFourWays` has also been checked with
  two and `RestartEarly` TRUE; each of the four ways occurs in one of the two.
* In MCVoiceProcessing only one stream makes calls. With calls of both and no
  liveness the same invariants hold (8.3 million states).

*Fairness.* Weak fairness of the worker, of a notification being delivered and
of a callback that has begun: the queue executes what it holds, threads go on
with what they have begun. Strong fairness where a thread competes for a lock or
for the singleton queue (`Begin` of each queue, the calls and callbacks of
SyncCallback, the timers of VoiceProcessing): libdispatch and the mutexes of the system starve nobody for ever.
Nothing is assumed of the client (it need not call), of devices (they need not
change) or of CoreAudio starting a callback.

## 4. What the runs find

Three runs expect a violation and show where the code does other than its comments
say; `findings` of `PROJECT.json` quotes them.

| Run | Property | What happens |
|---|---|---|
| MCStreamLostChange | SwitchingIsTransient | a change between the clearing of `switching_device` and of `reinit_pending` silences the listener for ever (mod.rs:5051) |
| MCSyncSubDrop | DroppedUnlocked | `set_sub_devices_sync` frees its mutex before its guard unlocks it (aggregate_device.rs:365, 389); the comment quoted (mod.rs:1597) stands at the same step of its sibling `set_buffer_size_sync` |
| MCVoiceMute | MuteRemembered | a reinit after `set_input_mute` has muted the unit and before it has remembered so (mod.rs:5304) sets the unit up unmuted; the client has been told that it is muted |

Modelling met more behaviour a reviewer would ask about, most of it against what
a comment or an assertion says. These cases have no run of their own;
their properties are in the modules, and TLC finds each of them violated with the
constants named here (sets that are not named are empty, `RestartEarly` is
FALSE):

| | Property | Constants | What happens |
|---|---|---|---|
| *death of a stopped stream's device* | SwitchingIsTransient | output, {"dead"}, 1 start, 1 event | the listener sets `switching_device`, hands over no task and is silent ever after (mod.rs:1055) |
| *draining stream destroyed* | CloseSeesQuietUnits | output, {"drain"}, 1 start | `destroy` finds `stopped` set and closes units without stopping them, against mod.rs:5101 |
| *start of a closed stream* | StartsOnlyOpenStream | output, {"change"}, failing "setup", 2 starts, 1 event | `start_audiounits` is called on a stream a failed reinit has closed, against the assertion at mod.rs:3402 |
| *half a duplex start* | FailedStartStopsUnits | duplex, failing "start", 1 start | a start that fails at the output unit leaves the input unit of a stopped stream running (mod.rs:3426, 5157): `leftRunning` |
| *start against reinit* | NoOrphanRunning without `leftRunning` | output, {"change"}, {"error"}, 2 starts, 1 event | a reinit between a start's store of `stopped` and its task starts the units; they fail, and the start task starts them once more, stopped (mod.rs:5007) |
| *error, then stopped* | OneEndPerStart | output, {"change"}, failing "setup", 1 start, 1 event | a reinit task that fails closes the units and notifies Error without setting `stopped` (mod.rs:5043-5045); the client's next `stop` finds it FALSE and notifies Stopped (mod.rs:5178, 5184), a second end of the same start. `close_on_error`, for a dead device, comes after the swap of `stopped` |
| *restart when told of the end* | StartedMeansRunning | input, {"drain", "error"}, 2 starts, `RestartEarly` TRUE | the client is told of the end before the stop task is handed over (mod.rs:802, 940), and that task stops the stream the client has started again meanwhile |
| *callbacks in a row* | LackMadeUp | those of MCDuplexCallbacks | "if we had more than expected callbacks in a row, or we're currently switching, we add some silence" (mod.rs:857-859): the code adds it when `switching_device` or `reinit_pending` is set or `frames_read` is 0 (mod.rs:874-877), and has no test for callbacks in a row; the second of two output callbacks gives the resampler less input than it needs. As the silence of the first is counted in `frames_read` too (mod.rs:898), this is so even if the input has not started |
| *sub-devices deadlock* | UnregisterUnblocks | those of MCSyncSubDrop | the cleanup waits for the registry with the pair locked; a callback waits for the pair with the registry locked (aggregate_device.rs:365, 389) |
| *reused address* | OwnPairOnly | those of MCAggregateDevice (of `FairBuildSpec`) | a late callback reports to the call that got the address of its own (mod.rs:1597) |
| *refused removal* | RegisterUnused | those of MCCoreStreamData with "unlisten" | the default-output listener cannot be removed and the default-input listener stays: the next setup fails an assertion (mod.rs:4768, 4672) |
| *failed delayed reinit* | ReinitFindsUnits | those of MCCoreStreamData | the next start calls reinit again, without units, against its assertion (mod.rs:4944, 5145) |

And these, which the properties of the runs allow for or are not about:

* *parameters race*: `set_input_processing_params` has the two halves of
  `set_input_mute`, and the same race (mod.rs:5368). `MuteAsRemembered` and
  `ParamsAsRemembered` exempt a stream in `crossed` until its unit is set up or set
  once more; without a reinit between the halves they hold, whoever had the unit.
* *no unit any more*: a call checks on its thread that the stream has a voice
  processing unit; a reinit that fails before the queue comes to the call closes
  the stream, and the assertion that the unit is not null ends the process
  (mod.rs:348, `ApplyToNothing`). A reinit that falls back to regular units
  makes the call fail, or defer its parameters if the stream runs.
* *left-over settings*: "Always reset input processing params ... in case VPIO is
  reused later" (mod.rs:3442) is done for a stream that is stopped, and so not for
  one whose parameters are set while it is not started and that is then destroyed.
  The unit goes back to the pool with them. Nothing comes of it: `setup` mutes and
  `start_audiounits` sets parameters of whatever unit it has, which is what the two
  invariants show.
* *a device nobody destroys*: if the wait of `create_blank_device_sync` times out,
  `new` returns before it has armed the cleanup, and the device stays
  (aggregate_device.rs:74, 197). `OnlyTimeoutLeaks` says that this is the only way
  for a failed build to leave one.
* *stale count after a trim*: the output callback trims the ring and then asks for
  as many frames as there were before (mod.rs:868, 895): what is missing becomes
  silence, in the middle of a stream. `SilenceFillsTheGap` bounds it: all frames
  the output takes come before that silence, and there is no more of it than
  was to be trimmed. A frame pushed meanwhile takes the place of silence.
* *mono upmix*: `pop_slice` fills a slice with room for all channels from a ring
  that holds one (buffer_manager.rs:274), so that a pull takes up to that many
  times the frames it needs; the upmix overwrites those that are too many. They
  are lost. No property of a run forbids this: `NothingStays` holds, as the input
  then lags even less, and `KeepsFrames` allows frames to be passed over.
* *change behind the look-up*: a change of the default device after reinit has
  looked it up and before `setup` has installed the listeners (mod.rs:4967) is told
  to nobody. It takes two changes, one more than MCStreamSwitch has.
* *delayed reinit written off*: a start whose stream is stopped again while it makes
  up for a delayed reinit has `reinit` delay it once more (mod.rs:4941) and return
  Ok, and then clears `delayed_reinit` (mod.rs:5153).
* `ChangeLostFourWays` has these two, the listener that finds `switching_device` set
  and the one that finds a reinit pending which is past its look-up, and says that
  there is no fifth way.

## 5. What is proved

All theorems hold for every value of the constants that the named assumptions
allow (finite sets of streams, null values that are not units); `tlapm` checks
every leaf. The argument is the same in each proof module: an inductive
invariant `IInv`, a lemma for the initial state, one lemma per action or group
of like actions, `StepInvariant`, and the theorems by PTL. TLC has checked each
`IInv` on the small instances as well.

* **DispatchQueueProof**: TypeOK, NothingRunsAfterFinal, NoneOnlyAfterFinal,
  InPlace, and the refinement of QueueContract. `IInv` adds `ClosedByFinal`:
  `should_cancel` is set exactly when a final work has been performed, without
  which the test in the executor says nothing about the past. In the refinement a
  closure of `run_after` is handed over when it becomes due, and a step that only
  answers a caller stutters (`SameForContract`). NoCallerForgotten says that
  whoever waits waits for a closure that is in its queue, running, or over:
  `SyncCallerReturns` adds that it gets there.
* **AudioUnitStreamProof**: TypeOK, NothingAfterRelease, ReleasedStaysUntouched,
  NoOrphanRunning, OneReinitWhilePending and, for `RestartEarly` FALSE,
  StartedMeansRunning and EndsMatchStarts; for any number of starts and
  events. The types alone are not inductive (the
  worker goes on by `task` and `failed`: `FailedOK`). `ClientWaits` says that
  there is at most one task a client waits for and where it waits;
  `ClosedIsDown`, that from `close` to release neither a unit nor a listener can
  start anything new; `FinalIsLast`, that the final task ends the client's calls.
  The other four have an invariant each on top of this one. `OrphansAreEnded`: while the units
  of a stopped stream run, somebody is on the way to stop or close them (the
  client, a callback, the listener, a task in the queue or in progress: `Ender`).
  `StartedIsUp`: a stream that is not stopped runs, is about to, or was closed by
  a reinit that failed. `OneReinit`: whoever holds the reinit is the only one.
  `OneEnd`: the end a start is owed (`EndsDue`) lies in one place: with the stream
  while it is not stopped, else with the one thread or task that has set `stopped`
  and has not told the client yet (`Awaited`), or it has been reported or undone.
  The assumption is needed: with `RestartEarly` TRUE the two properties are
  violated (*restart when told of the end*).
  Of a device change: SwitchingLost and ChangeLost follow the one who is to handle
  it, and the look-up it calls for, from step to step (`ChangeHandled`,
  `ReinitComing`); a listener that relies on a pending reinit is where `OneReinit` is
  needed, as somebody then holds that reinit. SwitchingTransient has assumptions
  (one change, no dead device, no reinit from a callback) that exclude the two ways
  to lose the flag; its invariant `Once` says that the one change is in one place.
  Of the two contracts: TasksUseCore, by `WholeInv` (a core set up half-way by a
  failed reinit is closed by its own task, or has its next start delayed, so that
  it is never just started: `HalfIsDelayed`), and TasksUseQueue, by
  `FinalReleases` (the final task ends with the stream freed, so that the test of
  `should_cancel` is the one of `freed`). NoCallForgotten: a client inside `start`,
  `stop` or `destroy` has its task in the queue or in progress.
* **CoreStreamDataProof**: TypeOK, NoLeakedUnit, VoiceUnitReturned,
  CallbacksFindAll, for any failures, those of removals included. `Shape` says
  that a stream holds either units of its own or the voice processing unit;
  `Progress`, how far creation and close are at each place (what is null, what is
  still initialized); `Ready`, that units are initialized and started only when
  the stream is complete, or has none at all, and that a stream set up half-way
  has its next start delayed. If "unlisten" is not in `Failures`, moreover,
  RegisterUnused, RunningIsWatched and NothingLeft: `WatchInv` says that close
  leaves no listener, that setup has at each place those wanted before it, and that
  units are started only when all are there; `LeftInv`, that a stream without
  units has no handle, aggregate device or resampler either. When a removal may be
  refused RegisterUnused is violated (*refused removal*). With the same assumption
  CoreImplementsContract: each step of `create_audiounits`, `setup`, `close`, of
  starting and of stopping is a step of StreamCore or a stutter, `UnitOf` being
  what the stream sees of the unit of each side.
* **VoiceProcessingProof**, of the pool: TypeOK, OneOwner, CurrentTimerMeansIdle,
  NothingAfterDrop, DisposeAllOrNone. `TasksNotAhead` is what lets a raised
  generation outdate every task made before. Of the streams: VoiceImplementsPool
  (`VoiceSpec => Spec`), by which all of this holds of them; MuteAsRemembered,
  ParamsAsRemembered, UnitsReturned. `VoiceIInv` adds for each stream how far its
  unit is taken or returned at each stage (`HoldingAt`), and the two properties as
  they are between the halves of a call (`MuteAt`, `ParamsAt`); a lemma each says
  that a step of one stream leaves those of the others alone, as no two streams
  have the same unit.
* **AggregateDeviceProof**, of the calls: TypeOK, CallbackFindsPair, OnlySubDropsLocked
  and NoLostWakeup for all three kinds of call; DroppedUnlocked and
  UnregisterUnblocks for calls other than `set_sub_devices_sync`, which violates
  both. `Owned` says who owns an address, `Listens` which listener a call has,
  `LInv` who may hold which lock, `WInv` that a report is on its way to whoever
  waits for it. Of the builds: BuiltMeansReported, OnlyTimeoutLeaks and, as a build only makes steps
  of the calls, what was proved of these. `BInv` says for each stage of a build
  what its calls have returned and whose device exists.
* **DeviceCollectionProof**: TypeOK, NoCallAfterRemoval, NoLostChange,
  AllOrNoListeners, NothingAfterDrop. `Waited` relates the call the client waits
  for to its task in the queue or in progress, `Wanted` the scopes it has
  registered to the callbacks set, `Listening` the listeners to the place in each
  task that adds or removes them, and `Ended` that a final task is the last.
  TasksUseQueue and NoCallForgotten as for the stream.
* **DuplexCallbacksProof**: TypeOK, BurstsFit, NothingStays, SilenceFillsTheGap,
  PositionNotAhead and the assertion of trim, for any sizes, rates and latencies.
  The ring is ordered, and the number of its frames bounded by the callbacks that
  pushed since the output last looked (`Roomy`); what a callback has looked at is
  still there when it pulls, or at least what it has kept of it (`Pulled`, `Kept`), and
  more is asked for only where silence is due (`Chosen`); both time stamps are behind the count of
  queued frames (`Timed`). FramesKept, the refinement of FrameContract, follows from
  the same invariant: what the ring holds is in order and was captured after all that
  has left it; frames that join its end, and a prefix that leaves it, keep it so.
* **LatencyControllerProof**: TypeOK, CountsStreams, OneLatency, BufferFits. The
  properties are together inductive: the count alone says nothing of the
  latency, and the buffer is right because all latencies are the same.

## 6. What is only model-checked, and what is left out

Out of the prover's reach are the liveness properties (fairness, ENABLED):
SyncCallerReturns, StopTakesEffect, ChangeFollowed, CallsReturn,
IdleUnitsReleased, BuildsEnd, ChangesReported. Induction over data and recursive
operators are too. Every other property of a passing run has its theorem, some of
them under an assumption on the constants that the runs share: `RestartEarly` FALSE
(StartedMeansRunning, EndsMatchStarts), "unlisten" not in `Failures`
(RunningIsWatched, ImplementsCore). For the liveness properties the theorems
NoCallForgotten, NoCallerForgotten and ChangeLost are the safe half: what is waited
for is never dropped. Why it is then done is the fairness of section 3.

The other way round, what is proved is not always a property of a run as well: the
type invariants, NothingRunsAfterFinal, InPlace and NoneOnlyAfterFinal of
DispatchQueue, ReleasedStaysUntouched and UsesQueue of AudioUnitStream, RegisterUnused and
NothingLeft of its core, CurrentTimerMeansIdle and NothingAfterDrop of the pool, UnitsReturned
of the streams that use it, OnlySubDropsLocked and UnregisterUnblocks of SyncCallback,
UsesQueue and NothingAfterDrop of DeviceCollection, that no caller is forgotten, and
the assertion of trim are left to their theorems.

Left out of the models: the samples, their formats and channels, how latencies are
computed from time stamps, names and volume, the queries of the HAL (no state of
their own), the RAII wrappers and bindings (one foreign call each), the C interface
(generated), the tests. The mixer (`mixer.rs`) maps channel layouts in a sequential
function its unit tests reach, and `intern.rs` is a map that only grows: a model of
either would repeat it. The leak of the early return in aggregate_device.rs:349 is
modelled but contradicts nothing the repository says. A listener of the context that
the system refuses to remove (mod.rs:2812) remains when the context is dropped;
`AllOrNoListeners` and `NothingAfterDrop` say that there are no others. The time stamp
flags of both callbacks are tested with `|` where `&` is meant (mod.rs:524, 814), so
that the latency is computed whatever they say; here it is any of `Latencies`.

## 7. Plan

Done: all modules of section 2 with their runs, and the proofs of section 5.

Left: the tasks of the streams in VoiceProcessing as works of one queue each, with the
singleton queue as their common target (`NobodysTurn` is what QueueContract says of
`performing`); the pool's delayed clearing task as a closure of `run_after`; and the
builds of AggregateDevice as the part of `setup` that CoreStreamData takes in one
step (`existing` against the aggregate device a stream holds).
