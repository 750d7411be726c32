------------------------ MODULE AudioUnitStreamProof ------------------------
(* Types, the safety of releasing a stream, and what its flags promise: units *)
(* run only while they should, one reinit at a time, one end per start; for   *)
(* any units, notifications, failures and bounds.                             *)
EXTENDS AudioUnitStream, FiniteSetTheorems, TLAPS

(* failed tells close of a failed reinit task from that of a dead device, and  *)
(* TaskDone of a failed start from that of one that succeeded.                 *)
FailedOK ==
    failed => \/ task = "reinit"
              \/ task = "start" /\ wpc \in {"restoreStopped", "restoreDraining", "finish"}

(* The tasks a client waits for, and where it does. *)
SyncTasks == {"start", "stopSync", "final"}

WaitsIn(t) ==
    CASE t = "start" -> "inStart"
      [] t = "stopSync" -> "inStop"
      [] t = "final" -> "inDestroy"

(* A task the client waits for finds the client waiting for it, and there is  *)
(* one at most: the client cannot hand over another one before it is done.    *)
ClientWaits ==
    /\ task \in SyncTasks => cpc = WaitsIn(task)
    /\ \A i \in DOMAIN tasks :
          tasks[i] \in SyncTasks => cpc = WaitsIn(tasks[i]) /\ task \notin SyncTasks
    /\ \A i, j \in DOMAIN tasks :
          tasks[i] \in SyncTasks /\ tasks[j] \in SyncTasks => i = j

(* Nothing can start a callback or a notification any more. *)
Down == ~Opened /\ ~listening /\ notices = <<>>

(* From close on the stream is down, and from there on to its release the     *)
(* callbacks that were in flight have ended.                                  *)
ClosedIsDown ==
    /\ wpc = "waitClosed" => Down
    /\ wpc = "release" \/ freed => Down /\ CallbacksDone /\ lpc = "idle"

(* The final task is the last one, and then so is the call of destroy. *)
FinalIsLast ==
    freed => \/ task = "final" /\ wpc = "finish" /\ cpc = "inDestroy"
             \/ task = "none" /\ cpc = "gone"

IInv == TypeOK /\ FailedOK /\ ClientWaits /\ ClosedIsDown /\ FinalIsLast

(* Where the worker is in each task, spelled out: the provers do not split    *)
(* the CASE of Steps well.                                                    *)
LEMMA StepsOfTasks ==
    /\ Steps("stop") = {"finish", "stopUnits", "waitCallbacks"}
    /\ Steps("stopSync") = {"finish", "stopUnits", "waitCallbacks"}
    /\ Steps("dead") = {"finish", "stopUnits", "waitCallbacks", "close",
                        "waitClosed", "notifyError", "clearSwitching"}
    /\ Steps("reinit") = {"finish", "checkStopped", "stopUnits", "waitCallbacks",
                          "recheckStopped", "close", "waitClosed", "lookup",
                          "setup", "restart", "notifyError", "clearSwitching",
                          "clearPending"}
    /\ Steps("start") = {"finish", "startUnits", "checkStopped", "stopUnits",
                         "waitCallbacks", "recheckStopped", "close", "waitClosed",
                         "lookup", "setup", "restart", "clearDelayed",
                         "restoreStopped", "restoreDraining"}
    /\ Steps("final") = {"finish", "uninstall", "swapStopped", "stopUnits",
                         "waitCallbacks", "close", "waitClosed", "release"}
BY DEF Steps

(* The worker is at a step of its task. *)
WorkerOK ==
    \/ task = "none" /\ wpc = "idle"
    \/ task \in Tasks /\ wpc \in Steps(task)

LEMMA WorkerStep ==
    ASSUME WorkerOK, FailedOK, tasks \in Seq(Tasks), Worker
    PROVE  WorkerOK' /\ FailedOK'
<1> USE StepsOfTasks DEF WorkerOK, FailedOK, Tasks, Goto
<1>1. CASE BeginTask
  BY <1>1 DEF BeginTask, FirstStep
<1>2. CASE TaskDone
  BY <1>2 DEF TaskDone
<1>3. CASE StopUnits
  BY <1>3 DEF StopUnits
<1>4. CASE UnitsStopped
  BY <1>4 DEF UnitsStopped
<1>5. CASE StartUnits
  BY <1>5 DEF StartUnits
<1>6. CASE RestoreStopped
  BY <1>6 DEF RestoreStopped
<1>7. CASE RestoreDraining
  BY <1>7 DEF RestoreDraining
<1>8. CASE CheckStopped
  BY <1>8 DEF CheckStopped
<1>9. CASE RecheckStopped
  BY <1>9 DEF RecheckStopped, ReinitOk
<1>10. CASE Close
  BY <1>10 DEF Close
<1>11. CASE Closed
  BY <1>11 DEF Closed
<1>12. CASE LookUpDevice
  BY <1>12 DEF LookUpDevice, ReinitErr
<1>13. CASE Setup
  BY <1>13 DEF Setup, ReinitErr
<1>14. CASE Restart
  BY <1>14 DEF Restart, ReinitOk, ReinitErr
<1>15. CASE ClearDelayed
  BY <1>15 DEF ClearDelayed
<1>16. CASE NotifyError
  BY <1>16 DEF NotifyError
<1>17. CASE ClearSwitching
  BY <1>17 DEF ClearSwitching
<1>18. CASE ClearPending
  BY <1>18 DEF ClearPending
<1>19. CASE Uninstall
  BY <1>19 DEF Uninstall
<1>20. CASE DestroySwap
  BY <1>20 DEF DestroySwap
<1>21. CASE Release
  BY <1>21 DEF Release
<1> QED
  BY <1>1, <1>2, <1>3, <1>4, <1>5, <1>6, <1>7, <1>8, <1>9, <1>10, <1>11,
     <1>12, <1>13, <1>14, <1>15, <1>16, <1>17, <1>18, <1>19, <1>20, <1>21 DEF Worker

LEMMA TypeInit == Init => TypeOK
<1> SUFFICES ASSUME Init PROVE TypeOK
  OBVIOUS
<1>1. tasks \in Seq(Tasks) /\ notices \in Seq({"change", "dead"})
  BY DEF Init
<1>2. was \in [stopped : BOOLEAN, draining : BOOLEAN]
  BY DEF Init
<1>3. unit \in [Units -> {"null", "idle", "running"}] /\ cb \in [Units -> CallbackPCs]
  BY DEF Init, CallbackPCs
<1> QED
  BY <1>1, <1>2, <1>3 DEF Init, TypeOK, ClientPCs, ListenerPCs

LEMMA TypeStep == TypeOK /\ FailedOK /\ [Next]_vars => TypeOK' /\ FailedOK'
<1> SUFFICES ASSUME TypeOK, FailedOK, [Next]_vars PROVE TypeOK' /\ FailedOK'
  OBVIOUS
<1> USE DEF TypeOK, FailedOK, vars, flags, device, worker, client, hal, history
<1>1. CASE ClientStart
  BY <1>1 DEF ClientStart, ClientPCs
<1>2. CASE StoreStopped
  <2>1. TypeOK'
    BY <1>2 DEF StoreStopped, ClientPCs
  <2>2. FailedOK'
    BY <1>2 DEF StoreStopped, ClientPCs
  <2> QED
    BY <2>1, <2>2
<1>3. CASE StoreDraining
  <2>1. TypeOK'
    BY <1>3 DEF StoreDraining, ClientPCs
  <2>2. FailedOK'
    BY <1>3 DEF StoreDraining, ClientPCs
  <2> QED
    BY <2>1, <2>2
<1>4. CASE ClientStop
  BY <1>4 DEF ClientStop, ClientPCs
<1>5. CASE ClientSubmit
  <2>1. \E t \in Tasks : tasks' = Append(tasks, t)
    BY <1>5 DEF ClientSubmit, Submit, Tasks
  <2>2. tasks' \in Seq(Tasks)
    BY <2>1
  <2> QED
    BY <1>5, <2>2 DEF ClientSubmit, ClientPCs
<1>6. CASE ClientDestroy
  BY <1>6 DEF ClientDestroy, ClientPCs, Submit, Tasks
<1>7. CASE ClientNotify
  BY <1>7 DEF ClientNotify, ClientPCs
<1>8. ASSUME NEW u \in Units, CallbackBegin(u) PROVE TypeOK' /\ FailedOK'
  BY <1>8 DEF CallbackBegin, CallbackPCs
<1>9. CASE RenderOutput
  <2>1. draining' \in BOOLEAN
    BY <1>9 DEF RenderOutput
  <2>2. cb' \in [Units -> CallbackPCs]
    BY <1>9 DEF RenderOutput, CallbackPCs
  <2> QED
    BY <1>9, <2>1, <2>2 DEF RenderOutput
<1>10. CASE RenderInputOnly
  <2>1. draining' \in BOOLEAN
    BY <1>10 DEF RenderInputOnly
  <2>2. cb' \in [Units -> CallbackPCs]
    BY <1>10 DEF RenderInputOnly, CallbackPCs
  <2> QED
    BY <1>10, <2>1, <2>2 DEF RenderInputOnly
<1>11. CASE RenderInputDuplex
  BY <1>11 DEF RenderInputDuplex, CallbackPCs
<1>12. ASSUME NEW u \in Units, CheckDrain(u) PROVE TypeOK' /\ FailedOK'
  BY <1>12 DEF CheckDrain, CallbackPCs
<1>13. ASSUME NEW u \in Units, CallbackSwap(u) PROVE TypeOK' /\ FailedOK'
  BY <1>13 DEF CallbackSwap, CallbackPCs
<1>14. ASSUME NEW u \in Units, CallbackNotify(u) PROVE TypeOK' /\ FailedOK'
  BY <1>14 DEF CallbackNotify, CallbackPCs
<1>15. ASSUME NEW u \in Units, CallbackSubmit(u) PROVE TypeOK' /\ FailedOK'
  <2>1. \E t \in Tasks : tasks' = Append(tasks, t)
    BY <1>15 DEF CallbackSubmit, Submit, Tasks
  <2>2. tasks' \in Seq(Tasks)
    BY <2>1
  <2> QED
    BY <1>15, <2>2 DEF CallbackSubmit, CallbackPCs
<1>16. ASSUME NEW u \in Units, CallbackSwapPending(u) PROVE TypeOK' /\ FailedOK'
  BY <1>16 DEF CallbackSwapPending, CallbackPCs
<1>17. ASSUME NEW kind \in EventKinds, DeviceEvent(kind) PROVE TypeOK' /\ FailedOK'
  BY <1>17, KindsAssumption DEF DeviceEvent
<1>18. CASE ListenerBegin
  BY <1>18 DEF ListenerBegin, ListenerPCs
<1>19. CASE ListenerDead
  BY <1>19 DEF ListenerDead, ListenerPCs
<1>20. CASE ListenerSwapPending
  BY <1>20 DEF ListenerSwapPending, ListenerPCs
<1>21. CASE ListenerSubmit
  <2>1. \E t \in Tasks : tasks' = Append(tasks, t)
    BY <1>21 DEF ListenerSubmit, Submit, Tasks
  <2>2. tasks' \in Seq(Tasks)
    BY <2>1
  <2> QED
    BY <1>21, <2>2 DEF ListenerSubmit, ListenerPCs
<1>22. Worker => WorkerOK' /\ FailedOK'
  BY WorkerStep DEF WorkerOK
<1>23. CASE BeginTask
  <2>1. tasks' \in Seq(Tasks)
    BY <1>23 DEF BeginTask
  <2> QED
    BY <1>23, <1>22, <2>1 DEF BeginTask, Worker, WorkerOK
<1>24. CASE TaskDone
  <2>1. cpc' \in ClientPCs
    BY <1>24 DEF TaskDone, ClientPCs
  <2> QED
    BY <1>24, <1>22, <2>1 DEF TaskDone, Worker, WorkerOK
<1>25. CASE StopUnits
  <2>1. unit' \in [Units -> {"null", "idle", "running"}]
    BY <1>25 DEF StopUnits
  <2> QED
    BY <1>25, <1>22, <2>1 DEF StopUnits, Worker, WorkerOK
<1>26. CASE UnitsStopped
  <2>0. WorkerOK'
    BY <1>26, <1>22 DEF Worker
  <2>1. TypeOK'
    BY <1>26, <2>0 DEF UnitsStopped, WorkerOK
  <2>2. FailedOK'
    BY <1>26, <1>22 DEF UnitsStopped, Worker, WorkerOK
  <2> QED
    BY <2>1, <2>2
<1>27. CASE StartUnits
  <2>1. unit' \in [Units -> {"null", "idle", "running"}]
    BY <1>27 DEF StartUnits, StartedUnits, PartlyStarted
  <2> QED
    BY <1>27, <1>22, <2>1 DEF StartUnits, Worker, WorkerOK
<1>28. CASE RestoreStopped
  <2>1. was.stopped \in BOOLEAN
    BY <1>28 DEF RestoreStopped
  <2> QED
    BY <1>28, <1>22, <2>1 DEF RestoreStopped, Worker, WorkerOK
<1>29. CASE RestoreDraining
  <2>1. was.draining \in BOOLEAN
    BY <1>29 DEF RestoreDraining
  <2> QED
    BY <1>29, <1>22, <2>1 DEF RestoreDraining, Worker, WorkerOK
<1>30. CASE CheckStopped
  BY <1>30, <1>22 DEF CheckStopped, Worker, WorkerOK
<1>31. CASE RecheckStopped
  BY <1>31, <1>22 DEF RecheckStopped, Worker, WorkerOK
<1>32. CASE Close
  <2>1. unit' \in [Units -> {"null", "idle", "running"}] /\ notices' \in Seq({"change", "dead"})
    BY <1>32 DEF Close
  <2> QED
    BY <1>32, <1>22, <2>1 DEF Close, Worker, WorkerOK
<1>33. CASE Closed
  BY <1>33, <1>22 DEF Closed, Worker, WorkerOK
<1>34. CASE LookUpDevice
  <2>1. failed' \in BOOLEAN /\ stale' \in BOOLEAN
    BY <1>34 DEF LookUpDevice
  <2> QED
    BY <1>34, <1>22, <2>1 DEF LookUpDevice, Worker, WorkerOK
<1>35. CASE Setup
  <2>1. unit' \in [Units -> {"null", "idle", "running"}] /\ listening' \in BOOLEAN
    BY <1>35 DEF Setup
  <2> QED
    BY <1>35, <1>22, <2>1 DEF Setup, Worker, WorkerOK
<1>36. CASE Restart
  <2>1. unit' \in [Units -> {"null", "idle", "running"}]
    BY <1>36 DEF Restart, StartedUnits, PartlyStarted
  <2>0. WorkerOK'
    BY <1>36, <1>22 DEF Worker
  <2>2. TypeOK'
    BY <1>36, <2>0, <2>1 DEF Restart, WorkerOK
  <2>3. FailedOK'
    BY <1>36, <1>22 DEF Restart, Worker, WorkerOK
  <2> QED
    BY <2>2, <2>3
<1>37. CASE ClearDelayed
  BY <1>37, <1>22 DEF ClearDelayed, Worker, WorkerOK
<1>38. CASE NotifyError
  BY <1>38, <1>22 DEF NotifyError, Worker, WorkerOK
<1>39. CASE ClearSwitching
  BY <1>39, <1>22 DEF ClearSwitching, Worker, WorkerOK
<1>40. CASE ClearPending
  BY <1>40, <1>22 DEF ClearPending, Worker, WorkerOK
<1>41. CASE Uninstall
  <2>1. notices' \in Seq({"change", "dead"})
    BY <1>41 DEF Uninstall
  <2> QED
    BY <1>41, <1>22, <2>1 DEF Uninstall, Worker, WorkerOK
<1>42. CASE DestroySwap
  BY <1>42, <1>22 DEF DestroySwap, Worker, WorkerOK
<1>43. CASE Release
  BY <1>43, <1>22 DEF Release, Worker, WorkerOK
<1>44. CASE UNCHANGED vars
  BY <1>44
<1> QED
  BY <1>1, <1>2, <1>3, <1>4, <1>5, <1>6, <1>7, <1>8, <1>9, <1>10, <1>11,
     <1>12, <1>13, <1>14, <1>15, <1>16, <1>17, <1>18, <1>19, <1>20, <1>21,
     <1>23, <1>24, <1>25, <1>26, <1>27, <1>28, <1>29, <1>30, <1>31, <1>32,
     <1>33, <1>34, <1>35, <1>36, <1>37, <1>38, <1>39, <1>40, <1>41, <1>42,
     <1>43, <1>44
     DEF Next, Client, CallbackContinue, Listener, Worker

-----------------------------------------------------------------------------
(* While the client waits for nothing there is no task it could wait for. *)
LEMMA NobodyWaits ==
    ASSUME ClientWaits, cpc \notin {"inStart", "inStop", "inDestroy"}
    PROVE  task \notin SyncTasks /\ \A i \in DOMAIN tasks : tasks[i] \notin SyncTasks
BY DEF ClientWaits, SyncTasks, WaitsIn

(* A callback or the notification thread hands over a task. *)
LEMMA SubmitOther ==
    ASSUME TypeOK, ClientWaits, NEW t \in Tasks \ SyncTasks, Submit(t),
           UNCHANGED <<task, cpc>>
    PROVE  ClientWaits'
<1>1. /\ tasks \in Seq(Tasks) /\ Len(tasks) \in Nat
      /\ DOMAIN tasks = 1..Len(tasks) /\ DOMAIN tasks' = 1..(Len(tasks) + 1)
      /\ tasks'[Len(tasks) + 1] = t
      /\ \A i \in DOMAIN tasks : tasks'[i] = tasks[i]
  BY DEF TypeOK, Submit
<1>2. \A i \in DOMAIN tasks' : tasks'[i] \in SyncTasks =>
          i \in DOMAIN tasks /\ tasks'[i] = tasks[i]
  BY <1>1
<1> QED
  BY <1>2 DEF ClientWaits

(* The client hands over a task and waits for it. *)
LEMMA SubmitSync ==
    ASSUME TypeOK, ClientWaits, NEW t \in SyncTasks, Submit(t), UNCHANGED task,
           cpc \notin {"inStart", "inStop", "inDestroy"}, cpc' = WaitsIn(t)
    PROVE  ClientWaits'
<1>1. /\ tasks \in Seq(Tasks) /\ Len(tasks) \in Nat
      /\ DOMAIN tasks = 1..Len(tasks) /\ DOMAIN tasks' = 1..(Len(tasks) + 1)
      /\ tasks'[Len(tasks) + 1] = t
      /\ \A i \in DOMAIN tasks : tasks'[i] = tasks[i]
  BY DEF TypeOK, Submit, SyncTasks, Tasks
<1>2. task \notin SyncTasks /\ \A i \in DOMAIN tasks : tasks[i] \notin SyncTasks
  BY NobodyWaits
<1>3. \A i \in DOMAIN tasks' : tasks'[i] \in SyncTasks =>
          i = Len(tasks) + 1 /\ tasks'[i] = t
  BY <1>1, <1>2
<1> QED
  BY <1>2, <1>3 DEF ClientWaits

LEMMA ClientWaitsStep == TypeOK /\ ClientWaits /\ [Next]_vars => ClientWaits'
<1> SUFFICES ASSUME TypeOK, ClientWaits, [Next]_vars PROVE ClientWaits'
  OBVIOUS
<1> USE DEF flags, device, worker, client, hal, history
<1>1. UNCHANGED <<task, tasks, cpc>> => ClientWaits'
  BY DEF ClientWaits
<1>2. UNCHANGED <<task, tasks>> /\ cpc \notin {"inStart", "inStop", "inDestroy"}
        => ClientWaits'
  BY NobodyWaits DEF ClientWaits
<1>3. CASE Client
  <2>1. CASE ClientSubmit
    <3>1. CASE cpc = "submitStart"
      BY <2>1, <3>1, SubmitSync DEF ClientSubmit, SyncTasks, WaitsIn
    <3>2. CASE cpc = "submitStop"
      BY <2>1, <3>2, SubmitSync DEF ClientSubmit, SyncTasks, WaitsIn
    <3> QED
      BY <2>1, <3>1, <3>2 DEF ClientSubmit
  <2>2. CASE ClientDestroy
    BY <2>2, SubmitSync DEF ClientDestroy, SyncTasks, WaitsIn
  <2>3. CASE ClientStart \/ StoreStopped \/ StoreDraining \/ ClientStop \/ ClientNotify
    BY <1>2, <2>3 DEF ClientStart, StoreStopped, StoreDraining, ClientStop, ClientNotify
  <2> QED
    BY <1>3, <2>1, <2>2, <2>3 DEF Client
<1>4. ASSUME NEW u \in Units, CallbackBegin(u) \/ CallbackContinue(u) PROVE ClientWaits'
  <2>1. CASE CallbackSubmit(u)
    BY <2>1, SubmitOther DEF CallbackSubmit, SyncTasks, Tasks
  <2>2. CASE CallbackBegin(u) \/ CheckDrain(u) \/ CallbackSwap(u)
    BY <1>1, <2>2 DEF CallbackBegin, CheckDrain, CallbackSwap
  <2>3. CASE CallbackNotify(u) \/ CallbackSwapPending(u)
    BY <1>1, <2>3 DEF CallbackNotify, CallbackSwapPending
  <2>4. CASE RenderOutput \/ RenderInputOnly \/ RenderInputDuplex
    BY <1>1, <2>4 DEF RenderOutput, RenderInputOnly, RenderInputDuplex
  <2> QED
    BY <1>4, <2>1, <2>2, <2>3, <2>4 DEF CallbackContinue
<1>5. ASSUME NEW kind \in EventKinds, DeviceEvent(kind) PROVE ClientWaits'
  BY <1>1, <1>5 DEF DeviceEvent
<1>6. CASE Listener
  <2>1. CASE ListenerSubmit
    BY <2>1, SubmitOther DEF ListenerSubmit, SyncTasks, Tasks
  <2>2. CASE ListenerBegin \/ ListenerDead \/ ListenerSwapPending
    BY <1>1, <2>2 DEF ListenerBegin, ListenerDead, ListenerSwapPending
  <2> QED
    BY <1>6, <2>1, <2>2 DEF Listener
<1>7. CASE Worker
  <2>1. CASE BeginTask
    <3>1. /\ tasks \in Seq(Tasks) /\ Len(tasks) \in Nat /\ Len(tasks) # 0
          /\ DOMAIN tasks = 1..Len(tasks) /\ DOMAIN tasks' = 1..(Len(tasks) - 1)
          /\ Head(tasks) = tasks[1]
          /\ \A i \in DOMAIN tasks' : tasks'[i] = tasks[i + 1]
      BY <2>1 DEF BeginTask, TypeOK
    <3>2. task \notin SyncTasks /\ cpc' = cpc /\ task' \in {task, tasks[1]}
      BY <2>1, <3>1 DEF BeginTask, TypeOK, Steps, Tasks, SyncTasks
    <3>3. \A i \in DOMAIN tasks' : i + 1 \in DOMAIN tasks /\ i + 1 # 1
      BY <3>1
    <3>4. 1 \in DOMAIN tasks
      BY <3>1
    <3>5. \A i, j \in DOMAIN tasks' : i + 1 = j + 1 => i = j
      BY <3>1
    <3> QED
      BY <3>1, <3>2, <3>3, <3>4, <3>5 DEF ClientWaits
  <2>2. CASE TaskDone
    <3>1. task' = "none" /\ tasks' = tasks
      BY <2>2 DEF TaskDone
    <3>2. CASE task \in SyncTasks
      BY <3>1, <3>2 DEF ClientWaits, SyncTasks
    <3>3. CASE task \notin SyncTasks
      BY <2>2, <3>1, <3>3 DEF TaskDone, ClientWaits, SyncTasks
    <3> QED
      BY <3>2, <3>3
  <2>3. CASE StopUnits \/ UnitsStopped \/ StartUnits \/ RestoreStopped \/ RestoreDraining
    BY <1>1, <2>3 DEF StopUnits, UnitsStopped, StartUnits, RestoreStopped, RestoreDraining
  <2>4. CASE CheckStopped \/ RecheckStopped \/ Close \/ Closed \/ LookUpDevice
    BY <1>1, <2>4 DEF CheckStopped, RecheckStopped, Close, Closed, LookUpDevice
  <2>5. CASE Setup \/ Restart \/ ClearDelayed \/ NotifyError
    BY <1>1, <2>5 DEF Setup, Restart, ClearDelayed, NotifyError
  <2>6. CASE ClearSwitching \/ ClearPending \/ Uninstall \/ DestroySwap \/ Release
    BY <1>1, <2>6 DEF ClearSwitching, ClearPending, Uninstall, DestroySwap, Release
  <2> QED
    BY <1>7, <2>1, <2>2, <2>3, <2>4, <2>5, <2>6 DEF Worker
<1>8. CASE UNCHANGED vars
  BY <1>1, <1>8 DEF vars
<1> QED
  BY <1>3, <1>4, <1>5, <1>6, <1>7, <1>8 DEF Next

-----------------------------------------------------------------------------
(* After the release the worker only ends the final task and skips the rest. *)
LEMMA FreedWorker ==
    ASSUME TypeOK, FinalIsLast, freed, Worker
    PROVE  BeginTask \/ TaskDone
BY DEF FinalIsLast, TypeOK, Steps, Tasks, Worker, Goto, StopUnits, UnitsStopped,
       StartUnits, RestoreStopped, RestoreDraining, CheckStopped, RecheckStopped,
       Close, Closed, LookUpDevice, Setup, Restart, ClearDelayed, NotifyError,
       ClearSwitching, ClearPending, Uninstall, DestroySwap, Release

LEMMA ClosedIsDownStep ==
    TypeOK /\ FailedOK /\ FinalIsLast /\ ClosedIsDown /\ [Next]_vars => ClosedIsDown'
<1> SUFFICES ASSUME TypeOK, FailedOK, FinalIsLast, ClosedIsDown, [Next]_vars
             PROVE  ClosedIsDown'
  OBVIOUS
<1> USE DEF flags, device, worker, client, hal, history
<1>1. UNCHANGED <<wpc, freed, device, cb, hal>> => ClosedIsDown'
  BY DEF ClosedIsDown, Down, Opened, CallbacksDone
<1>2. CASE Client
  BY <1>1, <1>2 DEF Client, ClientStart, StoreStopped, StoreDraining, ClientStop,
                    ClientSubmit, ClientDestroy, ClientNotify
<1>3. ASSUME NEW u \in Units, CallbackBegin(u) PROVE ClosedIsDown'
  <2>1. wpc \notin {"waitClosed", "release"} /\ ~freed
    BY <1>3 DEF CallbackBegin, ClosedIsDown, Down, Opened
  <2> QED
    BY <1>3, <2>1 DEF CallbackBegin, ClosedIsDown
<1>4. ASSUME NEW u \in Units, CallbackContinue(u) PROVE ClosedIsDown'
  <2>1. cb[u] # "idle" /\ UNCHANGED <<wpc, freed, device, hal>>
    BY <1>4 DEF CallbackContinue, RenderOutput, RenderInputOnly, RenderInputDuplex,
                CheckDrain, CallbackSwap, CallbackNotify, CallbackSubmit,
                CallbackSwapPending
  <2>2. wpc # "release" /\ ~freed
    BY <2>1 DEF ClosedIsDown, CallbacksDone
  <2> QED
    BY <2>1, <2>2 DEF ClosedIsDown, Down, Opened
<1>5. ASSUME NEW kind \in EventKinds, DeviceEvent(kind) PROVE ClosedIsDown'
  BY <1>5 DEF DeviceEvent, ClosedIsDown, Down, Opened, CallbacksDone
<1>6. CASE Listener
  <2>1. CASE ListenerBegin
    <3>1. wpc \notin {"waitClosed", "release"} /\ ~freed
      BY <2>1 DEF ListenerBegin, ClosedIsDown, Down
    <3> QED
      BY <2>1, <3>1 DEF ListenerBegin, ClosedIsDown
  <2>2. CASE ListenerDead \/ ListenerSwapPending \/ ListenerSubmit
    <3>1. lpc # "idle" /\ UNCHANGED <<wpc, freed, device, cb, notices>>
      BY <2>2 DEF ListenerDead, ListenerSwapPending, ListenerSubmit
    <3>2. wpc # "release" /\ ~freed
      BY <3>1 DEF ClosedIsDown
    <3> QED
      BY <3>1, <3>2 DEF ClosedIsDown, Down, Opened
  <2> QED
    BY <1>6, <2>1, <2>2 DEF Listener
<1>7. CASE Worker
  <2>1. CASE freed
    <3>1. UNCHANGED <<freed, device, cb, hal>>
      BY <1>7, <2>1, FreedWorker DEF BeginTask, TaskDone
    <3> QED
      BY <2>1, <3>1 DEF ClosedIsDown, Down, Opened, CallbacksDone
  <2>2. CASE ~freed
    <3>1. CASE Close
      BY <2>2, <3>1 DEF Close, Goto, ClosedIsDown, Down, Opened
    <3>2. CASE Closed
      BY <2>2, <3>2 DEF Closed, Goto, ClosedIsDown, Down, Opened, CallbacksDone
    <3>3. CASE Release
      BY <2>2, <3>3 DEF Release, Goto, ClosedIsDown, Down, Opened, CallbacksDone
    <3>4. CASE ~(Close \/ Closed \/ Release)
      <4>1. freed' = freed
        BY <1>7, <3>4 DEF Worker, BeginTask, TaskDone, StopUnits, UnitsStopped,
             StartUnits, RestoreStopped, RestoreDraining, CheckStopped,
             RecheckStopped, LookUpDevice, Setup, Restart, ClearDelayed,
             NotifyError, ClearSwitching, ClearPending, Uninstall, DestroySwap
      <4>2. CASE BeginTask
        <5>1. Head(tasks) \in Tasks
          BY <4>2 DEF BeginTask, TypeOK
        <5> QED
          BY <2>2, <4>1, <4>2, <5>1 DEF BeginTask, FirstStep, Tasks, ClosedIsDown
      <4>3. CASE UnitsStopped
        BY <2>2, <4>1, <4>3, StepsOfTasks
           DEF UnitsStopped, Goto, ClosedIsDown, TypeOK, Tasks
      <4>4. CASE TaskDone \/ StopUnits \/ StartUnits \/ RestoreStopped \/ RestoreDraining
        BY <2>2, <4>1, <4>4 DEF TaskDone, StopUnits, StartUnits, RestoreStopped,
                                RestoreDraining, Goto, ClosedIsDown
      <4>5. CASE CheckStopped \/ RecheckStopped \/ LookUpDevice \/ Setup \/ Restart
        BY <2>2, <4>1, <4>5 DEF CheckStopped, RecheckStopped, LookUpDevice, Setup,
                                Restart, ReinitOk, ReinitErr, Goto, ClosedIsDown
      <4>6. CASE ClearDelayed \/ NotifyError \/ ClearSwitching \/ ClearPending
        BY <2>2, <4>1, <4>6 DEF ClearDelayed, NotifyError, ClearSwitching,
                                ClearPending, Goto, ClosedIsDown
      <4>7. CASE Uninstall \/ DestroySwap
        BY <2>2, <4>1, <4>7 DEF Uninstall, DestroySwap, Goto, ClosedIsDown
      <4> QED
        BY <1>7, <3>4, <4>2, <4>3, <4>4, <4>5, <4>6, <4>7 DEF Worker
    <3> QED
      BY <3>1, <3>2, <3>3, <3>4
  <2> QED
    BY <2>1, <2>2
<1>8. CASE UNCHANGED vars
  BY <1>1, <1>8 DEF vars
<1> QED
  BY <1>2, <1>3, <1>4, <1>5, <1>6, <1>7, <1>8 DEF Next

LEMMA FinalIsLastStep ==
    TypeOK /\ ClientWaits /\ FinalIsLast /\ [Next]_vars => FinalIsLast'
<1> SUFFICES ASSUME TypeOK, ClientWaits, FinalIsLast, [Next]_vars PROVE FinalIsLast'
  OBVIOUS
<1> USE DEF flags, device, worker, client, hal, history
<1>1. UNCHANGED <<task, wpc, cpc, freed>> => FinalIsLast'
  BY DEF FinalIsLast
<1>2. CASE Client
  BY <1>2 DEF FinalIsLast, Client, ClientStart, StoreStopped, StoreDraining,
              ClientStop, ClientSubmit, ClientDestroy, ClientNotify
<1>3. ASSUME NEW u \in Units, CallbackBegin(u) \/ CallbackContinue(u) PROVE FinalIsLast'
  BY <1>1, <1>3 DEF CallbackBegin, CallbackContinue, RenderOutput, RenderInputOnly,
                    RenderInputDuplex, CheckDrain, CallbackSwap, CallbackNotify,
                    CallbackSubmit, CallbackSwapPending
<1>4. ASSUME NEW kind \in EventKinds, DeviceEvent(kind) PROVE FinalIsLast'
  BY <1>1, <1>4 DEF DeviceEvent
<1>5. CASE Listener
  BY <1>1, <1>5 DEF Listener, ListenerBegin, ListenerDead, ListenerSwapPending,
                    ListenerSubmit
<1>6. CASE Worker
  <2>1. CASE freed
    BY <1>6, <2>1, FreedWorker DEF BeginTask, TaskDone, Goto, FinalIsLast, TypeOK
  <2>2. CASE ~freed /\ Release
    <3>1. task = "final"
      BY <2>2, StepsOfTasks DEF Release, Goto, TypeOK, Tasks
    <3>2. cpc = "inDestroy"
      BY <3>1 DEF ClientWaits, SyncTasks, WaitsIn
    <3> QED
      BY <2>2, <3>1, <3>2 DEF Release, Goto, FinalIsLast
  <2>3. CASE ~freed /\ ~Release
    <3>1. ~freed'
      BY <1>6, <2>3 DEF Worker, BeginTask, TaskDone, StopUnits, UnitsStopped,
           StartUnits, RestoreStopped, RestoreDraining, CheckStopped,
           RecheckStopped, Close, Closed, LookUpDevice, Setup, Restart,
           ClearDelayed, NotifyError, ClearSwitching, ClearPending, Uninstall,
           DestroySwap
    <3> QED
      BY <3>1 DEF FinalIsLast
  <2> QED
    BY <2>1, <2>2, <2>3
<1>7. CASE UNCHANGED vars
  BY <1>1, <1>7 DEF vars
<1> QED
  BY <1>2, <1>3, <1>4, <1>5, <1>6, <1>7 DEF Next

LEMMA Invariance == Spec => []IInv
<1>1. Init => IInv
  BY TypeInit DEF Init, IInv, FailedOK, ClientWaits, ClosedIsDown, FinalIsLast, SyncTasks
<1>2. IInv /\ [Next]_vars => IInv'
  BY TypeStep, ClientWaitsStep, ClosedIsDownStep, FinalIsLastStep DEF IInv
<1> QED
  BY <1>1, <1>2, PTL DEF Spec

(* The flags, the units and the places of all threads have their types: in     *)
(* particular the queue is always at a step of the task it executes, and a     *)
(* start that cannot reinitialize the stream never closes it.                  *)
THEOREM TypeCorrect == Spec => []TypeOK
BY Invariance, PTL DEF IInv

(* AudioUnitStream::drop releases the memory of a stream that no audio unit,   *)
(* listener, callback or notification refers to any more.                      *)
THEOREM SafeRelease == Spec => []NothingAfterRelease
<1>1. IInv => NothingAfterRelease
  BY DEF IInv, ClosedIsDown, Down, NothingAfterRelease
<1> QED
  BY <1>1, Invariance, PTL

(* And no closure left in its queue, nor the client, writes to it later. *)
THEOREM UntouchedAfterRelease == Spec => ReleasedStaysUntouched
<1>1. ASSUME IInv, [Next]_vars, freed PROVE UNCHANGED <<flags, device>>
  <2> USE <1>1 DEF IInv, flags, device, worker, client, hal, history
  <2>1. /\ CallbacksDone /\ lpc = "idle" /\ ~Opened /\ notices = <<>>
        /\ cpc \in {"inDestroy", "gone"}
    BY DEF ClosedIsDown, Down, FinalIsLast
  <2>2. CASE Client
    BY <2>1, <2>2 DEF Client, ClientStart, StoreStopped, StoreDraining, ClientStop,
                      ClientSubmit, ClientDestroy, ClientNotify
  <2>3. ASSUME NEW u \in Units, CallbackBegin(u) PROVE FALSE
    BY <2>1, <2>3 DEF CallbackBegin, Opened
  <2>4. ASSUME NEW u \in Units, CallbackContinue(u) PROVE FALSE
    BY <2>1, <2>4 DEF CallbackContinue, CallbacksDone, RenderOutput,
         RenderInputOnly, RenderInputDuplex, CheckDrain, CallbackSwap,
         CallbackNotify, CallbackSubmit, CallbackSwapPending
  <2>5. ASSUME NEW kind \in EventKinds, DeviceEvent(kind) PROVE FALSE
    BY <2>5 DEF DeviceEvent
  <2>6. CASE Listener
    BY <2>1, <2>6 DEF Listener, ListenerBegin, ListenerDead, ListenerSwapPending,
                      ListenerSubmit
  <2>7. CASE Worker
    BY <2>7, FreedWorker DEF BeginTask, TaskDone
  <2>8. CASE UNCHANGED vars
    BY <2>8 DEF vars
  <2> QED
    BY <2>2, <2>3, <2>4, <2>5, <2>6, <2>7, <2>8 DEF Next
<1> QED
  BY <1>1, Invariance, PTL DEF Spec, ReleasedStaysUntouched

-----------------------------------------------------------------------------
(* Whoever sets stopped ends the stream: it has the units stopped, by a task   *)
(* it is about to hand over, that is in the queue, or that is about to stop    *)
(* them.                                                                       *)
EndTasks == {"stop", "stopSync", "dead"}

Ender ==
    \/ \E u \in Units : cb[u] \in {"notifyDrained", "notifyError", "submitStop"}
    \/ lpc = "submitDead"
    \/ \E i \in DOMAIN tasks : tasks[i] \in EndTasks
    \/ cpc = "submitStop"

OrphansAreEnded == stopped /\ Running => leftRunning \/ Ender \/ wpc = "stopUnits"

(* What a task handed over changes in the queue. *)
LEMMA Submitted ==
    ASSUME TypeOK, NEW t \in Tasks, Submit(t)
    PROVE  /\ Len(tasks) \in Nat /\ DOMAIN tasks = 1..Len(tasks)
           /\ DOMAIN tasks' = 1..(Len(tasks) + 1)
           /\ tasks'[Len(tasks) + 1] = t
           /\ \A i \in DOMAIN tasks : i \in DOMAIN tasks' /\ tasks'[i] = tasks[i]
           /\ \A i \in DOMAIN tasks' : i \in DOMAIN tasks \/ i = Len(tasks) + 1
BY DEF TypeOK, Submit

(* And what the task that is taken from it does. *)
LEMMA Taken ==
    ASSUME TypeOK, BeginTask
    PROVE  /\ Len(tasks) \in Nat /\ 1 \in DOMAIN tasks /\ Head(tasks) = tasks[1]
           /\ DOMAIN tasks = 1..Len(tasks) /\ DOMAIN tasks' = 1..(Len(tasks) - 1)
           /\ \A i \in DOMAIN tasks' : i + 1 \in DOMAIN tasks /\ tasks'[i] = tasks[i + 1]
           /\ \A i \in DOMAIN tasks :
                 i # 1 => i - 1 \in DOMAIN tasks' /\ tasks'[i - 1] = tasks[i]
           /\ tasks[1] \in Tasks
<1>1. tasks \in Seq(Tasks) /\ tasks # <<>> /\ tasks' = Tail(tasks)
  BY DEF TypeOK, BeginTask
<1>2. Len(tasks) \in Nat /\ Len(tasks) # 0 /\ DOMAIN tasks = 1..Len(tasks)
  BY <1>1
<1>3. Len(tasks') = Len(tasks) - 1 /\ DOMAIN tasks' = 1..(Len(tasks) - 1)
  BY <1>1, <1>2
<1>4. \A i \in DOMAIN tasks' : tasks'[i] = tasks[i + 1]
  BY <1>1, <1>3
<1>5. 1 \in DOMAIN tasks /\ Head(tasks) = tasks[1] /\ tasks[1] \in Tasks
  BY <1>1, <1>2
<1>6. ASSUME NEW i \in DOMAIN tasks, i # 1
      PROVE  i - 1 \in DOMAIN tasks' /\ tasks'[i - 1] = tasks[i]
  <2>1. i - 1 \in DOMAIN tasks' /\ (i - 1) + 1 = i
    BY <1>2, <1>3, <1>6
  <2> QED
    BY <1>4, <2>1
<1>7. \A i \in DOMAIN tasks' : i + 1 \in DOMAIN tasks
  BY <1>2, <1>3
<1>8. \A i \in DOMAIN tasks' : i + 1 \in DOMAIN tasks /\ tasks'[i] = tasks[i + 1]
  BY <1>4, <1>7
<1>9. \A i \in DOMAIN tasks :
         i # 1 => i - 1 \in DOMAIN tasks' /\ tasks'[i - 1] = tasks[i]
  BY <1>6
<1> QED
  BY <1>2, <1>3, <1>5, <1>8, <1>9, Zenon

(* An end goes on as long as nobody does the next step of it. *)
LEMMA EnderStays ==
    ASSUME TypeOK, Ender, UNCHANGED <<cb, lpc, cpc>>,
           \/ UNCHANGED tasks
           \/ \E t \in Tasks : Submit(t)
    PROVE  Ender'
<1>1. CASE UNCHANGED tasks
  BY <1>1 DEF Ender
<1>2. CASE \E t \in Tasks : Submit(t)
  <2>1. \A i \in DOMAIN tasks : i \in DOMAIN tasks' /\ tasks'[i] = tasks[i]
    BY <1>2, Submitted
  <2> QED
    BY <2>1 DEF Ender
<1> QED
  BY <1>1, <1>2

LEMMA OrphansStep ==
    TypeOK /\ ClientWaits /\ ClosedIsDown /\ OrphansAreEnded /\ [Next]_vars
        => OrphansAreEnded'
<1> SUFFICES ASSUME TypeOK, ClientWaits, ClosedIsDown, OrphansAreEnded, [Next]_vars
             PROVE  OrphansAreEnded'
  OBVIOUS
<1> USE DEF flags, device, worker, client, hal, history
<1> DEFINE Held == Ender \/ wpc = "stopUnits"
<1>1. ASSUME UNCHANGED <<unit, leftRunning>>, stopped' => stopped, Held => Held'
      PROVE  OrphansAreEnded'
  BY <1>1 DEF OrphansAreEnded, Running
<1>2. ASSUME ~stopped' \/ ~Running' \/ leftRunning' \/ Ender' PROVE OrphansAreEnded'
  BY <1>2 DEF OrphansAreEnded
<1>3. ASSUME UNCHANGED <<unit, leftRunning, cb, lpc, cpc>>, stopped' => stopped,
             wpc = "stopUnits" => wpc' = "stopUnits",
             UNCHANGED tasks \/ \E t \in Tasks : Submit(t)
      PROVE  OrphansAreEnded'
  BY <1>1, <1>3, EnderStays
<1>4. CASE Client
  <2>1. CASE ClientStart \/ StoreDraining \/ ClientNotify
    <3>1. Held => Held'
      BY <2>1 DEF ClientStart, StoreDraining, ClientNotify, Ender
    <3> QED
      BY <1>1, <2>1, <3>1 DEF ClientStart, StoreDraining, ClientNotify
  <2>2. CASE StoreStopped
    BY <1>2, <2>2 DEF StoreStopped
  <2>3. CASE ClientStop
    <3>1. CASE stopped
      BY <1>3, <2>3, <3>1 DEF ClientStop
    <3>2. CASE ~stopped
      BY <1>2, <2>3, <3>2 DEF ClientStop, Ender
    <3> QED
      BY <3>1, <3>2
  <2>4. CASE ClientSubmit \/ ClientDestroy
    <3>1. PICK t \in Tasks : Submit(t)
      BY <2>4 DEF ClientSubmit, ClientDestroy, Tasks
    <3>2. CASE t = "stopSync"
      <4>1. \E i \in DOMAIN tasks' : tasks'[i] = "stopSync"
        BY <3>1, <3>2, Submitted
      <4> QED
        BY <1>2, <4>1 DEF Ender, EndTasks
    <3>3. CASE t # "stopSync"
      <4>1. cpc # "submitStop"
        BY <2>4, <3>1, <3>3, Submitted DEF ClientSubmit, ClientDestroy, Submit
      <4>2. \A i \in DOMAIN tasks : i \in DOMAIN tasks' /\ tasks'[i] = tasks[i]
        BY <3>1, Submitted
      <4>3. Held => Held'
        BY <2>4, <4>1, <4>2 DEF ClientSubmit, ClientDestroy, Ender
      <4> QED
        BY <1>1, <2>4, <4>3 DEF ClientSubmit, ClientDestroy
    <3> QED
      BY <3>2, <3>3
  <2> QED
    BY <1>4, <2>1, <2>2, <2>3, <2>4 DEF Client
<1>5. ASSUME NEW u \in Units, CallbackBegin(u) \/ CallbackContinue(u)
      PROVE  OrphansAreEnded'
  <2>0. cb \in [Units -> CallbackPCs]
    BY DEF TypeOK
  <2>1. CASE CallbackSwap(u)
    <3>1. CASE stopped
      <4>1. Held => Held'
        BY <2>0, <2>1, <3>1 DEF CallbackSwap, Ender
      <4> QED
        BY <1>1, <2>1, <3>1, <4>1 DEF CallbackSwap
    <3>2. CASE ~stopped
      <4>1. Ender'
        BY <2>0, <2>1, <3>2 DEF CallbackSwap, Ender
      <4> QED
        BY <1>2, <4>1
    <3> QED
      BY <3>1, <3>2
  <2>2. CASE CallbackNotify(u)
    <3>1. Ender'
      BY <2>0, <2>2 DEF CallbackNotify, Ender
    <3> QED
      BY <1>2, <3>1
  <2>3. CASE CallbackSubmit(u)
    <3>1. CASE cb[u] = "submitStop"
      <4>1. Submit("stop") /\ "stop" \in Tasks
        BY <2>3, <3>1 DEF CallbackSubmit, Tasks
      <4>2. \E i \in DOMAIN tasks' : tasks'[i] = "stop"
        BY <4>1, Submitted
      <4> QED
        BY <1>2, <4>2 DEF Ender, EndTasks
    <3>2. CASE cb[u] # "submitStop"
      <4>1. Submit("reinit") /\ "reinit" \in Tasks /\ cb[u] = "submitReinit"
        BY <2>3, <3>2 DEF CallbackSubmit, Tasks
      <4>2. \A i \in DOMAIN tasks : i \in DOMAIN tasks' /\ tasks'[i] = tasks[i]
        BY <4>1, Submitted
      <4>3. Held => Held'
        BY <2>0, <2>3, <4>1, <4>2 DEF CallbackSubmit, Ender
      <4> QED
        BY <1>1, <2>3, <4>3 DEF CallbackSubmit
    <3> QED
      BY <3>1, <3>2
  <2>4. CASE CallbackBegin(u) \/ CheckDrain(u) \/ CallbackSwapPending(u)
    <3>1. Held => Held'
      BY <2>0, <2>4 DEF CallbackBegin, CheckDrain, CallbackSwapPending, Ender
    <3> QED
      BY <1>1, <2>4, <3>1 DEF CallbackBegin, CheckDrain, CallbackSwapPending
  <2>5. CASE u = "output" /\ RenderOutput
    <3>1. Held => Held'
      BY <2>0, <2>5 DEF RenderOutput, Ender
    <3> QED
      BY <1>1, <2>5, <3>1 DEF RenderOutput
  <2>6. CASE u = "input" /\ (RenderInputOnly \/ RenderInputDuplex)
    <3>1. Held => Held'
      BY <2>0, <2>6 DEF RenderInputOnly, RenderInputDuplex, Ender
    <3> QED
      BY <1>1, <2>6, <3>1 DEF RenderInputOnly, RenderInputDuplex
  <2> QED
    BY <1>5, <2>1, <2>2, <2>3, <2>4, <2>5, <2>6 DEF CallbackContinue
<1>6. ASSUME NEW kind \in EventKinds, DeviceEvent(kind) PROVE OrphansAreEnded'
  BY <1>3, <1>6 DEF DeviceEvent
<1>7. CASE Listener
  <2>1. CASE ListenerDead
    <3>1. CASE stopped
      BY <1>1, <2>1, <3>1 DEF ListenerDead, Ender
    <3>2. CASE ~stopped
      BY <1>2, <2>1, <3>2 DEF ListenerDead, Ender
    <3> QED
      BY <3>1, <3>2
  <2>2. CASE ListenerSubmit
    <3>1. CASE lpc = "submitDead"
      <4>1. Submit("dead") /\ "dead" \in Tasks
        BY <2>2, <3>1 DEF ListenerSubmit, Tasks
      <4>2. \E i \in DOMAIN tasks' : tasks'[i] = "dead"
        BY <4>1, Submitted
      <4> QED
        BY <1>2, <4>2 DEF Ender, EndTasks
    <3>2. CASE lpc # "submitDead"
      <4>1. Submit("reinit") /\ "reinit" \in Tasks
        BY <2>2, <3>2 DEF ListenerSubmit, Tasks
      <4>2. \A i \in DOMAIN tasks : i \in DOMAIN tasks' /\ tasks'[i] = tasks[i]
        BY <4>1, Submitted
      <4>3. Held => Held'
        BY <2>2, <3>2, <4>2 DEF ListenerSubmit, Ender
      <4> QED
        BY <1>1, <2>2, <4>3 DEF ListenerSubmit
    <3> QED
      BY <3>1, <3>2
  <2>3. CASE ListenerBegin \/ ListenerSwapPending
    <3>1. Held => Held'
      BY <2>3 DEF ListenerBegin, ListenerSwapPending, Ender
    <3> QED
      BY <1>1, <2>3, <3>1 DEF ListenerBegin, ListenerSwapPending
  <2> QED
    BY <1>7, <2>1, <2>2, <2>3 DEF Listener
<1>8. CASE Worker
  <2>1. CASE BeginTask
    <3>1. CASE freed
      <4>1. ~Running'
        BY <2>1, <3>1 DEF BeginTask, ClosedIsDown, Down, Opened, Running
      <4> QED
        BY <1>2, <4>1
    <3>2. CASE ~freed
      <4>1. /\ wpc = "idle" /\ task' = tasks[1] /\ wpc' = FirstStep(tasks[1])
            /\ UNCHANGED <<unit, leftRunning, stopped, cb, lpc, cpc>>
        BY <2>1, <3>2, Taken DEF BeginTask
      <4>2. tasks[1] \in EndTasks => wpc' = "stopUnits"
        BY <4>1 DEF EndTasks, FirstStep
      <4>3. \A i \in DOMAIN tasks : tasks[i] \in EndTasks =>
               wpc' = "stopUnits" \/ \E j \in DOMAIN tasks' : tasks'[j] \in EndTasks
        BY <2>1, <4>2, Taken
      <4>4. Held => Held'
        BY <4>1, <4>3 DEF Ender
      <4> QED
        BY <1>1, <4>1, <4>4
    <3> QED
      BY <3>1, <3>2
  <2>2. CASE TaskDone
    <3>1. wpc # "stopUnits" /\ (cpc = "submitStop" => cpc' = "submitStop")
      BY <2>2 DEF TaskDone, Goto, ClientWaits, SyncTasks, WaitsIn
    <3>2. Held => Held'
      BY <2>2, <3>1 DEF TaskDone, Ender
    <3> QED
      BY <1>1, <2>2, <3>2 DEF TaskDone
  <2>3. CASE StopUnits \/ Close
    <3>1. ~Running'
      BY <2>3 DEF StopUnits, Close, Running
    <3> QED
      BY <1>2, <3>1
  <2>4. CASE StartUnits
    BY <1>2, <2>4 DEF StartUnits, Running
  <2>5. CASE RestoreStopped
    BY <1>2, <2>5 DEF RestoreStopped, Running
  <2>6. CASE Setup
    <3>1. CASE UNCHANGED unit
      BY <1>3, <2>6, <3>1 DEF Setup, Goto
    <3>2. CASE unit' = [u \in Units |-> "idle"]
      <4>1. ~Running'
        BY <3>2 DEF Running
      <4> QED
        BY <1>2, <4>1
    <3> QED
      BY <2>6, <3>1, <3>2 DEF Setup
  <2>7. CASE Restart
    <3>1. CASE stopped
      BY <1>3, <2>7, <3>1 DEF Restart, Goto
    <3>2. CASE ~stopped
      BY <1>2, <2>7, <3>2 DEF Restart
    <3> QED
      BY <3>1, <3>2
  <2>8. CASE DestroySwap
    <3>1. CASE stopped
      BY <1>3, <2>8, <3>1 DEF DestroySwap, Goto
    <3>2. CASE ~stopped
      BY <2>8, <3>2 DEF DestroySwap, Goto, OrphansAreEnded
    <3> QED
      BY <3>1, <3>2
  <2>9. CASE UnitsStopped \/ RestoreDraining \/ CheckStopped \/ RecheckStopped
    BY <1>3, <2>9 DEF UnitsStopped, RestoreDraining, CheckStopped, RecheckStopped, Goto
  <2>10. CASE Closed \/ LookUpDevice \/ ClearDelayed \/ NotifyError
    BY <1>3, <2>10 DEF Closed, LookUpDevice, ClearDelayed, NotifyError, Goto
  <2>11. CASE ClearSwitching \/ ClearPending \/ Release
    BY <1>3, <2>11 DEF ClearSwitching, ClearPending, Release, Goto
  <2>12. CASE Uninstall
    BY <1>3, <2>12 DEF Uninstall
  <2> QED
    BY <1>8, <2>1, <2>2, <2>3, <2>4, <2>5, <2>6, <2>7, <2>8, <2>9, <2>10, <2>11, <2>12
       DEF Worker
<1>9. CASE UNCHANGED vars
  BY <1>3, <1>9 DEF vars
<1> QED
  BY <1>4, <1>5, <1>6, <1>7, <1>8, <1>9 DEF Next

(* A stream that has been stopped runs on only where a start task itself has   *)
(* left units running: everybody else who sets stopped has the units stopped,  *)
(* and a reinit never starts them again behind its back.                       *)
THEOREM NoOrphans == Spec => []NoOrphanRunning
<1>1. Init => OrphansAreEnded
  BY DEF Init, OrphansAreEnded, Running
<1>2. IInv /\ OrphansAreEnded /\ [Next]_vars => OrphansAreEnded'
  BY OrphansStep DEF IInv
<1>3. OrphansAreEnded => NoOrphanRunning
  <2> SUFFICES ASSUME OrphansAreEnded, Quiet PROVE ~Ender /\ wpc # "stopUnits"
    BY DEF OrphansAreEnded, NoOrphanRunning
  <2> QED
    BY DEF Quiet, CallbacksDone, Ender
<1> QED
  BY <1>1, <1>2, <1>3, Invariance, PTL DEF Spec

-----------------------------------------------------------------------------
(* Without an early restart, a stream that is started has been told to end by *)
(* nobody: start finds it stopped, with every end carried through.             *)
Ending == Ender \/ task \in EndTasks

NobodyEnds ==
    /\ was.stopped
    /\ cpc = "storeStopped" => stopped
    /\ ~stopped \/ cpc = "storeStopped" => ~Ending

LEMMA NobodyEndsStep ==
    ASSUME ~RestartEarly, TypeOK, ClientWaits, NobodyEnds, [Next]_vars
    PROVE  NobodyEnds'
<1> USE DEF flags, device, worker, client, hal, history
<1>1. ASSUME stopped => stopped', cpc' = "storeStopped" => cpc = "storeStopped",
             was' = was, Ending' => Ending
      PROVE  NobodyEnds'
  BY <1>1 DEF NobodyEnds
<1>2. ASSUME UNCHANGED <<stopped, cpc, was>>, Ending PROVE NobodyEnds'
  BY <1>2 DEF NobodyEnds
<1>3. ASSUME NEW t \in Tasks \ EndTasks, Submit(t)
      PROVE  \A i \in DOMAIN tasks' : tasks'[i] \in EndTasks =>
                i \in DOMAIN tasks /\ tasks[i] \in EndTasks
  BY <1>3, Submitted
<1>4. ASSUME stopped => stopped', cpc' = cpc, was' = was,
             UNCHANGED <<cb, lpc, tasks, task>>
      PROVE  NobodyEnds'
  BY <1>1, <1>4 DEF Ending, Ender
<1>5. CASE Client
  <2>1. CASE ClientStart
    <3>1. stopped /\ Settled /\ cpc = "idle"
      BY <2>1 DEF ClientStart
    <3>2. task # "stopSync" /\ \A i \in DOMAIN tasks : tasks[i] # "stopSync"
      BY <3>1, NobodyWaits DEF SyncTasks
    <3>3. ~Ending
      BY <3>1, <3>2 DEF Settled, Ending, Ender, EndTasks
    <3>4. ~Ending'
      BY <2>1, <3>1, <3>3 DEF ClientStart, Ending, Ender
    <3> QED
      BY <2>1, <3>1, <3>4 DEF ClientStart, NobodyEnds
  <2>2. CASE StoreStopped
    <3>1. ~Ending
      BY <2>2 DEF StoreStopped, NobodyEnds
    <3>2. ~Ending'
      BY <2>2, <3>1 DEF StoreStopped, Ending, Ender
    <3> QED
      BY <2>2, <3>2 DEF StoreStopped, NobodyEnds
  <2>3. CASE StoreDraining \/ ClientNotify
    <3>1. Ending' => Ending
      BY <2>3 DEF StoreDraining, ClientNotify, Ending, Ender
    <3> QED
      BY <1>1, <2>3, <3>1 DEF StoreDraining, ClientNotify
  <2>4. CASE ClientStop
    BY <2>4 DEF ClientStop, NobodyEnds
  <2>5. CASE ClientSubmit
    <3>1. CASE cpc = "submitStop"
      BY <2>5, <3>1 DEF ClientSubmit, NobodyEnds, Ending, Ender
    <3>2. CASE cpc # "submitStop"
      <4>1. Submit("start") /\ "start" \in Tasks \ EndTasks /\ cpc' = "inStart"
        BY <2>5, <3>2 DEF ClientSubmit, Tasks, EndTasks
      <4>2. Ending' => Ending
        BY <1>3, <2>5, <4>1 DEF ClientSubmit, Ending, Ender
      <4> QED
        BY <1>1, <2>5, <4>1, <4>2 DEF ClientSubmit
    <3> QED
      BY <3>1, <3>2
  <2>6. CASE ClientDestroy
    <3>1. Submit("final") /\ "final" \in Tasks \ EndTasks /\ cpc' = "inDestroy"
      BY <2>6 DEF ClientDestroy, Tasks, EndTasks
    <3>2. Ending' => Ending
      BY <1>3, <2>6, <3>1 DEF ClientDestroy, Ending, Ender
    <3> QED
      BY <1>1, <2>6, <3>1, <3>2 DEF ClientDestroy
  <2> QED
    BY <1>5, <2>1, <2>2, <2>3, <2>4, <2>5, <2>6 DEF Client
<1>6. ASSUME NEW u \in Units, CallbackBegin(u) \/ CallbackContinue(u) PROVE NobodyEnds'
  <2>0. cb \in [Units -> CallbackPCs]
    BY DEF TypeOK
  <2>1. CASE CallbackSwap(u)
    <3>1. CASE stopped
      <4>1. Ending' => Ending
        BY <2>0, <2>1, <3>1 DEF CallbackSwap, Ending, Ender
      <4> QED
        BY <1>1, <2>1, <4>1 DEF CallbackSwap
    <3>2. CASE ~stopped
      BY <2>1, <3>2 DEF CallbackSwap, NobodyEnds
    <3> QED
      BY <3>1, <3>2
  <2>2. CASE CallbackNotify(u)
    BY <1>2, <2>2 DEF CallbackNotify, Ending, Ender
  <2>3. CASE CallbackSubmit(u)
    <3>1. CASE cb[u] = "submitStop"
      BY <1>2, <2>3, <3>1 DEF CallbackSubmit, Ending, Ender
    <3>2. CASE cb[u] # "submitStop"
      <4>1. Submit("reinit") /\ "reinit" \in Tasks \ EndTasks
        BY <2>3, <3>2 DEF CallbackSubmit, Tasks, EndTasks
      <4>2. Ending' => Ending
        BY <1>3, <2>0, <2>3, <4>1 DEF CallbackSubmit, Ending, Ender
      <4> QED
        BY <1>1, <2>3, <4>2 DEF CallbackSubmit
    <3> QED
      BY <3>1, <3>2
  <2>4. CASE CallbackBegin(u) \/ CheckDrain(u) \/ CallbackSwapPending(u)
    <3>1. Ending' => Ending
      BY <2>0, <2>4 DEF CallbackBegin, CheckDrain, CallbackSwapPending, Ending, Ender
    <3> QED
      BY <1>1, <2>4, <3>1 DEF CallbackBegin, CheckDrain, CallbackSwapPending
  <2>5. CASE RenderOutput \/ RenderInputOnly \/ RenderInputDuplex
    <3>1. Ending' => Ending
      BY <2>0, <2>5 DEF RenderOutput, RenderInputOnly, RenderInputDuplex, Ending, Ender
    <3> QED
      BY <1>1, <2>5, <3>1 DEF RenderOutput, RenderInputOnly, RenderInputDuplex
  <2> QED
    BY <1>6, <2>1, <2>2, <2>3, <2>4, <2>5 DEF CallbackContinue
<1>7. ASSUME NEW kind \in EventKinds, DeviceEvent(kind) PROVE NobodyEnds'
  BY <1>4, <1>7 DEF DeviceEvent
<1>8. CASE Listener
  <2>1. CASE ListenerDead
    <3>1. CASE stopped
      BY <1>1, <2>1, <3>1 DEF ListenerDead, Ending, Ender
    <3>2. CASE ~stopped
      BY <2>1, <3>2 DEF ListenerDead, NobodyEnds
    <3> QED
      BY <3>1, <3>2
  <2>2. CASE ListenerSubmit
    <3>1. CASE lpc = "submitDead"
      BY <1>2, <2>2, <3>1 DEF ListenerSubmit, Ending, Ender
    <3>2. CASE lpc # "submitDead"
      <4>1. Submit("reinit") /\ "reinit" \in Tasks \ EndTasks
        BY <2>2, <3>2 DEF ListenerSubmit, Tasks, EndTasks
      <4>2. Ending' => Ending
        BY <1>3, <2>2, <4>1 DEF ListenerSubmit, Ending, Ender
      <4> QED
        BY <1>1, <2>2, <4>2 DEF ListenerSubmit
    <3> QED
      BY <3>1, <3>2
  <2>3. CASE ListenerBegin \/ ListenerSwapPending
    <3>0. notices \in Seq({"change", "dead"})
      BY DEF TypeOK
    <3>1. lpc' # "submitDead"
      BY <2>3, <3>0 DEF ListenerBegin, ListenerSwapPending
    <3>2. Ending' => Ending
      BY <2>3, <3>1 DEF ListenerBegin, ListenerSwapPending, Ending, Ender
    <3> QED
      BY <1>1, <2>3, <3>2 DEF ListenerBegin, ListenerSwapPending
  <2> QED
    BY <1>8, <2>1, <2>2, <2>3 DEF Listener
<1>9. CASE Worker
  <2>1. CASE BeginTask
    <3>1. Ending' => Ending
      BY <2>1, Taken DEF BeginTask, Ending, Ender
    <3> QED
      BY <1>1, <2>1, <3>1 DEF BeginTask
  <2>2. CASE TaskDone
    <3>1. /\ cpc' = "storeStopped" => cpc = "storeStopped"
          /\ cpc' = "submitStop" => cpc = "submitStop"
      BY <2>2 DEF TaskDone
    <3>2. Ending' => Ending
      BY <2>2, <3>1 DEF TaskDone, Ending, Ender, EndTasks
    <3> QED
      BY <1>1, <2>2, <3>1, <3>2 DEF TaskDone
  <2>3. CASE RestoreStopped \/ DestroySwap
    BY <1>4, <2>3 DEF RestoreStopped, DestroySwap, NobodyEnds
  <2>4. CASE StopUnits \/ UnitsStopped \/ StartUnits \/ RestoreDraining
    BY <1>4, <2>4 DEF StopUnits, UnitsStopped, StartUnits, RestoreDraining
  <2>5. CASE CheckStopped \/ RecheckStopped \/ Close \/ Closed
    BY <1>4, <2>5 DEF CheckStopped, RecheckStopped, Close, Closed
  <2>6. CASE LookUpDevice \/ Setup \/ Restart \/ ClearDelayed
    BY <1>4, <2>6 DEF LookUpDevice, Setup, Restart, ClearDelayed
  <2>7. CASE NotifyError \/ ClearSwitching \/ ClearPending \/ Uninstall \/ Release
    BY <1>4, <2>7 DEF NotifyError, ClearSwitching, ClearPending, Uninstall, Release
  <2> QED
    BY <1>9, <2>1, <2>2, <2>3, <2>4, <2>5, <2>6, <2>7 DEF Worker
<1>10. CASE UNCHANGED vars
  BY <1>4, <1>10 DEF vars
<1> QED
  BY <1>5, <1>6, <1>7, <1>8, <1>9, <1>10 DEF Next

(* A started stream runs or is closed, unless the client or the queue is on    *)
(* its way to start the units.                                                 *)
Starting ==
    \/ cpc \in {"storeDraining", "submitStart"}
    \/ \E i \in DOMAIN tasks : tasks[i] = "start"
    \/ task = "start" /\ wpc \notin {"clearDelayed", "restoreDraining", "finish"}
Reinitializing ==
    task = "reinit" /\ wpc \in {"stopUnits", "waitCallbacks", "recheckStopped", "close",
                                "waitClosed", "lookup", "setup", "restart"}

Up(v, l) ==
    \/ \A u \in Units : v[u] = "running"
    \/ (\A u \in Units : v[u] = "null") /\ ~l

StartedIsUp ==
    /\ \/ \A u \in Units : unit[u] = "null"
       \/ \A u \in Units : unit[u] # "null"
    /\ listening => Opened
    /\ ~stopped /\ cpc \notin {"inDestroy", "gone"}
          => Up(unit, listening) \/ Starting \/ Reinitializing

(* Starting the units leaves those that do not exist alone. *)
LEMMA StartedAreUp ==
    ASSUME TypeOK, StartedIsUp, unit' = StartedUnits, UNCHANGED listening
    PROVE  Up(unit', listening')
<1>1. CASE \A u \in Units : unit[u] = "null"
  BY <1>1 DEF StartedIsUp, Up, StartedUnits, Opened
<1>2. CASE \A u \in Units : unit[u] # "null"
  BY <1>2 DEF Up, StartedUnits
<1> QED
  BY <1>1, <1>2 DEF StartedIsUp

LEMMA StartedIsUpStep ==
    ASSUME TypeOK, ClientWaits, ClosedIsDown, FinalIsLast, NobodyEnds, StartedIsUp,
           [Next]_vars
    PROVE  StartedIsUp'
<1> USE DEF flags, device, worker, client, hal, history
<1> DEFINE Uniform ==
             /\ \/ \A u \in Units : unit[u] = "null"
                \/ \A u \in Units : unit[u] # "null"
             /\ listening => Opened
           Excused == stopped \/ cpc \in {"inDestroy", "gone"}
           Going == Starting \/ Reinitializing
<1>0. /\ unit \in [Units -> {"null", "idle", "running"}] /\ Uniform
      /\ Excused \/ Up(unit, listening) \/ Going
  BY DEF TypeOK, StartedIsUp
<1>1. ASSUME Uniform', Excused' \/ Up(unit', listening') \/ Going' PROVE StartedIsUp'
  BY <1>1 DEF StartedIsUp
<1>2. ASSUME \A u \in Units : unit'[u] = "null" <=> unit[u] = "null",
             listening' => listening
      PROVE  Uniform'
  BY <1>0, <1>2 DEF Opened
<1>3. ASSUME UNCHANGED device, Excused => Excused', Going => Going' PROVE StartedIsUp'
  BY <1>0, <1>1, <1>2, <1>3
<1>4. ASSUME UNCHANGED <<device, cpc>>, stopped => stopped',
             UNCHANGED tasks \/ \E t \in Tasks : Submit(t),
             UNCHANGED <<task, wpc>>
      PROVE  StartedIsUp'
  <2>1. \A i \in DOMAIN tasks : i \in DOMAIN tasks' /\ tasks'[i] = tasks[i]
    BY <1>4, Submitted
  <2>2. Going => Going'
    BY <1>4, <2>1 DEF Starting, Reinitializing
  <2> QED
    BY <1>3, <1>4, <2>2
<1>5. CASE Client
  <2>1. CASE ClientStart \/ ClientNotify \/ ClientStop
    <3>1. Going => Going'
      BY <2>1 DEF ClientStart, ClientNotify, ClientStop, Starting, Reinitializing
    <3> QED
      BY <1>3, <2>1, <3>1 DEF ClientStart, ClientNotify, ClientStop
  <2>2. CASE StoreStopped \/ StoreDraining
    <3>1. Going' /\ Uniform'
      BY <1>2, <2>2 DEF StoreStopped, StoreDraining, Starting
    <3> QED
      BY <1>1, <3>1
  <2>3. CASE ClientSubmit
    <3>1. PICK t \in Tasks : Submit(t)
      BY <2>3 DEF ClientSubmit, Tasks
    <3>2. \A i \in DOMAIN tasks : i \in DOMAIN tasks' /\ tasks'[i] = tasks[i]
      BY <3>1, Submitted
    <3>3. CASE cpc = "submitStart"
      <4>1. Submit("start") /\ "start" \in Tasks
        BY <2>3, <3>3 DEF ClientSubmit, Tasks
      <4>2. \E i \in DOMAIN tasks' : tasks'[i] = "start"
        BY <4>1, Submitted
      <4> QED
        BY <1>3, <2>3, <3>3, <4>2 DEF ClientSubmit, Starting
    <3>4. CASE cpc # "submitStart"
      <4>1. Going => Going'
        BY <2>3, <3>2, <3>4 DEF ClientSubmit, Starting, Reinitializing
      <4> QED
        BY <1>3, <2>3, <3>4, <4>1 DEF ClientSubmit
    <3> QED
      BY <3>3, <3>4
  <2>4. CASE ClientDestroy
    BY <1>1, <1>2, <2>4 DEF ClientDestroy
  <2> QED
    BY <1>5, <2>1, <2>2, <2>3, <2>4 DEF Client
<1>6. ASSUME NEW u \in Units, CallbackBegin(u) \/ CallbackContinue(u) PROVE StartedIsUp'
  <2>1. CASE CallbackSubmit(u)
    BY <1>4, <2>1 DEF CallbackSubmit, Tasks
  <2>2. CASE CallbackBegin(u) \/ CheckDrain(u) \/ CallbackSwap(u)
    BY <1>4, <2>2 DEF CallbackBegin, CheckDrain, CallbackSwap
  <2>3. CASE CallbackNotify(u) \/ CallbackSwapPending(u)
    BY <1>4, <2>3 DEF CallbackNotify, CallbackSwapPending
  <2>4. CASE RenderOutput \/ RenderInputOnly \/ RenderInputDuplex
    BY <1>4, <2>4 DEF RenderOutput, RenderInputOnly, RenderInputDuplex
  <2> QED
    BY <1>6, <2>1, <2>2, <2>3, <2>4 DEF CallbackContinue
<1>7. ASSUME NEW kind \in EventKinds, DeviceEvent(kind) PROVE StartedIsUp'
  BY <1>4, <1>7 DEF DeviceEvent
<1>8. CASE Listener
  <2>1. CASE ListenerSubmit
    BY <1>4, <2>1 DEF ListenerSubmit, Tasks
  <2>2. CASE ListenerBegin \/ ListenerDead \/ ListenerSwapPending
    BY <1>4, <2>2 DEF ListenerBegin, ListenerDead, ListenerSwapPending
  <2> QED
    BY <1>8, <2>1, <2>2 DEF Listener
<1>9. CASE Worker
  <2>1. CASE BeginTask
    <3>1. CASE freed
      BY <1>1, <1>2, <2>1, <3>1 DEF BeginTask, FinalIsLast
    <3>2. CASE ~freed
      <4>0. wpc = "idle" => task = "none"
        BY StepsOfTasks DEF TypeOK, Tasks
      <4>1. /\ wpc = "idle" /\ task' = tasks[1] /\ wpc' = FirstStep(tasks[1])
            /\ task = "none"
        BY <2>1, <3>2, <4>0, Taken DEF BeginTask
      <4>2. tasks[1] = "start" => Starting'
        BY <4>1 DEF FirstStep, Starting
      <4>3. Going => Going'
        BY <2>1, <4>1, <4>2, Taken DEF BeginTask, Starting, Reinitializing
      <4> QED
        BY <1>3, <2>1, <4>3 DEF BeginTask
    <3> QED
      BY <3>1, <3>2
  <2>2. CASE TaskDone
    <3>1. Going => Going'
      BY <2>2 DEF TaskDone, Goto, Starting, Reinitializing, ClientWaits, SyncTasks, WaitsIn
    <3>2. Excused => Excused'
      BY <2>2 DEF TaskDone, ClientWaits, SyncTasks, WaitsIn
    <3> QED
      BY <1>3, <2>2, <3>1, <3>2 DEF TaskDone
  <2>3. CASE wpc \in {"stopUnits", "close"}
    <3>1. task \in EndTasks => stopped
      BY DEF NobodyEnds, Ending
    <3>2. task = "final" => cpc = "inDestroy"
      BY DEF ClientWaits, SyncTasks, WaitsIn
    <3>3. task \in EndTasks \cup {"final"} \/ (task \in {"start", "reinit"})
      BY <2>3 DEF TypeOK, Tasks, EndTasks
    <3>4. CASE StopUnits
      <4>1. Uniform'
        BY <1>0, <1>2, <3>4 DEF StopUnits
      <4>2. task \in {"start", "reinit"} => Going'
        BY <3>4 DEF StopUnits, Goto, Starting, Reinitializing
      <4> QED
        BY <1>1, <3>1, <3>2, <3>3, <3>4, <4>1, <4>2 DEF StopUnits
    <3>5. CASE Close
      <4>1. Uniform'
        BY <3>5 DEF Close
      <4>2. task \in {"start", "reinit"} => Going'
        BY <3>5 DEF Close, Goto, Starting, Reinitializing
      <4> QED
        BY <1>1, <3>1, <3>2, <3>3, <3>5, <4>1, <4>2 DEF Close
    <3> QED
      BY <1>9, <2>3, <3>4, <3>5 DEF Worker, BeginTask, TaskDone, UnitsStopped, StartUnits,
         RestoreStopped, RestoreDraining, CheckStopped, RecheckStopped, Closed,
         LookUpDevice, Setup, Restart, ClearDelayed, NotifyError, ClearSwitching,
         ClearPending, Uninstall, DestroySwap, Release, Goto
  <2>4. CASE StartUnits
    <3>0. task = "start"
      BY <2>4, StepsOfTasks DEF StartUnits, Goto, TypeOK, Tasks
    <3>1. CASE wpc' = "finish"
      <4>1. unit' = StartedUnits /\ UNCHANGED listening
        BY <2>4, <3>1 DEF StartUnits, Goto
      <4>2. Uniform'
        BY <1>2, <4>1 DEF StartedUnits
      <4> QED
        BY <1>1, <4>1, <4>2, StartedAreUp
    <3>2. CASE wpc' # "finish"
      <4>1. PartlyStarted(unit') /\ UNCHANGED <<listening, stopped>> /\ wpc' = "restoreStopped"
        BY <2>4, <3>2 DEF StartUnits, Goto
      <4>2. Uniform'
        BY <1>0, <1>2, <4>1 DEF StartedUnits, PartlyStarted
      <4>3. Starting'
        BY <2>4, <3>0, <4>1 DEF StartUnits, Starting
      <4> QED
        BY <1>1, <4>2, <4>3
    <3> QED
      BY <3>1, <3>2
  <2>5. CASE RestoreStopped
    BY <1>1, <1>2, <2>5 DEF RestoreStopped, NobodyEnds
  <2>6. CASE Setup
    <3>0. task \in {"start", "reinit"}
      BY <2>6, StepsOfTasks DEF Setup, Goto, TypeOK, Tasks
    <3>1. Uniform'
      <4>1. CASE UNCHANGED device
        BY <1>2, <4>1
      <4>2. CASE unit' = [u \in Units |-> "idle"]
        BY <4>2, UnitsAssumption DEF Opened
      <4> QED
        BY <2>6, <4>1, <4>2 DEF Setup
    <3>2. task' = task /\ wpc' \in {"restart", ReinitErr}
      BY <2>6 DEF Setup, Goto
    <3>3. Going'
      BY <3>0, <3>2 DEF ReinitErr, Starting, Reinitializing
    <3> QED
      BY <1>1, <3>1, <3>3
  <2>7. CASE Restart
    <3>0. task \in {"start", "reinit"} /\ UNCHANGED <<task, listening, stopped>>
      BY <2>7, StepsOfTasks DEF Restart, Goto, TypeOK, Tasks
    <3>1. CASE stopped
      BY <1>1, <1>2, <2>7, <3>1 DEF Restart
    <3>2. CASE ~stopped /\ unit' = StartedUnits
      <4>1. Uniform'
        BY <1>2, <3>0, <3>2 DEF StartedUnits
      <4> QED
        BY <1>1, <3>0, <3>2, <4>1, StartedAreUp
    <3>3. CASE ~stopped /\ PartlyStarted(unit') /\ wpc' = ReinitErr
      <4>1. Uniform'
        BY <1>0, <1>2, <3>0, <3>3 DEF StartedUnits, PartlyStarted
      <4>2. Going'
        BY <3>0, <3>3 DEF ReinitErr, Starting, Reinitializing
      <4> QED
        BY <1>1, <4>1, <4>2
    <3> QED
      BY <2>7, <3>1, <3>2, <3>3 DEF Restart, Goto
  <2>8. CASE Closed
    <3>1. Up(unit, listening)
      BY <2>8 DEF Closed, Goto, ClosedIsDown, Down, Opened, Up
    <3> QED
      BY <1>1, <1>2, <2>8, <3>1 DEF Closed
  <2>9. CASE Uninstall
    <3>1. task = "final"
      BY <2>9, StepsOfTasks DEF Uninstall, TypeOK, Tasks
    <3>2. cpc = "inDestroy"
      BY <3>1 DEF ClientWaits, SyncTasks, WaitsIn
    <3> QED
      BY <1>1, <1>2, <2>9, <3>2 DEF Uninstall
  <2>10. CASE UnitsStopped
    <3>1. task \in {"start", "reinit"} => Going'
      BY <2>10 DEF UnitsStopped, Goto, Starting, Reinitializing
    <3>2. task \in EndTasks => stopped
      BY DEF NobodyEnds, Ending
    <3>3. task = "final" => cpc = "inDestroy"
      BY DEF ClientWaits, SyncTasks, WaitsIn
    <3>4. task \in EndTasks \cup {"final", "start", "reinit"}
      BY <2>10 DEF UnitsStopped, Goto, TypeOK, Tasks, EndTasks
    <3> QED
      BY <1>1, <1>2, <2>10, <3>1, <3>2, <3>3, <3>4 DEF UnitsStopped
  <2>11. CASE RecheckStopped
    <3>1. CASE stopped
      BY <1>1, <1>2, <2>11, <3>1 DEF RecheckStopped
    <3>2. CASE ~stopped
      <4>1. Going => Going'
        BY <2>11, <3>2 DEF RecheckStopped, Goto, Starting, Reinitializing
      <4> QED
        BY <1>3, <2>11, <4>1 DEF RecheckStopped
    <3> QED
      BY <3>1, <3>2
  <2>12. CASE CheckStopped \/ LookUpDevice
    <3>1. Going => Going'
      BY <2>12 DEF CheckStopped, LookUpDevice, ReinitErr, Goto, Starting, Reinitializing
    <3> QED
      BY <1>3, <2>12, <3>1 DEF CheckStopped, LookUpDevice
  <2>13. CASE RestoreDraining \/ ClearDelayed \/ NotifyError \/ ClearSwitching \/ ClearPending
    <3>1. Going => Going'
      BY <2>13, StepsOfTasks DEF RestoreDraining, ClearDelayed, NotifyError, ClearSwitching,
         ClearPending, Goto, Starting, Reinitializing, TypeOK, Tasks
    <3> QED
      BY <1>3, <2>13, <3>1 DEF RestoreDraining, ClearDelayed, NotifyError, ClearSwitching,
                               ClearPending
  <2>14. CASE DestroySwap
    BY <1>1, <1>2, <2>14 DEF DestroySwap
  <2>15. CASE Release
    <3>1. task = "final"
      BY <2>15, StepsOfTasks DEF Release, Goto, TypeOK, Tasks
    <3>2. cpc = "inDestroy"
      BY <3>1 DEF ClientWaits, SyncTasks, WaitsIn
    <3> QED
      BY <1>1, <1>2, <2>15, <3>2 DEF Release
  <2> QED
    BY <1>9, <2>1, <2>2, <2>3, <2>4, <2>5, <2>6, <2>7, <2>8, <2>9, <2>10, <2>11, <2>12,
       <2>13, <2>14, <2>15 DEF Worker, StopUnits, Close, Goto
<1>10. CASE UNCHANGED vars
  BY <1>4, <1>10 DEF vars
<1> QED
  BY <1>5, <1>6, <1>7, <1>8, <1>9, <1>10 DEF Next

(* A stream the client has started, and that nobody has ended, runs or has     *)
(* been closed by a reinit that failed, once every thread has done what it     *)
(* began.                                                                      *)
THEOREM StartedRuns == ASSUME ~RestartEarly PROVE Spec => []StartedMeansRunning
<1>1. Init => NobodyEnds /\ StartedIsUp
  <2> SUFFICES ASSUME Init PROVE NobodyEnds /\ StartedIsUp
    OBVIOUS
  <2>1. ~Ending /\ was.stopped
    BY DEF Init, Ending, Ender, EndTasks
  <2>2. (\A u \in Units : unit[u] # "null") /\ Opened
    BY UnitsAssumption DEF Init, Opened
  <2> QED
    BY <2>1, <2>2 DEF Init, NobodyEnds, StartedIsUp
<1>2. IInv /\ NobodyEnds /\ StartedIsUp /\ [Next]_vars => NobodyEnds' /\ StartedIsUp'
  BY NobodyEndsStep, StartedIsUpStep DEF IInv
<1>3. IInv /\ StartedIsUp => StartedMeansRunning
  <2> SUFFICES ASSUME IInv, StartedIsUp, Quiet, ~stopped PROVE Up(unit, listening)
    BY DEF StartedMeansRunning, Up, Opened
  <2>1. ~Starting /\ ~Reinitializing
    BY DEF Quiet, Starting, Reinitializing, IInv, TypeOK, Steps, Tasks
  <2> QED
    BY <2>1 DEF StartedIsUp, Quiet
<1> QED
  BY <1>1, <1>2, <1>3, Invariance, PTL DEF Spec

-----------------------------------------------------------------------------
(* The reinit task there is while reinit_pending is set is about to be handed  *)
(* over by a callback or the notification thread, in the queue, or executed.   *)
Handing(u) == cb[u] = "submitReinit"
Queued(i) == tasks[i] = "reinit"
Executed == task = "reinit" /\ wpc # "finish"

OneReinit ==
    /\ reinitPending <=> \/ \E u \in Units : Handing(u)
                         \/ lpc = "submitReinit"
                         \/ \E i \in DOMAIN tasks : Queued(i)
                         \/ Executed
    /\ \A u, v \in Units : Handing(u) /\ Handing(v) => u = v
    /\ \A i, j \in DOMAIN tasks : Queued(i) /\ Queued(j) => i = j
    /\ lpc = "submitReinit" => \A u \in Units : ~Handing(u)
    /\ \A i \in DOMAIN tasks : Queued(i) =>
          lpc # "submitReinit" /\ \A u \in Units : ~Handing(u)
    /\ Executed => /\ lpc # "submitReinit" /\ \A u \in Units : ~Handing(u)
                   /\ \A i \in DOMAIN tasks : ~Queued(i)

LEMMA OneReinitStep ==
    ASSUME TypeOK, FailedOK, OneReinit, [Next]_vars, ~freed'
    PROVE  OneReinit'
<1> USE DEF flags, device, worker, client, hal, history
<1>1. ASSUME UNCHANGED reinitPending,
             \A u \in Units : Handing(u)' <=> Handing(u),
             lpc' = "submitReinit" <=> lpc = "submitReinit",
             Executed' <=> Executed,
             UNCHANGED tasks \/ \E t \in Tasks \ {"reinit"} : Submit(t)
      PROVE  OneReinit'
  <2>1. CASE UNCHANGED tasks
    BY <1>1, <2>1 DEF OneReinit, Queued
  <2>2. CASE \E t \in Tasks \ {"reinit"} : Submit(t)
    <3>1. /\ \A i \in DOMAIN tasks : i \in DOMAIN tasks' /\ (Queued(i)' <=> Queued(i))
          /\ \A i \in DOMAIN tasks' : Queued(i)' => i \in DOMAIN tasks
      BY <2>2, Submitted DEF Queued
    <3> QED
      BY <1>1, <3>1 DEF OneReinit
  <2> QED
    BY <1>1, <2>1, <2>2
<1>2. ASSUME UNCHANGED <<reinitPending, task, wpc, tasks, lpc>>,
             \A u \in Units : Handing(u)' <=> Handing(u)
      PROVE  OneReinit'
  BY <1>1, <1>2 DEF Executed
(* Who hands the task over: it is in the queue from now on. *)
<1>3. ASSUME Submit("reinit"), UNCHANGED <<reinitPending, task, wpc>>,
             lpc' # "submitReinit", \A u \in Units : ~Handing(u)',
             lpc = "submitReinit" \/ \E u \in Units : Handing(u)
      PROVE  OneReinit'
  <2>1. reinitPending /\ ~Executed /\ \A i \in DOMAIN tasks : ~Queued(i)
    BY <1>3 DEF OneReinit
  <2>2. "reinit" \in Tasks
    BY DEF Tasks
  <2>3. PICK last : last = Len(tasks) + 1
    OBVIOUS
  <2>4. /\ last \in DOMAIN tasks' /\ Queued(last)'
        /\ \A i \in DOMAIN tasks' : Queued(i)' => i = last
    BY <1>3, <2>1, <2>2, <2>3, Submitted DEF Queued
  <2> QED
    BY <1>3, <2>1, <2>4 DEF OneReinit, Executed
<1>4. CASE Client
  <2>1. CASE ClientSubmit \/ ClientDestroy
    <3>1. \E t \in Tasks \ {"reinit"} : Submit(t)
      BY <2>1 DEF ClientSubmit, ClientDestroy, Tasks
    <3> QED
      BY <1>1, <2>1, <3>1 DEF ClientSubmit, ClientDestroy, Handing, Executed
  <2>2. CASE ClientStart \/ StoreStopped \/ StoreDraining \/ ClientStop \/ ClientNotify
    BY <1>2, <2>2 DEF ClientStart, StoreStopped, StoreDraining, ClientStop, ClientNotify,
                      Handing
  <2> QED
    BY <1>4, <2>1, <2>2 DEF Client
<1>5. ASSUME NEW u \in Units, CallbackBegin(u) \/ CallbackContinue(u) PROVE OneReinit'
  <2>0. cb \in [Units -> CallbackPCs]
    BY DEF TypeOK
  <2>1. CASE CallbackSwapPending(u)
    <3>1. CASE reinitPending
      BY <1>2, <2>0, <2>1, <3>1 DEF CallbackSwapPending, Handing
    <3>2. CASE ~reinitPending
      <4>1. \A v \in Units : Handing(v)' <=> v = u
        BY <2>0, <2>1, <3>2 DEF CallbackSwapPending, Handing, OneReinit
      <4>2. Executed' = Executed /\ \A i \in DOMAIN tasks' : Queued(i)' = Queued(i)
        BY <2>1 DEF CallbackSwapPending, Executed, Queued
      <4> QED
        BY <2>1, <3>2, <4>1, <4>2 DEF CallbackSwapPending, OneReinit
    <3> QED
      BY <3>1, <3>2
  <2>2. CASE CallbackSubmit(u)
    <3>1. CASE Handing(u)
      <4>1. Submit("reinit") /\ lpc' # "submitReinit"
        BY <2>2, <3>1 DEF CallbackSubmit, Handing, OneReinit
      <4>2. \A v \in Units : ~Handing(v)'
        BY <2>0, <2>2, <3>1 DEF CallbackSubmit, Handing, OneReinit
      <4> QED
        BY <1>3, <2>2, <3>1, <4>1, <4>2 DEF CallbackSubmit
    <3>2. CASE ~Handing(u)
      <4>1. Submit("stop") /\ "stop" \in Tasks \ {"reinit"}
        BY <2>2, <3>2 DEF CallbackSubmit, Handing, Tasks
      <4>2. \A v \in Units : Handing(v)' <=> Handing(v)
        BY <2>0, <2>2, <3>2 DEF CallbackSubmit, Handing
      <4> QED
        BY <1>1, <2>2, <4>1, <4>2 DEF CallbackSubmit, Executed
    <3> QED
      BY <3>1, <3>2
  <2>3. CASE CallbackBegin(u) \/ CheckDrain(u) \/ CallbackSwap(u) \/ CallbackNotify(u)
    <3>1. \A v \in Units : Handing(v)' <=> Handing(v)
      BY <2>0, <2>3 DEF CallbackBegin, CheckDrain, CallbackSwap, CallbackNotify, Handing
    <3> QED
      BY <1>2, <2>3, <3>1 DEF CallbackBegin, CheckDrain, CallbackSwap, CallbackNotify
  <2>4. CASE u = "output" /\ RenderOutput
    <3>1. \A v \in Units : Handing(v)' <=> Handing(v)
      BY <2>0, <2>4 DEF RenderOutput, Handing
    <3> QED
      BY <1>2, <2>4, <3>1 DEF RenderOutput
  <2>5. CASE u = "input" /\ (RenderInputOnly \/ RenderInputDuplex)
    <3>1. \A v \in Units : Handing(v)' <=> Handing(v)
      BY <2>0, <2>5 DEF RenderInputOnly, RenderInputDuplex, Handing
    <3> QED
      BY <1>2, <2>5, <3>1 DEF RenderInputOnly, RenderInputDuplex
  <2> QED
    BY <1>5, <2>1, <2>2, <2>3, <2>4, <2>5 DEF CallbackContinue
<1>6. ASSUME NEW kind \in EventKinds, DeviceEvent(kind) PROVE OneReinit'
  BY <1>2, <1>6 DEF DeviceEvent, Handing
<1>7. CASE Listener
  <2>1. CASE ListenerSwapPending
    <3>1. CASE reinitPending
      BY <1>1, <2>1, <3>1 DEF ListenerSwapPending, Handing, Executed
    <3>2. CASE ~reinitPending
      BY <2>1, <3>2 DEF ListenerSwapPending, OneReinit, Handing, Executed, Queued
    <3> QED
      BY <3>1, <3>2
  <2>2. CASE ListenerSubmit
    <3>1. CASE lpc = "submitReinit"
      BY <1>3, <2>2, <3>1 DEF ListenerSubmit, Handing, OneReinit
    <3>2. CASE lpc # "submitReinit"
      BY <1>1, <2>2, <3>2 DEF ListenerSubmit, Handing, Executed, Tasks
    <3> QED
      BY <3>1, <3>2
  <2>3. CASE ListenerBegin \/ ListenerDead
    <3>0. notices \in Seq({"change", "dead"})
      BY DEF TypeOK
    <3>1. lpc # "submitReinit" /\ lpc' # "submitReinit"
      BY <2>3, <3>0 DEF ListenerBegin, ListenerDead
    <3> QED
      BY <1>1, <2>3, <3>1 DEF ListenerBegin, ListenerDead, Handing, Executed
  <2> QED
    BY <1>7, <2>1, <2>2, <2>3 DEF Listener
<1>8. CASE Worker
  <2>1. CASE BeginTask
    <3>0. wpc = "idle" => task = "none"
      BY StepsOfTasks DEF TypeOK, Tasks
    <3>1. /\ task = "none" /\ task' = tasks[1] /\ wpc' = FirstStep(tasks[1])
          /\ UNCHANGED <<reinitPending, lpc, cb>>
      BY <2>1, <3>0, Taken DEF BeginTask
    <3>2. Executed' <=> Queued(1)
      BY <3>1, Taken, <2>1 DEF Executed, Queued, FirstStep
    <3>3. /\ \A i \in DOMAIN tasks' : i + 1 \in DOMAIN tasks /\ i + 1 # 1
                                       /\ (Queued(i)' <=> Queued(i + 1))
          /\ \A i \in DOMAIN tasks :
                i # 1 => i - 1 \in DOMAIN tasks' /\ (Queued(i - 1)' <=> Queued(i))
          /\ 1 \in DOMAIN tasks
      BY <2>1, Taken DEF Queued
    <3>4. \A i, j \in DOMAIN tasks' : i + 1 = j + 1 => i = j
      BY <2>1, Taken
    <3>5. ~Executed
      BY <3>1 DEF Executed
    <3>6. \A u \in Units : Handing(u)' <=> Handing(u)
      BY <3>1 DEF Handing
    <3>7. /\ \A i, j \in DOMAIN tasks' : Queued(i)' /\ Queued(j)' => i = j
          /\ Executed' => \A i \in DOMAIN tasks' : ~Queued(i)'
          /\ (\E i \in DOMAIN tasks' : Queued(i)') \/ Executed'
                <=> \E i \in DOMAIN tasks : Queued(i)
      BY <3>2, <3>3, <3>4 DEF OneReinit
    <3> QED
      BY <3>1, <3>2, <3>3, <3>5, <3>6, <3>7 DEF OneReinit
  <2>2. CASE ClearPending
    <3>1. Executed /\ ~Executed' /\ ~reinitPending'
      BY <2>2, StepsOfTasks DEF ClearPending, Goto, Executed, TypeOK, Tasks
    <3> QED
      BY <2>2, <3>1 DEF ClearPending, OneReinit, Handing, Queued
  <2>3. CASE ~BeginTask /\ ~ClearPending
    <3>1. UNCHANGED <<reinitPending, cb, lpc, tasks>>
      BY <1>8, <2>3 DEF Worker, TaskDone, StopUnits, UnitsStopped, StartUnits,
         RestoreStopped, RestoreDraining, CheckStopped, RecheckStopped, Close, Closed,
         LookUpDevice, Setup, Restart, ClearDelayed, NotifyError, ClearSwitching,
         Uninstall, DestroySwap, Release
    <3>2. Executed' <=> Executed
      <4>1. CASE TaskDone
        BY <4>1 DEF TaskDone, Goto, Executed
      <4>2. CASE task # "reinit" /\ ~TaskDone
        BY <1>8, <2>3, <4>2 DEF Executed, Worker, StopUnits, UnitsStopped, StartUnits,
           RestoreStopped, RestoreDraining, CheckStopped, RecheckStopped, Close, Closed,
           LookUpDevice, Setup, Restart, ClearDelayed, NotifyError, ClearSwitching,
           Uninstall, DestroySwap, Release
      <4>3. CASE task = "reinit" /\ ~TaskDone
        <5>1. wpc \in Steps("reinit")
          BY <4>3 DEF TypeOK
        <5>2. CASE StopUnits \/ UnitsStopped \/ CheckStopped \/ Close \/ Closed
          BY <4>3, <5>2 DEF Executed, StopUnits, UnitsStopped, CheckStopped, Close,
                            Closed, Goto
        <5>3. CASE RecheckStopped \/ LookUpDevice \/ Setup \/ Restart
          BY <4>3, <5>3 DEF Executed, RecheckStopped, LookUpDevice, Setup, Restart,
                            ReinitOk, ReinitErr, Goto
        <5>4. CASE NotifyError \/ ClearSwitching \/ DestroySwap \/ RestoreStopped
          BY <4>3, <5>4 DEF Executed, NotifyError, ClearSwitching, DestroySwap,
                            RestoreStopped, Goto
        <5>5. CASE StartUnits \/ RestoreDraining \/ ClearDelayed \/ Uninstall \/ Release
          BY <5>1, <5>5, StepsOfTasks DEF StartUnits, RestoreDraining, ClearDelayed,
                                          Uninstall, Release, Goto
        <5> QED
          BY <1>8, <2>3, <4>3, <5>2, <5>3, <5>4, <5>5 DEF Worker
      <4> QED
        BY <4>1, <4>2, <4>3
    <3> QED
      BY <1>1, <3>1, <3>2 DEF Handing
  <2> QED
    BY <2>1, <2>2, <2>3
<1>9. CASE UNCHANGED vars
  BY <1>2, <1>9 DEF vars, Handing
<1> QED
  BY <1>4, <1>5, <1>6, <1>7, <1>8, <1>9 DEF Next

LEMMA FreedForever == [Next]_vars /\ freed => freed'
<1> SUFFICES ASSUME [Next]_vars, freed PROVE freed'
  OBVIOUS
<1> USE DEF history, hal
<1>1. CASE Client
  BY <1>1 DEF Client, ClientStart, StoreStopped, StoreDraining, ClientStop, ClientSubmit,
              ClientDestroy, ClientNotify
<1>2. ASSUME NEW u \in Units, CallbackBegin(u) \/ CallbackContinue(u) PROVE freed'
  BY <1>2 DEF CallbackBegin, CallbackContinue, RenderOutput, RenderInputOnly,
              RenderInputDuplex, CheckDrain, CallbackSwap, CallbackNotify,
              CallbackSubmit, CallbackSwapPending
<1>3. ASSUME NEW kind \in EventKinds, DeviceEvent(kind) PROVE freed'
  BY <1>3 DEF DeviceEvent
<1>4. CASE Listener
  BY <1>4 DEF Listener, ListenerBegin, ListenerDead, ListenerSwapPending, ListenerSubmit
<1>5. CASE Worker
  BY <1>5 DEF Worker, BeginTask, TaskDone, StopUnits, UnitsStopped, StartUnits,
     RestoreStopped, RestoreDraining, CheckStopped, RecheckStopped, Close, Closed,
     LookUpDevice, Setup, Restart, ClearDelayed, NotifyError, ClearSwitching,
     ClearPending, Uninstall, DestroySwap, Release
<1>6. CASE UNCHANGED vars
  BY <1>6 DEF vars
<1> QED
  BY <1>1, <1>2, <1>3, <1>4, <1>5, <1>6 DEF Next

LEMMA HoldersCounted ==
    ASSUME OneReinit
    PROVE  Cardinality(ReinitHolders) = IF reinitPending THEN 1 ELSE 0
<1>1. ReinitHolders =
          {<<"callback", u>> : u \in {v \in Units : Handing(v)}}
          \cup (IF lpc = "submitReinit" THEN {<<"listener">>} ELSE {})
          \cup {<<"queue", i>> : i \in {j \in DOMAIN tasks : Queued(j)}}
          \cup (IF Executed THEN {<<"worker">>} ELSE {})
  BY DEF ReinitHolders, Handing, Queued, Executed
<1>2. CASE ~reinitPending
  <2>1. ReinitHolders = {}
    BY <1>1, <1>2 DEF OneReinit
  <2> QED
    BY <1>2, <2>1, FS_EmptySet
<1>3. CASE reinitPending
  <2>1. \E h : ReinitHolders = {h}
    <3>1. CASE lpc = "submitReinit"
      <4>1. ReinitHolders = {<<"listener">>}
        BY <1>1, <3>1 DEF OneReinit
      <4> QED
        BY <4>1
    <3>2. CASE Executed
      <4>1. ReinitHolders = {<<"worker">>}
        BY <1>1, <3>2 DEF OneReinit
      <4> QED
        BY <4>1
    <3>3. ASSUME NEW u \in Units, Handing(u) PROVE \E h : ReinitHolders = {h}
      <4>1. {v \in Units : Handing(v)} = {u}
        BY <3>3 DEF OneReinit
      <4>2. lpc # "submitReinit" /\ ~Executed /\ {j \in DOMAIN tasks : Queued(j)} = {}
        BY <3>3 DEF OneReinit
      <4>3. ReinitHolders = {<<"callback", u>>}
        BY <1>1, <4>1, <4>2
      <4> QED
        BY <4>3
    <3>4. ASSUME NEW i \in DOMAIN tasks, Queued(i) PROVE \E h : ReinitHolders = {h}
      <4>1. {j \in DOMAIN tasks : Queued(j)} = {i}
        BY <3>4 DEF OneReinit
      <4>2. lpc # "submitReinit" /\ ~Executed /\ {v \in Units : Handing(v)} = {}
        BY <3>4 DEF OneReinit
      <4>3. ReinitHolders = {<<"queue", i>>}
        BY <1>1, <4>1, <4>2
      <4> QED
        BY <4>3
    <3> QED
      BY <1>3, <3>1, <3>2, <3>3, <3>4 DEF OneReinit
  <2> QED
    BY <1>3, <2>1, FS_Singleton
<1> QED
  BY <1>2, <1>3

LEMMA Reinits == Spec => [](freed \/ OneReinit)
<1>1. Init => OneReinit
  BY DEF Init, OneReinit, Handing, Executed
<1> DEFINE Kept == freed \/ OneReinit
<1>2. Init => Kept
  BY <1>1
<1>3. IInv /\ Kept /\ [Next]_vars => Kept'
  BY OneReinitStep, FreedForever DEF IInv
<1> HIDE DEF Kept
<1>4. Spec => []Kept
  BY <1>2, <1>3, Invariance, PTL DEF Spec
<1> QED
  BY <1>4 DEF Kept

(* However many notifications and callbacks ask for one, there is one reinit   *)
(* task from the setting of reinit_pending to its clearing, and none without.  *)
THEOREM OneReinitTask == Spec => []OneReinitWhilePending
<1>1. freed \/ OneReinit => OneReinitWhilePending
  BY HoldersCounted DEF OneReinitWhilePending
<1> QED
  BY <1>1, Reinits, PTL

-----------------------------------------------------------------------------
(* The one end of a stream that has been started is to come while the stream   *)
(* is live, and then lies with the thread or the task that ended it.           *)
Live == ~stopped \/ cpc = "storeStopped"
Notifying(u) == cb[u] \in {"notifyDrained", "notifyError"}
Dying(i) == tasks[i] = "dead"
Closing == task = "dead" /\ wpc \notin {"clearSwitching", "finish"}
Stopping == cpc \in {"submitStop", "inStop", "notifyStopped"}

NoneNotifying == \A u \in Units : ~Notifying(u)
NoneDying == \A i \in DOMAIN tasks : ~Dying(i)

Awaited ==
    Live \/ Stopping \/ Closing \/ lpc = "submitDead" \/ ~NoneDying \/ ~NoneNotifying

(* destroy ends the stream and tells nobody. *)
Destroying == cpc \in {"inDestroy", "gone"}

OneEnd ==
    /\ EndsDue \in {0, 1}
    /\ Awaited => EndsDue = 1
    /\ Awaited \/ Destroying \/ EndsDue = 0
    /\ \A u, v \in Units : Notifying(u) /\ Notifying(v) => u = v
    /\ \A i, j \in DOMAIN tasks : Dying(i) /\ Dying(j) => i = j
    /\ ~NoneDying => NoneNotifying
    /\ lpc = "submitDead" => NoneDying /\ NoneNotifying
    /\ Closing => lpc # "submitDead" /\ NoneDying /\ NoneNotifying
    /\ Stopping => ~Closing /\ lpc # "submitDead" /\ NoneDying /\ NoneNotifying
    /\ Live => ~Stopping /\ ~Closing /\ lpc # "submitDead" /\ NoneDying /\ NoneNotifying

(* The counts on which EndsDue depends. *)
counts == <<starts, undoneStarts, ends, reopenErrors>>

LEMMA OneEndStep ==
    ASSUME TypeOK, ClientWaits, FinalIsLast, NobodyEnds, NobodyEnds', OneEnd, [Next]_vars
    PROVE  OneEnd'
<1> USE DEF flags, device, worker, client, hal, history
<1>0. /\ ends \in Nat /\ starts \in Nat /\ undoneStarts \in Nat /\ reopenErrors \in Nat
      /\ cb \in [Units -> CallbackPCs]
  BY DEF TypeOK
(* Nobody new can report an end, and whoever had one to report still has. *)
<1>1. ASSUME EndsDue' = EndsDue, Live' => Live, Stopping' => Stopping,
             Closing' => Closing, lpc' = "submitDead" => lpc = "submitDead",
             \A u \in Units : Notifying(u)' => Notifying(u),
             UNCHANGED tasks \/ \E t \in Tasks \ {"dead"} : Submit(t),
             Destroying' \/ (Awaited => Awaited'), Destroying => Destroying'
      PROVE  OneEnd'
  <2>1. /\ \A i, j \in DOMAIN tasks' : Dying(i)' /\ Dying(j)' => i = j
        /\ NoneDying => NoneDying'
    <3>1. CASE UNCHANGED tasks
      BY <3>1 DEF OneEnd, Dying, NoneDying
    <3>2. CASE \E t \in Tasks \ {"dead"} : Submit(t)
      <4>1. \A i \in DOMAIN tasks' : Dying(i)' => i \in DOMAIN tasks /\ Dying(i)
        BY <3>2, Submitted DEF Dying
      <4> QED
        BY <4>1 DEF OneEnd, NoneDying
    <3> QED
      BY <1>1, <3>1, <3>2
  <2>2. NoneNotifying => NoneNotifying'
    BY <1>1 DEF NoneNotifying
  <2>3. Awaited' => Awaited
    BY <1>1, <2>1, <2>2 DEF Awaited
  <2>4. /\ EndsDue' \in {0, 1}
        /\ Awaited' => EndsDue' = 1
        /\ Awaited' \/ Destroying' \/ EndsDue' = 0
    BY <1>1, <2>3 DEF OneEnd
  <2> QED
    BY <1>1, <2>1, <2>2, <2>4 DEF OneEnd
<1>2. ASSUME UNCHANGED counts, UNCHANGED <<task, wpc, lpc>>,
             Live' <=> Live, Stopping' <=> Stopping,
             \A u \in Units : Notifying(u)' <=> Notifying(u),
             UNCHANGED tasks \/ \E t \in Tasks \ {"dead"} : Submit(t),
             Destroying => Destroying'
      PROVE  OneEnd'
  <2>1. EndsDue' = EndsDue /\ (Closing' <=> Closing)
    BY <1>2 DEF EndsDue, Closing, counts
  <2>2. ~NoneDying => ~NoneDying'
    BY <1>2, Submitted DEF NoneDying, Dying
  <2>3. NoneNotifying' <=> NoneNotifying
    BY <1>2 DEF NoneNotifying
  <2>4. Awaited => Awaited'
    BY <1>2, <2>1, <2>2, <2>3 DEF Awaited
  <2> QED
    BY <1>1, <1>2, <2>1, <2>4
(* A live stream has been ended by one thread, that has yet to report it. *)
<1>3. ASSUME Live, ~Live', UNCHANGED counts, UNCHANGED <<task, wpc, tasks>>,
             \/ Stopping' /\ lpc' # "submitDead" /\ NoneNotifying'
             \/ ~Stopping' /\ lpc' = "submitDead" /\ NoneNotifying'
             \/ /\ ~Stopping' /\ lpc' # "submitDead" /\ ~NoneNotifying'
                /\ \A u, v \in Units : Notifying(u)' /\ Notifying(v)' => u = v
      PROVE  OneEnd'
  <2>1. ~Closing' /\ NoneDying' /\ EndsDue = 1
    BY <1>3 DEF OneEnd, Awaited, Closing, NoneDying, Dying
  <2>2. EndsDue' = 1 /\ Awaited'
    BY <1>3, <2>1 DEF EndsDue, Awaited, counts
  <2> QED
    BY <1>3, <2>1, <2>2 DEF OneEnd, NoneNotifying, NoneDying
(* An end has been reported, or undone by a start that failed: none is to come. *)
<1>4. ASSUME EndsDue' = EndsDue - 1, Awaited, ~Live', ~Stopping',
             ~Closing', lpc' # "submitDead", NoneDying', NoneNotifying'
      PROVE  OneEnd'
  <2>1. EndsDue' = 0
    BY <1>4 DEF OneEnd
  <2>2. ~Awaited'
    BY <1>4 DEF Awaited
  <2> QED
    BY <1>4, <2>1, <2>2 DEF OneEnd, NoneDying, NoneNotifying
<1>5. CASE Client
  <2>1. CASE ClientStart
    <3>1. cpc = "idle" /\ cpc' = "storeStopped" /\ stopped /\ EndsDue' = EndsDue + 1
      BY <1>0, <2>1 DEF ClientStart, EndsDue, NobodyEnds
    <3>2. ~Ending'
      BY <3>1 DEF NobodyEnds
    <3>3. /\ ~Stopping' /\ ~Closing' /\ lpc' # "submitDead" /\ NoneDying'
          /\ NoneNotifying'
      BY <3>1, <3>2 DEF Ending, Ender, EndTasks, Stopping, Closing, NoneDying, Dying,
                        NoneNotifying, Notifying
    <3>4. ~Awaited
      BY <2>1, <3>1, <3>3
      DEF ClientStart, Awaited, Live, Stopping, Closing, NoneDying, Dying, NoneNotifying,
          Notifying
    <3>5. EndsDue' = 1 /\ Awaited'
      BY <3>1, <3>4 DEF OneEnd, Destroying, Awaited, Live
    <3> QED
      BY <3>3, <3>5 DEF OneEnd, NoneDying, NoneNotifying
  <2>2. CASE StoreStopped \/ StoreDraining
    <3>1. Live' <=> Live
      BY <2>2 DEF StoreStopped, StoreDraining, Live, NobodyEnds
    <3> QED
      BY <1>2, <2>2, <3>1
      DEF StoreStopped, StoreDraining, Stopping, Notifying, Destroying, counts
  <2>3. CASE ClientStop
    <3>1. CASE stopped
      BY <1>2, <2>3, <3>1 DEF ClientStop, Live, Stopping, Notifying, Destroying, counts
    <3>2. CASE ~stopped
      <4>1. Live /\ ~Live' /\ Stopping'
        BY <2>3, <3>2 DEF ClientStop, Live, Stopping
      <4>2. lpc' # "submitDead" /\ NoneNotifying'
        BY <2>3, <4>1 DEF ClientStop, OneEnd, NoneNotifying, Notifying
      <4> QED
        BY <1>3, <2>3, <4>1, <4>2 DEF ClientStop, counts
    <3> QED
      BY <3>1, <3>2
  <2>4. CASE ClientSubmit \/ ClientDestroy
    <3>1. \E t \in Tasks \ {"dead"} : Submit(t)
      BY <2>4 DEF ClientSubmit, ClientDestroy, Tasks
    <3>2. (Live' <=> Live) /\ (Stopping' <=> Stopping)
      BY <2>4 DEF ClientSubmit, ClientDestroy, Live, Stopping
    <3> QED
      BY <1>2, <2>4, <3>1, <3>2
      DEF ClientSubmit, ClientDestroy, Notifying, Destroying, counts
  <2>5. CASE ClientNotify
    <3>1. CASE cpc = "notifyStarted"
      BY <1>2, <2>5, <3>1 DEF ClientNotify, Live, Stopping, Notifying, Destroying, counts
    <3>2. CASE cpc = "notifyStopped"
      <4>1. Stopping /\ ~Live /\ Awaited
        BY <3>2 DEF Stopping, OneEnd, Awaited
      <4>2. ~Live' /\ ~Stopping'
        BY <2>5, <3>2, <4>1 DEF ClientNotify, Live, Stopping
      <4>3. ~Closing' /\ lpc' # "submitDead" /\ NoneDying' /\ NoneNotifying'
        BY <2>5, <4>1 DEF ClientNotify, OneEnd, Closing, NoneDying, Dying,
                          NoneNotifying, Notifying
      <4>4. EndsDue' = EndsDue - 1
        BY <1>0, <2>5, <3>2 DEF ClientNotify, EndsDue
      <4> QED
        BY <1>4, <4>1, <4>2, <4>3, <4>4
    <3> QED
      BY <2>5, <3>1, <3>2 DEF ClientNotify
  <2> QED
    BY <1>5, <2>1, <2>2, <2>3, <2>4, <2>5 DEF Client
<1>6. ASSUME NEW u \in Units, CallbackBegin(u) \/ CallbackContinue(u) PROVE OneEnd'
  <2>1. CASE CallbackSwap(u)
    <3>1. CASE stopped
      <4>1. \A v \in Units : Notifying(v)' <=> Notifying(v)
        BY <1>0, <2>1, <3>1 DEF CallbackSwap, Notifying
      <4> QED
        BY <1>2, <2>1, <3>1, <4>1 DEF CallbackSwap, Live, Stopping, Destroying, counts
    <3>2. CASE ~stopped
      <4>0. Live /\ cpc # "storeStopped"
        BY <3>2 DEF Live, NobodyEnds
      <4>1. ~Live' /\ ~Stopping' /\ lpc' # "submitDead"
        BY <2>1, <4>0 DEF CallbackSwap, Live, Stopping, OneEnd
      <4>2. \A v \in Units : Notifying(v)' => v = u
        BY <1>0, <2>1, <4>0 DEF CallbackSwap, Notifying, OneEnd, NoneNotifying
      <4>3. ~NoneNotifying'
        BY <1>0, <2>1, <3>2 DEF CallbackSwap, Notifying, NoneNotifying
      <4> QED
        BY <1>3, <2>1, <4>0, <4>1, <4>2, <4>3 DEF CallbackSwap, counts
    <3> QED
      BY <3>1, <3>2
  <2>2. CASE CallbackNotify(u)
    <3>1. Notifying(u) /\ ~NoneNotifying /\ Awaited
      BY <2>2 DEF CallbackNotify, Notifying, NoneNotifying, Awaited
    <3>2. ~Live /\ ~Stopping /\ ~Closing /\ lpc # "submitDead" /\ NoneDying
      BY <3>1 DEF OneEnd
    <3>3. NoneNotifying'
      BY <1>0, <2>2, <3>1 DEF CallbackNotify, OneEnd, Notifying, NoneNotifying
    <3>4. ~Live' /\ ~Stopping' /\ ~Closing' /\ lpc' # "submitDead" /\ NoneDying'
      BY <2>2, <3>2 DEF CallbackNotify, Live, Stopping, Closing, NoneDying, Dying
    <3>5. EndsDue' = EndsDue - 1
      BY <1>0, <2>2 DEF CallbackNotify, EndsDue
    <3> QED
      BY <1>4, <3>1, <3>3, <3>4, <3>5
  <2>3. CASE CallbackSubmit(u)
    <3>1. \E t \in Tasks \ {"dead"} : Submit(t)
      BY <2>3 DEF CallbackSubmit, Tasks
    <3>2. \A v \in Units : Notifying(v)' <=> Notifying(v)
      BY <1>0, <2>3 DEF CallbackSubmit, Notifying
    <3> QED
      BY <1>2, <2>3, <3>1, <3>2 DEF CallbackSubmit, Live, Stopping, Destroying, counts
  <2>4. CASE CallbackBegin(u) \/ CheckDrain(u) \/ CallbackSwapPending(u)
    <3>1. \A v \in Units : Notifying(v)' <=> Notifying(v)
      BY <1>0, <2>4 DEF CallbackBegin, CheckDrain, CallbackSwapPending, Notifying
    <3> QED
      BY <1>2, <2>4, <3>1
      DEF CallbackBegin, CheckDrain, CallbackSwapPending, Live, Stopping, Destroying, counts
  <2>5. CASE RenderOutput \/ RenderInputOnly \/ RenderInputDuplex
    <3>1. \A v \in Units : Notifying(v)' <=> Notifying(v)
      BY <1>0, <2>5 DEF RenderOutput, RenderInputOnly, RenderInputDuplex, Notifying
    <3> QED
      BY <1>2, <2>5, <3>1
      DEF RenderOutput, RenderInputOnly, RenderInputDuplex, Live, Stopping, Destroying, counts
  <2> QED
    BY <1>6, <2>1, <2>2, <2>3, <2>4, <2>5 DEF CallbackContinue
<1>7. ASSUME NEW kind \in EventKinds, DeviceEvent(kind) PROVE OneEnd'
  BY <1>2, <1>7 DEF DeviceEvent, Live, Stopping, Notifying, Destroying, counts
<1>8. CASE Listener
  <2>1. CASE ListenerDead
    <3>1. CASE stopped
      <4>1. UNCHANGED counts /\ UNCHANGED <<task, wpc, tasks, cb, cpc, stopped>>
        BY <2>1, <3>1 DEF ListenerDead, counts
      <4>2. lpc # "submitDead" /\ lpc' # "submitDead"
        BY <2>1, <3>1 DEF ListenerDead
      <4>3. /\ EndsDue' = EndsDue /\ (Live' <=> Live) /\ (Stopping' <=> Stopping)
            /\ Closing' <=> Closing
            /\ \A u \in Units : Notifying(u)' <=> Notifying(u)
            /\ NoneNotifying' <=> NoneNotifying
            /\ NoneDying' <=> NoneDying
            /\ Destroying' <=> Destroying
        BY <4>1 DEF EndsDue, counts, Live, Stopping, Closing, Notifying, NoneNotifying,
                    Dying, NoneDying, Destroying
      <4> QED
        BY <1>1, <4>1, <4>2, <4>3 DEF Awaited
    <3>2. CASE ~stopped
      <4>0. Live /\ cpc # "storeStopped"
        BY <3>2 DEF Live, NobodyEnds
      <4>1. ~Live' /\ ~Stopping' /\ lpc' = "submitDead" /\ NoneNotifying'
        BY <2>1, <3>2, <4>0 DEF ListenerDead, Live, Stopping, OneEnd, NoneNotifying, Notifying
      <4> QED
        BY <1>3, <2>1, <4>0, <4>1 DEF ListenerDead, counts
    <3> QED
      BY <3>1, <3>2
  <2>2. CASE ListenerSubmit
    <3>0. UNCHANGED counts /\ UNCHANGED <<task, wpc, cb, cpc, stopped>>
      BY <2>2 DEF ListenerSubmit, counts
    <3>1. CASE lpc = "submitDead"
      <4>1. /\ ~Live /\ ~Stopping /\ ~Closing /\ NoneDying /\ NoneNotifying
            /\ EndsDue = 1
        BY <3>1 DEF OneEnd, Awaited
      <4>2. /\ ~Live' /\ ~Stopping' /\ ~Closing' /\ lpc' # "submitDead"
            /\ NoneNotifying' /\ EndsDue' = 1
        BY <2>2, <3>0, <4>1 DEF ListenerSubmit, Live, Stopping, Closing, NoneNotifying,
                                Notifying, EndsDue, counts
      <4>3. Submit("dead") /\ "dead" \in Tasks
        BY <2>2, <3>1 DEF ListenerSubmit, Tasks
      <4>4. /\ \A i \in DOMAIN tasks' : Dying(i)' => i = Len(tasks) + 1
            /\ ~NoneDying'
        BY <4>1, <4>3, Submitted DEF Dying, NoneDying
      <4> QED
        BY <4>2, <4>4 DEF OneEnd, NoneNotifying, Awaited
    <3>2. CASE lpc # "submitDead"
      <4>1. /\ lpc' # "submitDead"
            /\ \E t \in Tasks \ {"dead"} : Submit(t)
        BY <2>2, <3>2 DEF ListenerSubmit, Tasks
      <4>2. ~NoneDying => ~NoneDying'
        BY <4>1, Submitted DEF NoneDying, Dying
      <4>3. /\ EndsDue' = EndsDue /\ (Live' <=> Live) /\ (Stopping' <=> Stopping)
            /\ Closing' <=> Closing
            /\ \A u \in Units : Notifying(u)' <=> Notifying(u)
            /\ NoneNotifying' <=> NoneNotifying
            /\ Destroying' <=> Destroying
        BY <3>0 DEF EndsDue, counts, Live, Stopping, Closing, Notifying, NoneNotifying,
                    Destroying
      <4> QED
        BY <1>1, <3>2, <4>1, <4>2, <4>3 DEF Awaited
    <3> QED
      BY <3>1, <3>2
  <2>3. CASE ListenerBegin \/ ListenerSwapPending
    <3>0. notices \in Seq({"change", "dead"})
      BY DEF TypeOK
    <3>1. lpc # "submitDead" /\ lpc' # "submitDead"
      BY <2>3, <3>0 DEF ListenerBegin, ListenerSwapPending
    <3>2. UNCHANGED counts /\ UNCHANGED <<task, wpc, tasks, cb, cpc, stopped>>
      BY <2>3 DEF ListenerBegin, ListenerSwapPending, counts
    <3>3. /\ EndsDue' = EndsDue /\ (Live' <=> Live) /\ (Stopping' <=> Stopping)
          /\ Closing' <=> Closing
          /\ \A u \in Units : Notifying(u)' <=> Notifying(u)
          /\ NoneNotifying' <=> NoneNotifying
          /\ NoneDying' <=> NoneDying
          /\ Destroying' <=> Destroying
      BY <3>2 DEF EndsDue, counts, Live, Stopping, Closing, Notifying, NoneNotifying,
                  Dying, NoneDying, Destroying
    <3> QED
      BY <1>1, <3>1, <3>2, <3>3 DEF Awaited
  <2> QED
    BY <1>8, <2>1, <2>2, <2>3 DEF Listener
<1>9. CASE Worker
  <2>1. CASE BeginTask
    <3>0. wpc = "idle" => task = "none"
      BY StepsOfTasks DEF TypeOK, Tasks
    <3>1. /\ task = "none"
          /\ \/ freed /\ task' = task
             \/ ~freed /\ task' = tasks[1] /\ wpc' = FirstStep(tasks[1])
          /\ UNCHANGED counts /\ UNCHANGED <<stopped, cpc, lpc, cb>>
      BY <2>1, <3>0, Taken DEF BeginTask, counts
    <3>2. /\ Closing' => Dying(1)
          /\ ~Closing
          /\ Dying(1) => freed \/ Closing'
      BY <3>1 DEF Closing, Dying, FirstStep
    <3>3. /\ \A i \in DOMAIN tasks' : i + 1 \in DOMAIN tasks /\ i + 1 # 1
                                       /\ (Dying(i)' <=> Dying(i + 1))
          /\ 1 \in DOMAIN tasks
      BY <2>1, Taken DEF Dying
    <3>4. \A i, j \in DOMAIN tasks' : i + 1 = j + 1 => i = j
      BY <2>1, Taken
    <3>5. /\ \A i, j \in DOMAIN tasks' : Dying(i)' /\ Dying(j)' => i = j
          /\ Closing' => NoneDying' /\ ~NoneDying
          /\ NoneDying => NoneDying'
      BY <3>2, <3>3, <3>4 DEF OneEnd, NoneDying
    <3>6. ~NoneDying => ~NoneDying' \/ freed \/ Closing'
      <4>1. \A i \in DOMAIN tasks : i = 1 \/ (i - 1 \in DOMAIN tasks' /\ (i - 1) + 1 = i)
        BY <2>1, Taken
      <4> QED
        BY <3>2, <3>3, <4>1 DEF NoneDying
    <3>7. /\ Live' <=> Live
          /\ Stopping' <=> Stopping
          /\ NoneNotifying' <=> NoneNotifying
          /\ \A u \in Units : Notifying(u)' <=> Notifying(u)
          /\ EndsDue' = EndsDue
          /\ Destroying' <=> Destroying
      BY <3>1 DEF Live, Stopping, NoneNotifying, Notifying, EndsDue, counts, Destroying
    <3>8. freed => Destroying
      BY DEF FinalIsLast, Destroying
    <3>9. /\ EndsDue' \in {0, 1}
          /\ Awaited' => EndsDue' = 1
          /\ Awaited' \/ Destroying' \/ EndsDue' = 0
      BY <3>1, <3>2, <3>5, <3>6, <3>7, <3>8 DEF OneEnd, Awaited
    <3> QED
      BY <3>1, <3>5, <3>7, <3>9 DEF OneEnd
  <2>2. CASE TaskDone
    <3>1. /\ Live' <=> Live
          /\ Stopping' <=> Stopping
          /\ ~Closing' /\ ~Closing
          /\ Destroying => Destroying'
      BY <2>2 DEF TaskDone, Goto, Live, Stopping, Closing, Destroying, ClientWaits,
                  SyncTasks, WaitsIn
    <3>2. /\ EndsDue' = EndsDue /\ UNCHANGED <<tasks, lpc>>
          /\ \A u \in Units : Notifying(u)' <=> Notifying(u)
          /\ NoneNotifying' <=> NoneNotifying
          /\ NoneDying' <=> NoneDying
      BY <2>2 DEF TaskDone, EndsDue, Notifying, NoneNotifying, Dying, NoneDying
    <3> QED
      BY <1>1, <3>1, <3>2 DEF Awaited
  <2>3. CASE NotifyError
    <3>0. UNCHANGED <<stopped, cpc, lpc, cb, tasks, task, starts, undoneStarts>>
      BY <2>3 DEF NotifyError
    <3>1. CASE task = "dead"
      <4>1. Closing /\ Awaited
        BY <2>3, <3>1 DEF NotifyError, Goto, Closing, Awaited
      <4>2. ~Live /\ ~Stopping /\ lpc # "submitDead" /\ NoneDying /\ NoneNotifying
        BY <4>1 DEF OneEnd
      <4>3. /\ ~Live' /\ ~Stopping' /\ ~Closing' /\ lpc' # "submitDead" /\ NoneDying'
            /\ NoneNotifying'
        BY <2>3, <3>0, <4>2 DEF NotifyError, Goto, Live, Stopping, Closing, NoneDying, Dying,
                          NoneNotifying, Notifying
      <4>4. EndsDue' = EndsDue - 1
        BY <1>0, <2>3, <3>0, <3>1 DEF NotifyError, EndsDue
      <4> QED
        BY <1>4, <4>1, <4>3, <4>4
    <3>2. CASE task # "dead"
      <4>1. EndsDue' = EndsDue
        BY <1>0, <2>3, <3>0, <3>2 DEF NotifyError, EndsDue
      <4>2. /\ Live' <=> Live
            /\ Stopping' <=> Stopping
            /\ ~Closing' /\ ~Closing
            /\ \A u \in Units : Notifying(u)' <=> Notifying(u)
            /\ NoneNotifying' <=> NoneNotifying
            /\ NoneDying' <=> NoneDying
            /\ Destroying' <=> Destroying
        BY <3>0, <3>2 DEF Live, Stopping, Closing, Notifying, NoneNotifying, Dying,
                          NoneDying, Destroying
      <4> QED
        BY <1>1, <3>0, <4>1, <4>2 DEF Awaited
    <3> QED
      BY <3>1, <3>2
  <2>4. CASE RestoreStopped
    <3>0. /\ UNCHANGED <<cpc, lpc, cb, tasks, task, starts, ends, reopenErrors>>
          /\ stopped' = TRUE /\ task = "start" /\ cpc = "inStart"
      BY <2>4, StepsOfTasks DEF RestoreStopped, NobodyEnds, TypeOK, Tasks, ClientWaits,
                                SyncTasks, WaitsIn, Goto
    <3>1. /\ Stopping' <=> Stopping
          /\ ~Closing' /\ ~Closing
          /\ \A u \in Units : Notifying(u)' <=> Notifying(u)
          /\ NoneNotifying' <=> NoneNotifying
          /\ NoneDying' <=> NoneDying
          /\ Destroying' <=> Destroying
          /\ ~Live'
      BY <3>0 DEF Live, Stopping, Closing, Notifying, NoneNotifying, Dying, NoneDying,
                  Destroying
    <3>2. CASE stopped
      <4>1. EndsDue' = EndsDue /\ ~Live
        BY <2>4, <3>0, <3>2 DEF RestoreStopped, EndsDue, Live
      <4> QED
        BY <1>1, <3>0, <3>1, <4>1 DEF Awaited
    <3>3. CASE ~stopped
      <4>1. Live /\ Awaited
        BY <3>3 DEF Live, Awaited
      <4>2. ~Stopping /\ lpc # "submitDead" /\ NoneDying /\ NoneNotifying
        BY <4>1 DEF OneEnd
      <4>3. EndsDue' = EndsDue - 1
        BY <1>0, <2>4, <3>0, <3>3 DEF RestoreStopped, EndsDue
      <4> QED
        BY <1>4, <3>0, <3>1, <4>1, <4>2, <4>3
    <3> QED
      BY <3>2, <3>3
  <2>5. CASE DestroySwap
    <3>0. /\ UNCHANGED counts /\ UNCHANGED <<cpc, lpc, cb, tasks, task>>
          /\ stopped' /\ task = "final" /\ Destroying
      BY <2>5, StepsOfTasks DEF DestroySwap, TypeOK, Tasks, ClientWaits, SyncTasks, WaitsIn,
                                Goto, Destroying, counts
    <3>1. /\ EndsDue' = EndsDue
          /\ Live' => Live
          /\ Stopping' <=> Stopping
          /\ ~Closing' /\ ~Closing
          /\ \A u \in Units : Notifying(u)' <=> Notifying(u)
          /\ Destroying'
      BY <3>0 DEF EndsDue, counts, Live, Stopping, Closing, Notifying, Destroying
    <3> QED
      BY <1>1, <3>0, <3>1
  <2>6. CASE ~(BeginTask \/ TaskDone \/ NotifyError \/ RestoreStopped \/ DestroySwap)
    <3>1. UNCHANGED counts /\ UNCHANGED <<stopped, cb, lpc, cpc, tasks, task>>
      BY <1>9, <2>6 DEF Worker, StopUnits, UnitsStopped, StartUnits,
         RestoreDraining, CheckStopped, RecheckStopped, Close, Closed, LookUpDevice,
         Setup, Restart, ClearDelayed, ClearSwitching, ClearPending, Uninstall,
         Release, counts
    <3>2. Closing' => Closing
      <4>1. CASE wpc = "clearSwitching"
        BY <1>9, <2>6, <3>1, <4>1 DEF Closing, Goto, Worker, StopUnits, UnitsStopped,
           StartUnits, RestoreDraining, CheckStopped, RecheckStopped,
           Close, Closed, LookUpDevice, Setup, Restart, ClearDelayed, ClearSwitching,
           ClearPending, Uninstall, Release
      <4>2. wpc # "finish"
        BY <1>9, <2>6 DEF Goto, Worker, StopUnits, UnitsStopped, StartUnits,
           RestoreDraining, CheckStopped, RecheckStopped, Close, Closed,
           LookUpDevice, Setup, Restart, ClearDelayed, ClearSwitching, ClearPending,
           Uninstall, Release
      <4> QED
        BY <3>1, <4>1, <4>2 DEF Closing
    <3>3. Closing => Closing'
      <4>1. ASSUME task = "dead", wpc \notin {"clearSwitching", "finish"}
            PROVE  wpc' \notin {"clearSwitching", "finish"}
        <5>1. wpc \in {"stopUnits", "waitCallbacks", "close", "waitClosed", "notifyError"}
          BY <4>1, StepsOfTasks DEF TypeOK, Tasks
        <5>2. StopUnits \/ UnitsStopped \/ Close \/ Closed
          BY <1>9, <2>6, <5>1 DEF Worker, Goto, StartUnits, RestoreDraining, CheckStopped,
             RecheckStopped, LookUpDevice, Setup, Restart, ClearDelayed, ClearSwitching,
             ClearPending, Uninstall, Release, NotifyError
        <5> QED
          BY <4>1, <5>1, <5>2 DEF StopUnits, UnitsStopped, Close, Closed, Goto
      <4> QED
        BY <3>1, <4>1 DEF Closing
    <3>4. /\ EndsDue' = EndsDue /\ (Live' <=> Live) /\ (Stopping' <=> Stopping)
          /\ \A u \in Units : Notifying(u)' <=> Notifying(u)
          /\ NoneNotifying' <=> NoneNotifying
          /\ NoneDying' <=> NoneDying
          /\ Destroying' <=> Destroying
      BY <3>1 DEF EndsDue, counts, Live, Stopping, Notifying, NoneNotifying,
                  Dying, NoneDying, Destroying
    <3> QED
      BY <1>1, <3>1, <3>2, <3>3, <3>4 DEF Awaited
  <2> QED
    BY <2>1, <2>2, <2>3, <2>4, <2>5, <2>6
<1>10. CASE UNCHANGED vars
  BY <1>2, <1>10 DEF vars, Live, Stopping, Notifying, Destroying, counts
<1> QED
  BY <1>5, <1>6, <1>7, <1>8, <1>9, <1>10 DEF Next

(* The client is told of one end for each start, whoever decides to end the    *)
(* stream: itself, a callback that drains or fails, or the death of a device;  *)
(* of none twice, and when everything has settled of each that has come.  A    *)
(* reinit task that fails adds an Error of its own, which leaves the end of    *)
(* the start still to be told.                                                 *)
THEOREM EndsOncePerStart == ASSUME ~RestartEarly PROVE Spec => []EndsMatchStarts
<1>1. Init => NobodyEnds /\ OneEnd
  BY DEF Init, NobodyEnds, Ending, Ender, EndTasks, OneEnd, Awaited, EndsDue, Live, Stopping,
         Closing, NoneDying, Dying, NoneNotifying, Notifying
<1>2. IInv /\ NobodyEnds /\ OneEnd /\ [Next]_vars => NobodyEnds' /\ OneEnd'
  BY NobodyEndsStep, OneEndStep DEF IInv
<1>3. TypeOK /\ OneEnd => EndsMatchStarts
  <2> SUFFICES ASSUME TypeOK, OneEnd PROVE EndsMatchStarts
    OBVIOUS
  <2>1. ASSUME Quiet PROVE EndsDue = IF stopped THEN 0 ELSE 1
    <3>1. task = "none" /\ cpc = "idle" /\ lpc = "idle" /\ DOMAIN tasks = {}
      BY <2>1, StepsOfTasks DEF Quiet, TypeOK, Tasks
    <3>2. ~Stopping /\ ~Closing /\ NoneDying /\ NoneNotifying /\ ~Destroying
      BY <2>1, <3>1 DEF Quiet, CallbacksDone, Stopping, Closing, NoneDying, NoneNotifying,
                        Notifying, Destroying
    <3>3. Awaited <=> ~stopped
      BY <3>1, <3>2 DEF Awaited, Live
    <3> QED
      BY <3>2, <3>3 DEF OneEnd
  <2> QED
    BY <2>1 DEF OneEnd, EndsMatchStarts
<1>4. IInv => TypeOK
  BY DEF IInv
<1> QED
  BY <1>1, <1>2, <1>3, <1>4, Invariance, PTL DEF Spec

-----------------------------------------------------------------------------
(* What the tasks of a stream ask of its core.                                *)

(* A setup that fails in a start task may leave a stream with units and       *)
(* without listeners.                                                         *)
Half == Opened /\ ~listening /\ task # "final"

ReinitPlaces == {"checkStopped", "stopUnits", "waitCallbacks", "recheckStopped", "close",
                 "waitClosed", "lookup", "setup", "restart", "clearDelayed"}

(* Nobody can stop or start such a stream before its next start has closed    *)
(* it: that one has been delayed by a reinit, and finds the stream unstopped. *)
HalfIsDelayed ==
    Half =>
        \/ task = "reinit" /\ wpc = "close"
        \/ /\ ~Running /\ CallbacksDone /\ lpc = "idle" /\ delayedReinit
           /\ wpc \notin {"startUnits", "clearDelayed"}
           /\ cpc \in {"storeDraining", "submitStart", "inStart"} =>
                 \/ ~stopped
                 \/ task = "start" /\ wpc \in {"restoreStopped", "restoreDraining", "finish"}

WholeInv ==
    /\ Opened => \A u \in Units : unit[u] # "null"
    /\ listening => Opened
    /\ wpc \in {"lookup", "setup"} => ~Opened /\ CallbacksDone /\ lpc = "idle"
    /\ wpc = "restart" => listening
    /\ task = "final" /\ wpc = "finish" => ~Opened
    /\ task = "start" /\ wpc \in ReinitPlaces => delayedReinit
    /\ HalfIsDelayed

LEMMA WholeElsewhere ==
    ASSUME WholeInv, UNCHANGED <<unit, listening, task, wpc, cb, lpc, delayedReinit>>,
           \/ cpc' \notin {"storeDraining", "submitStart", "inStart"} \/ ~stopped'
           \/ stopped' = stopped /\ cpc \in {"storeDraining", "submitStart", "inStart"}
    PROVE  WholeInv'
<1>1. HalfIsDelayed'
  BY DEF WholeInv, HalfIsDelayed, Half, Opened, Running, CallbacksDone
<1> QED
  BY <1>1 DEF WholeInv, Opened, CallbacksDone

(* Other threads do nothing to a stream that is set up, or left by half.      *)
LEMMA WholeBusy ==
    ASSUME WholeInv, UNCHANGED <<unit, listening, task, wpc, delayedReinit>>,
           \/ cb # [u \in Units |-> "idle"] /\ cb \in [Units -> CallbackPCs]
           \/ lpc # "idle" \/ listening \/ Running
    PROVE  WholeInv'
<1>1. wpc \notin {"lookup", "setup"} /\ (Half => task = "reinit" /\ wpc = "close")
  BY DEF WholeInv, HalfIsDelayed, Half, CallbacksDone, Opened, Running
<1> QED
  BY <1>1 DEF WholeInv, HalfIsDelayed, Half, Opened

LEMMA WholeOthers ==
    ASSUME TypeOK, WholeInv, 
           \/ Client \/ Listener
           \/ \E u \in Units : CallbackBegin(u) \/ CallbackContinue(u)
           \/ \E kind \in EventKinds : DeviceEvent(kind)
    PROVE  WholeInv'
<1> USE DEF flags, device, worker, client, hal, history
<1>1. CASE Client
  <2>1. UNCHANGED <<unit, listening, task, wpc, cb, lpc, delayedReinit>>
    BY <1>1 DEF Client, ClientStart, StoreStopped, StoreDraining, ClientStop, ClientSubmit,
                ClientDestroy, ClientNotify
  <2>2. \/ cpc' \notin {"storeDraining", "submitStart", "inStart"} \/ ~stopped'
        \/ stopped' = stopped /\ cpc \in {"storeDraining", "submitStart", "inStart"}
    BY <1>1 DEF Client, ClientStart, StoreStopped, StoreDraining, ClientStop, ClientSubmit,
                ClientDestroy, ClientNotify
  <2> QED
    BY <2>1, <2>2, WholeElsewhere
<1>2. ASSUME NEW u \in Units, CallbackBegin(u) PROVE WholeInv'
  BY <1>2, WholeBusy DEF CallbackBegin, Running
<1>3. ASSUME NEW u \in Units, CallbackContinue(u) PROVE WholeInv'
  <2>1. cb[u] # "idle" /\ UNCHANGED <<unit, listening, task, wpc, delayedReinit>>
    BY <1>3 DEF CallbackContinue, RenderOutput, RenderInputOnly, RenderInputDuplex, CheckDrain,
                CallbackSwap, CallbackNotify, CallbackSubmit, CallbackSwapPending
  <2>2. cb # [v \in Units |-> "idle"] /\ cb \in [Units -> CallbackPCs]
    BY <2>1 DEF TypeOK
  <2> QED
    BY <2>1, <2>2, WholeBusy
<1>4. ASSUME NEW kind \in EventKinds, DeviceEvent(kind) PROVE WholeInv'
  <2>1. UNCHANGED <<unit, listening, task, wpc, cb, lpc, delayedReinit, stopped, cpc>>
    BY <1>4 DEF DeviceEvent
  <2> QED
    BY <2>1, WholeElsewhere
<1>5. CASE Listener
  <2>1. UNCHANGED <<unit, listening, task, wpc, delayedReinit>> /\ (lpc # "idle" \/ listening)
    BY <1>5 DEF Listener, ListenerBegin, ListenerDead, ListenerSwapPending, ListenerSubmit
  <2> QED
    BY <2>1, WholeBusy
<1> QED
  BY <1>1, <1>2, <1>3, <1>4, <1>5

(* Worker's steps that leave the core alone. *)
LEMMA WholeTasks ==
    ASSUME TypeOK, ClientWaits, WholeInv, BeginTask \/ TaskDone
    PROVE  WholeInv'
<1> USE DEF flags, device, worker, client, hal, history
<1>1. CASE BeginTask /\ freed
  BY <1>1, WholeElsewhere DEF BeginTask
<1>2. CASE BeginTask /\ ~freed
  <2>1. /\ task = "none" /\ task' = Head(tasks) /\ task' \in Tasks /\ wpc' = FirstStep(task')
        /\ UNCHANGED <<unit, listening, cb, lpc, delayedReinit, stopped, cpc>>
    BY <1>2 DEF BeginTask, TypeOK, Tasks, Steps
  <2>2. task' = "start" => cpc = "inStart"
    <3>1. 1 \in DOMAIN tasks /\ tasks[1] = task'
      BY <1>2, <2>1 DEF BeginTask, TypeOK
    <3> QED
      BY <3>1 DEF ClientWaits, SyncTasks, WaitsIn
  <2>3. wpc' \in {"checkStopped", "stopUnits", "startUnits", "uninstall"}
            /\ (wpc' = "startUnits" => task' = "start" /\ ~delayedReinit)
            /\ (task' = "start" => wpc' \in {"startUnits", "checkStopped"})
            /\ (task' = "start" /\ wpc' # "startUnits" => delayedReinit)
    BY <2>1 DEF FirstStep, Tasks
  <2>4. HalfIsDelayed'
    BY <2>1, <2>2, <2>3 DEF WholeInv, HalfIsDelayed, Half, Opened, Running, CallbacksDone
  <2> QED
    BY <2>1, <2>3, <2>4 DEF WholeInv, Opened, ReinitPlaces
<1>3. CASE TaskDone
  <2>1. /\ wpc = "finish" /\ wpc' = "idle" /\ task' = "none"
        /\ UNCHANGED <<unit, listening, cb, lpc, delayedReinit, stopped>>
        /\ cpc' \in {"idle", "notifyStarted", "notifyStopped", "gone", cpc}
    BY <1>3 DEF TaskDone, Goto
  <2>2. task = "start" => cpc' # "inStart" /\ cpc = "inStart" /\ cpc' \in {"idle", "notifyStarted"}
    BY <1>3 DEF TaskDone, ClientWaits, SyncTasks, WaitsIn
  <2>3. task = "final" => ~Opened
    BY <2>1 DEF WholeInv
  <2>4. HalfIsDelayed'
    BY <2>1, <2>2, <2>3 DEF WholeInv, HalfIsDelayed, Half, Opened, Running, CallbacksDone
  <2> QED
    BY <2>1, <2>4 DEF WholeInv, Opened
<1> QED
  BY <1>1, <1>2, <1>3

LEMMA WholeStops ==
    ASSUME TypeOK, ClientWaits, WholeInv,
           StopUnits \/ UnitsStopped \/ CheckStopped \/ RecheckStopped \/ Uninstall
    PROVE  WholeInv'
<1> USE StepsOfTasks DEF flags, device, worker, client, hal, history, Goto
<1>1. task \in Tasks /\ wpc \in Steps(task) /\ UNCHANGED <<task, cpc, stopped, cb, lpc>>
  BY DEF StopUnits, UnitsStopped, CheckStopped, RecheckStopped, Uninstall, TypeOK
<1>2. CASE StopUnits
  <2>1. /\ \A u \in Units : unit'[u] = "null" <=> unit[u] = "null"
        /\ \A u \in Units : unit'[u] # "running"
        /\ UNCHANGED <<listening, delayedReinit>> /\ wpc = "stopUnits" /\ wpc' = "waitCallbacks"
    BY <1>2 DEF StopUnits
  <2>2. HalfIsDelayed'
    BY <1>1, <2>1 DEF WholeInv, HalfIsDelayed, Half, Opened, Running, CallbacksDone
  <2> QED
    BY <1>1, <2>1, <2>2 DEF WholeInv, Opened, ReinitPlaces
<1>3. CASE UnitsStopped \/ CheckStopped \/ RecheckStopped
  <2>1. /\ UNCHANGED <<unit, listening>> /\ (delayedReinit => delayedReinit')
        /\ wpc \in {"waitCallbacks", "checkStopped", "recheckStopped"}
        /\ wpc' \in {"finish", "recheckStopped", "close", "stopUnits", "clearDelayed", "clearSwitching"}
    BY <1>1, <1>3
    DEF UnitsStopped, CheckStopped, RecheckStopped, ReinitOk, TypeOK, Tasks
  <2>2. wpc' = "clearDelayed" => task = "start" /\ stopped /\ wpc = "recheckStopped"
    BY <1>1, <1>3
    DEF UnitsStopped, CheckStopped, RecheckStopped, ReinitOk, TypeOK, Tasks
  <2>3. (task \in {"start", "final"} => wpc' # "finish") /\ (task = "start" => cpc = "inStart")
    BY <1>1, <1>3
    DEF UnitsStopped, CheckStopped, RecheckStopped, ReinitOk, Tasks, ClientWaits, SyncTasks,
        WaitsIn
  <2>4. HalfIsDelayed'
    BY <1>1, <2>1, <2>2, <2>3 DEF WholeInv, HalfIsDelayed, Half, Opened, Running, CallbacksDone
  <2> QED
    BY <1>1, <2>1, <2>2, <2>3, <2>4 DEF WholeInv, Opened, ReinitPlaces
<1>4. CASE Uninstall
  <2>1. /\ task = "final" /\ UNCHANGED <<unit, delayedReinit>> /\ listening' = FALSE
        /\ wpc' \in {"uninstall", "swapStopped"}
    BY <1>1, <1>4 DEF Uninstall, Tasks
  <2> QED
    BY <1>1, <2>1 DEF WholeInv, HalfIsDelayed, Half, Opened
<1> QED
  BY <1>2, <1>3, <1>4

LEMMA WholeStarts ==
    ASSUME TypeOK, ClientWaits, WholeInv,
           StartUnits \/ RestoreStopped \/ RestoreDraining \/ Restart \/ ClearDelayed
    PROVE  WholeInv'
<1> USE StepsOfTasks DEF flags, device, worker, client, hal, history, Goto
<1>1. task \in Tasks /\ wpc \in Steps(task) /\ UNCHANGED <<task, cpc, cb, lpc, listening>>
  BY DEF StartUnits, RestoreStopped, RestoreDraining, Restart, ClearDelayed, TypeOK
<1>2. CASE StartUnits \/ Restart
  <2>1. \A u \in Units : unit'[u] = "null" <=> unit[u] = "null"
    <3>1. StartedUnits \in [Units -> {"null", "idle", "running"}]
            /\ \A u \in Units : StartedUnits[u] = "null" <=> unit[u] = "null"
      BY DEF StartedUnits
    <3>2. unit' = unit \/ unit' = StartedUnits
            \/ unit' = [StartedUnits EXCEPT !["output"] = unit["output"]]
      BY <1>2 DEF StartUnits, Restart, PartlyStarted
    <3> QED
      BY <3>1, <3>2
  <2>2. ~Half /\ UNCHANGED <<stopped, delayedReinit>>
    BY <1>1, <1>2 DEF StartUnits, Restart, WholeInv, HalfIsDelayed, Half
  <2>3. /\ wpc \in {"startUnits", "restart"} /\ wpc' \notin {"lookup", "setup", "restart"}
        /\ wpc' \in ReinitPlaces => wpc = "restart"
        /\ task # "final"
    BY <1>1, <1>2 DEF StartUnits, Restart, ReinitOk, ReinitErr, ReinitPlaces, Tasks
  <2>4. Opened' <=> Opened
    BY <2>1 DEF Opened
  <2>5. ~Half'
    BY <1>1, <2>2, <2>4 DEF Half
  <2> QED
    BY <1>1, <2>1, <2>2, <2>3, <2>4, <2>5 DEF WholeInv, HalfIsDelayed, Opened, ReinitPlaces
<1>3. CASE RestoreStopped \/ RestoreDraining
  <2>1. /\ UNCHANGED <<unit, delayedReinit>> /\ task = "start"
        /\ wpc \in {"restoreStopped", "restoreDraining"}
        /\ wpc' \in {"restoreDraining", "finish"}
    BY <1>1, <1>3 DEF RestoreStopped, RestoreDraining, Tasks
  <2>2. HalfIsDelayed'
    BY <1>1, <2>1 DEF WholeInv, HalfIsDelayed, Half, Opened, Running, CallbacksDone
  <2> QED
    BY <1>1, <2>1, <2>2 DEF WholeInv, Opened, ReinitPlaces
<1>4. CASE ClearDelayed
  <2>1. UNCHANGED <<unit, stopped>> /\ task = "start" /\ wpc = "clearDelayed" /\ wpc' = "finish"
    BY <1>1, <1>4 DEF ClearDelayed, Tasks
  <2> QED
    BY <1>1, <2>1 DEF WholeInv, HalfIsDelayed, Half, Opened, ReinitPlaces
<1> QED
  BY <1>2, <1>3, <1>4

LEMMA WholeReinits ==
    ASSUME TypeOK, ClientWaits, ClosedIsDown, WholeInv, Close \/ Closed \/ LookUpDevice \/ Setup
    PROVE  WholeInv'
<1> USE StepsOfTasks DEF flags, device, worker, client, hal, history, Goto
<1>1. task \in Tasks /\ wpc \in Steps(task)
        /\ UNCHANGED <<task, cpc, cb, lpc, stopped, delayedReinit>>
  BY DEF Close, Closed, LookUpDevice, Setup, TypeOK
<1>2. CASE Close
  BY <1>1, <1>2 DEF Close, WholeInv, HalfIsDelayed, Half, Opened, ReinitPlaces
<1>3. CASE Closed
  <2>1. /\ UNCHANGED <<unit, listening>> /\ ~Opened /\ CallbacksDone /\ lpc = "idle"
        /\ wpc = "waitClosed" /\ wpc' \in {"release", "notifyError", "lookup"}
    BY <1>3 DEF Closed, ClosedIsDown, Down
  <2> QED
    BY <1>1, <2>1 DEF WholeInv, HalfIsDelayed, Half, Opened, ReinitPlaces, CallbacksDone
<1>4. CASE LookUpDevice
  <2>1. /\ UNCHANGED <<unit, listening>> /\ ~Opened /\ CallbacksDone /\ lpc = "idle"
        /\ wpc = "lookup" /\ wpc' \in {"setup", "restoreStopped", "close"}
        /\ wpc' = "close" => task # "start"
    BY <1>4 DEF LookUpDevice, ReinitErr, WholeInv
  <2> QED
    BY <1>1, <2>1 DEF WholeInv, HalfIsDelayed, Half, Opened, ReinitPlaces, CallbacksDone
<1>5. CASE Setup
  <2>1. /\ ~Opened /\ CallbacksDone /\ lpc = "idle" /\ wpc = "setup" /\ ~listening
        /\ task \in {"reinit", "start"}
    BY <1>1, <1>5 DEF Setup, WholeInv, Tasks
  <2>2. /\ wpc' = "restart" => unit' = [u \in Units |-> "idle"] /\ listening'
        /\ wpc' \in {"restart", ReinitErr}
        /\ UNCHANGED device \/ unit' = [u \in Units |-> "idle"]
    BY <1>5 DEF Setup, ReinitErr
  <2>3. (Opened' => \A u \in Units : unit'[u] # "null") /\ (listening' => Opened')
    <3>1. CASE UNCHANGED device
      BY <2>1, <3>1 DEF Opened
    <3>2. CASE unit' = [u \in Units |-> "idle"]
      <4>1. \A u \in Units : unit'[u] = "idle"
        BY <3>2
      <4> QED
        BY <4>1, UnitsAssumption DEF Opened
    <3> QED
      BY <2>2, <3>1, <3>2
  <2>4. ~Running'
    BY <2>1, <2>2 DEF Running, Opened
  <2>5. HalfIsDelayed'
    BY <1>1, <2>1, <2>2, <2>4 DEF WholeInv, HalfIsDelayed, Half, CallbacksDone, ReinitErr,
                                  ReinitPlaces
  <2> QED
    BY <1>1, <2>1, <2>2, <2>3, <2>5 DEF WholeInv, ReinitErr, ReinitPlaces
<1> QED
  BY <1>2, <1>3, <1>4, <1>5

LEMMA WholeEnds ==
    ASSUME TypeOK, ClosedIsDown, WholeInv,
           NotifyError \/ ClearSwitching \/ ClearPending \/ DestroySwap \/ Release
    PROVE  WholeInv'
<1> USE StepsOfTasks DEF flags, device, worker, client, hal, history, Goto
<1>1. /\ task \in Tasks /\ wpc \in Steps(task)
      /\ UNCHANGED <<task, cpc, cb, lpc, delayedReinit, unit, listening>>
  BY DEF NotifyError, ClearSwitching, ClearPending, DestroySwap, Release, TypeOK
<1>2. CASE NotifyError \/ ClearSwitching \/ ClearPending
  <2>1. /\ task \in {"reinit", "dead"} /\ stopped' = stopped
        /\ wpc' \in {"clearSwitching", "clearPending", "finish"}
        /\ wpc \in {"notifyError", "clearSwitching", "clearPending"}
    BY <1>1, <1>2 DEF NotifyError, ClearSwitching, ClearPending, Tasks
  <2> QED
    BY <1>1, <2>1 DEF WholeInv, HalfIsDelayed, Half, Opened, Running, CallbacksDone
<1>3. CASE DestroySwap \/ Release
  <2>1. /\ task = "final" /\ wpc' \in {"close", "stopUnits", "finish"}
        /\ wpc' = "finish" => ~Opened
    BY <1>1, <1>3 DEF DestroySwap, Release, Tasks, ClosedIsDown, Down
  <2> QED
    BY <1>1, <2>1 DEF WholeInv, HalfIsDelayed, Half, Opened
<1> QED
  BY <1>2, <1>3

LEMMA WholeStep == IInv /\ WholeInv /\ [Next]_vars => WholeInv'
<1> SUFFICES ASSUME IInv, WholeInv, [Next]_vars PROVE WholeInv'
  OBVIOUS
<1>1. CASE Worker
  BY <1>1, WholeTasks, WholeStops, WholeStarts, WholeReinits, WholeEnds DEF Worker, IInv
<1>2. CASE UNCHANGED vars
  <2>1. UNCHANGED <<unit, listening, task, wpc, cb, lpc, delayedReinit, stopped, cpc>>
    BY <1>2 DEF vars, flags, device, worker, client, hal
  <2> QED
    BY <2>1, WholeElsewhere
<1> QED
  BY <1>1, <1>2, WholeOthers DEF Next, IInv

(* A step of the worker that changes the core changes it as a whole.          *)
LEMMA CoreCalls ==
    ASSUME TypeOK, TypeOK', ClosedIsDown, WholeInv, Worker
    PROVE  [Core!Next]_(Core!svars)
<1> USE UnitsAssumption DEF device
<1>1. Units \subseteq {"input", "output"}
        /\ unit \in [Units -> {"null", "idle", "running"}]
        /\ unit' \in [Units -> {"null", "idle", "running"}]
        /\ listening \in BOOLEAN /\ listening' \in BOOLEAN
  BY DEF TypeOK
<1>2. CASE UNCHANGED device
  BY <1>2 DEF Core!svars
<1>3. CASE StopUnits \/ Close \/ Uninstall
  <2>1. /\ \A u \in Units : unit'[u] = unit[u] \/ unit'[u] = "null"
                            \/ (unit[u] = "running" /\ unit'[u] = "idle")
        /\ listening' => listening
    BY <1>3 DEF StopUnits, Close, Uninstall
  <2>2. Core!Lower
    BY <1>1, <2>1 DEF Core!Lower, Core!Below, Core!Scopes
  <2> QED
    BY <2>2 DEF Core!Next
<1>4. CASE StartUnits \/ Restart
  <2>1. UNCHANGED listening /\ (wpc = "startUnits" \/ wpc = "restart")
    BY <1>4, <1>2 DEF StartUnits, Restart, Goto
  <2>2. \A u \in Units : unit'[u] = unit[u] \/ (unit[u] # "null" /\ unit'[u] = "running")
    <3>1. StartedUnits \in [Units -> {"null", "idle", "running"}]
            /\ \A u \in Units : StartedUnits[u] = IF unit[u] = "null" THEN "null" ELSE "running"
      BY DEF StartedUnits
    <3>2. unit' = unit \/ unit' = StartedUnits
            \/ unit' = [StartedUnits EXCEPT !["output"] = unit["output"]]
      BY <1>4 DEF StartUnits, Restart, PartlyStarted
    <3> QED
      BY <1>1, <3>1, <3>2
  <2>3. \/ (\A u \in Units : unit[u] = "null") /\ ~listening
        \/ (\A u \in Units : unit[u] # "null") /\ listening
    <3>1. ~Half /\ task # "final"
      BY <2>1, StepsOfTasks DEF WholeInv, HalfIsDelayed, Half, TypeOK, Tasks
    <3> QED
      BY <3>1 DEF Half, WholeInv, Opened
  <2>4. Core!Closed \/ (Core!Complete /\ listening)
    BY <1>1, <2>3 DEF Core!Closed, Core!Complete, Core!Scopes
  <2>5. Core!Start
    BY <1>1, <2>1, <2>2, <2>4 DEF Core!Start, Core!Scopes
  <2> QED
    BY <2>5 DEF Core!Next
<1>5. CASE Setup /\ ~UNCHANGED device
  <2>1. /\ \A u \in Units : unit[u] = "null" /\ unit'[u] = "idle"
        /\ ~listening
    BY <1>5 DEF Setup, Goto, WholeInv, Opened
  <2>2. Core!SetUp
    BY <1>1, <2>1 DEF Core!SetUp, Core!Running, Core!Scopes
  <2> QED
    BY <2>2 DEF Core!Next
<1> QED
  BY <1>2, <1>3, <1>4, <1>5
  DEF Worker, BeginTask, TaskDone, UnitsStopped, RestoreStopped, RestoreDraining, CheckStopped,
      RecheckStopped, Closed, LookUpDevice, ClearDelayed, NotifyError, ClearSwitching,
      ClearPending, DestroySwap, Release

(* Whatever the client, the callbacks and the devices do meanwhile, a task    *)
(* sets up a core that is closed, and starts one that is complete and has its *)
(* listeners, or is closed: with CoreImplementsContract, AudioUnitStream      *)
(* assumes no more of the core than CoreStreamData keeps.                     *)
THEOREM TasksUseCore == Spec => UsesCore
<1>1. Init => Core!Init /\ WholeInv
  <2> SUFFICES ASSUME Init PROVE Core!Init /\ WholeInv
    OBVIOUS
  <2>1. WholeInv
    BY UnitsAssumption DEF Init, WholeInv, HalfIsDelayed, Half, Opened, CallbacksDone
  <2>2. Core!Init
    BY UnitsAssumption DEF Init, Core!Init, Core!Scopes
  <2> QED
    BY <2>1, <2>2
<1>2. IInv /\ IInv' /\ WholeInv /\ [Next]_vars => [Core!Next]_(Core!svars)
  <2> SUFFICES ASSUME IInv, IInv', WholeInv, [Next]_vars PROVE [Core!Next]_(Core!svars)
    OBVIOUS
  <2>1. CASE Worker
    BY <2>1, CoreCalls DEF IInv
  <2>2. CASE ~Worker
    <3>1. UNCHANGED device
      BY <2>2
      DEF Next, vars, Client, ClientStart, StoreStopped, StoreDraining, ClientStop,
          ClientSubmit, ClientDestroy, ClientNotify, CallbackBegin, CallbackContinue,
          RenderOutput, RenderInputOnly, RenderInputDuplex, CheckDrain, CallbackSwap,
          CallbackNotify, CallbackSubmit, CallbackSwapPending, DeviceEvent, Listener,
          ListenerBegin, ListenerDead, ListenerSwapPending, ListenerSubmit
    <3> QED
      BY <3>1 DEF device, Core!svars
  <2> QED
    BY <2>1, <2>2
<1> QED
  BY <1>1, <1>2, WholeStep, Invariance, PTL DEF Spec, UsesCore, Core!Spec

-----------------------------------------------------------------------------
(* The handling of a device change passes from thread to thread.              *)

(* A task in the queue stays there until it is its turn. *)
LEMMA QueuedStays ==
    ASSUME TypeOK, NEW i \in DOMAIN tasks, tasks[i] \in {"reinit", "dead"},
           UNCHANGED tasks \/ \E t \in Tasks : Submit(t)
    PROVE  ChangeHandled'
<1>1. CASE UNCHANGED tasks
  BY <1>1 DEF ChangeHandled
<1>2. CASE \E t \in Tasks : Submit(t)
  <2>1. i \in DOMAIN tasks' /\ tasks'[i] = tasks[i]
    BY <1>2, Submitted
  <2> QED
    BY <2>1 DEF ChangeHandled
<1> QED
  BY <1>1, <1>2

LEMMA HandedOver ==
    ASSUME TypeOK, Submit("reinit") \/ Submit("dead") PROVE ChangeHandled'
<1>1. PICK t \in {"reinit", "dead"} : Submit(t)
  OBVIOUS
<1>2. t \in Tasks
  BY DEF Tasks
<1>3. Len(tasks) + 1 \in DOMAIN tasks' /\ tasks'[Len(tasks) + 1] = t
  BY <1>1, <1>2, Submitted
<1> QED
  BY <1>3 DEF ChangeHandled

HandledLost ==
    \/ ~switchingDevice'
    \/ ListenerDead /\ stopped
    \/ ListenerSwapPending /\ wpc = "clearPending"

LEMMA HandledByOthers ==
    ASSUME TypeOK, OneReinit, ChangeHandled,
           \/ Client \/ Listener
           \/ \E u \in Units : CallbackBegin(u) \/ CallbackContinue(u)
           \/ \E kind \in EventKinds : DeviceEvent(kind)
    PROVE  ChangeHandled' \/ HandledLost
<1> USE DEF flags, device, worker, client, hal, history
<1>1. UNCHANGED <<task, wpc>> /\ (UNCHANGED tasks \/ \E t \in Tasks : Submit(t))
  BY DEF Client, ClientStart, StoreStopped, StoreDraining, ClientStop, ClientSubmit,
         ClientDestroy, ClientNotify, Listener, ListenerBegin, ListenerDead,
         ListenerSwapPending, ListenerSubmit, CallbackBegin, CallbackContinue, RenderOutput,
         RenderInputOnly, RenderInputDuplex, CheckDrain, CallbackSwap, CallbackNotify,
         CallbackSubmit, CallbackSwapPending, DeviceEvent, Tasks
<1>2. CASE task \in {"reinit", "dead"} /\ wpc \notin {"clearPending", "finish"}
  BY <1>1, <1>2 DEF ChangeHandled
<1>3. CASE \E i \in DOMAIN tasks : tasks[i] \in {"reinit", "dead"}
  BY <1>1, <1>3, QueuedStays
<1>4. ASSUME NEW u \in Units, cb[u] = "submitReinit" PROVE ChangeHandled'
  <2>1. CASE CallbackSubmit(u)
    <3>1. Submit("reinit")
      BY <1>4, <2>1 DEF CallbackSubmit
    <3> QED
      BY <3>1, HandedOver
  <2>2. CASE ~CallbackSubmit(u)
    <3>1. cb'[u] = "submitReinit"
      BY <1>4, <2>2
      DEF TypeOK, Client, ClientStart, StoreStopped, StoreDraining, ClientStop, ClientSubmit,
          ClientDestroy, ClientNotify, Listener, ListenerBegin, ListenerDead,
          ListenerSwapPending, ListenerSubmit, CallbackBegin, CallbackContinue,
          RenderOutput, RenderInputOnly, RenderInputDuplex, CheckDrain, CallbackSwap,
          CallbackNotify, CallbackSubmit, CallbackSwapPending, DeviceEvent
    <3> QED
      BY <3>1 DEF ChangeHandled
  <2> QED
    BY <2>1, <2>2
<1>5. CASE lpc # "idle"
  <2>1. CASE lpc' = lpc
    BY <1>5, <2>1 DEF ChangeHandled
  <2>2. CASE ListenerDead
    BY <2>2 DEF ListenerDead, HandledLost, ChangeHandled
  <2>3. CASE ListenerSwapPending
    <3>1. CASE ~reinitPending
      BY <2>3, <3>1 DEF ListenerSwapPending, ChangeHandled
    <3>2. CASE reinitPending
      <4>1. \/ \E u \in Units : Handing(u)
            \/ \E i \in DOMAIN tasks : Queued(i)
            \/ Executed
        BY <2>3, <3>2 DEF OneReinit, ListenerSwapPending
      <4>2. \/ \E u \in Units : cb[u] = "submitReinit"
            \/ \E i \in DOMAIN tasks : tasks[i] \in {"reinit", "dead"}
            \/ task = "reinit" /\ wpc \notin {"clearPending", "finish"}
            \/ wpc = "clearPending"
        BY <4>1 DEF Handing, Queued, Executed
      <4> QED
        BY <1>2, <1>3, <1>4, <2>3, <4>2 DEF HandledLost
    <3> QED
      BY <3>1, <3>2
  <2>4. CASE ListenerSubmit
    BY <2>4, HandedOver DEF ListenerSubmit
  <2> QED
    BY <1>5, <2>1, <2>2, <2>3, <2>4
    DEF Client, ClientStart, StoreStopped, StoreDraining, ClientStop, ClientSubmit,
        ClientDestroy, ClientNotify, Listener, ListenerBegin, CallbackBegin, CallbackContinue,
        RenderOutput, RenderInputOnly, RenderInputDuplex, CheckDrain, CallbackSwap,
        CallbackNotify, CallbackSubmit, CallbackSwapPending, DeviceEvent
<1> QED
  BY <1>2, <1>3, <1>4, <1>5 DEF ChangeHandled

LEMMA HandledByWorker ==
    ASSUME TypeOK, ChangeHandled, Worker, ~freed, switchingDevice
    PROVE  ChangeHandled' \/ HandledLost
<1> USE DEF flags, device, worker, client, hal, history
<1>1. UNCHANGED <<lpc, cb>>
  BY DEF Worker, BeginTask, TaskDone, StopUnits, UnitsStopped, StartUnits, RestoreStopped,
         RestoreDraining, CheckStopped, RecheckStopped, Close, Closed, LookUpDevice, Setup,
         Restart, ClearDelayed, NotifyError, ClearSwitching, ClearPending, Uninstall,
         DestroySwap, Release
<1>2. CASE lpc # "idle" \/ \E u \in Units : cb[u] = "submitReinit"
  BY <1>1, <1>2 DEF ChangeHandled
<1>3. ASSUME NEW i \in DOMAIN tasks, tasks[i] \in {"reinit", "dead"}
      PROVE  ChangeHandled'
  <2>1. CASE BeginTask /\ i = 1
    <3>1. task' = tasks[1] /\ wpc' = FirstStep(tasks[1])
      BY <2>1, Taken DEF BeginTask
    <3>2. wpc' \in {"checkStopped", "stopUnits"}
      BY <1>3, <2>1, <3>1 DEF FirstStep
    <3> QED
      BY <1>3, <2>1, <3>1, <3>2 DEF ChangeHandled
  <2>2. CASE BeginTask /\ i # 1
    <3>1. i - 1 \in DOMAIN tasks' /\ tasks'[i - 1] = tasks[i]
      BY <2>2, Taken
    <3> QED
      BY <1>3, <3>1 DEF ChangeHandled
  <2>3. CASE ~BeginTask
    <3>1. UNCHANGED tasks
      BY <2>3 DEF Worker, TaskDone, StopUnits, UnitsStopped, StartUnits, RestoreStopped,
         RestoreDraining, CheckStopped, RecheckStopped, Close, Closed, LookUpDevice, Setup,
         Restart, ClearDelayed, NotifyError, ClearSwitching, ClearPending, Uninstall,
         DestroySwap, Release
    <3> QED
      BY <1>3, <3>1, QueuedStays
  <2> QED
    BY <2>1, <2>2, <2>3
<1>4. CASE task \in {"reinit", "dead"} /\ wpc \notin {"clearPending", "finish"}
  <2>1. wpc \in Steps(task) /\ wpc # "idle"
    BY <1>4 DEF TypeOK, Steps
  <2>2. CASE ClearSwitching
    BY <2>2 DEF ClearSwitching, HandledLost
  <2>3. CASE UnitsStopped \/ CheckStopped \/ RecheckStopped \/ Closed
    <3>1. task' = task /\ wpc' \notin {"clearPending", "finish"}
      BY <1>4, <2>3 DEF UnitsStopped, CheckStopped, RecheckStopped, Closed, ReinitOk, Goto
    <3> QED
      BY <1>4, <3>1 DEF ChangeHandled
  <2>4. CASE StopUnits \/ Close \/ LookUpDevice \/ Setup \/ Restart \/ NotifyError
    <3>1. task' = task /\ wpc' \notin {"clearPending", "finish"}
      BY <1>4, <2>4
      DEF StopUnits, Close, LookUpDevice, Setup, Restart, NotifyError, ReinitOk, ReinitErr, Goto
    <3> QED
      BY <1>4, <3>1 DEF ChangeHandled
  <2>5. ~(BeginTask \/ TaskDone \/ StartUnits \/ RestoreStopped \/ RestoreDraining \/ ClearDelayed
            \/ ClearPending \/ Uninstall \/ DestroySwap \/ Release)
    BY <1>4, <2>1, StepsOfTasks
    DEF BeginTask, TaskDone, StartUnits, RestoreStopped, RestoreDraining, ClearDelayed,
        ClearPending, Uninstall, DestroySwap, Release, Goto
  <2> QED
    BY <2>2, <2>3, <2>4, <2>5 DEF Worker
<1> QED
  BY <1>2, <1>3, <1>4 DEF ChangeHandled

LEMMA HandledStep ==
    ASSUME TypeOK, OneReinit, [Next]_vars, ~freed, switchingDevice, ChangeHandled
    PROVE  ChangeHandled' \/ HandledLost
<1>1. CASE UNCHANGED vars
  BY <1>1 DEF vars, hal, worker, ChangeHandled
<1> QED
  BY <1>1, HandledByOthers, HandledByWorker DEF Next

(* The handling of a device change passes from the notification thread to the *)
(* queue, and only two steps lose it without clearing switching_device: a     *)
(* listener that finds the stream of a dead device stopped, and one that      *)
(* relies on a reinit task between its last two steps.                        *)
THEOREM SwitchingLost == Spec => SwitchingLostTwoWays
<1>1. IInv /\ (freed \/ OneReinit) /\ [Next]_vars =>
          [switchingDevice /\ ChangeHandled =>
              \/ ChangeHandled' \/ ~switchingDevice' \/ freed'
              \/ ListenerDead /\ stopped
              \/ ListenerSwapPending /\ wpc = "clearPending"]_vars
  BY HandledStep, FreedForever DEF HandledLost, IInv
<1> QED
  BY <1>1, Invariance, Reinits, PTL DEF Spec, SwitchingLostTwoWays

(* With one device change, and no callback that asks for a reinit, the        *)
(* listener never finds a reinit task it has not handed over itself.          *)
Once ==
    /\ events \in {0, 1}
    /\ lpc \in {"idle", "change", "submitReinit"}
    /\ Len(notices) \in {0, 1} /\ \A i \in DOMAIN notices : notices[i] = "change"
    /\ \A u \in Units : cb[u] \notin {"swapPending", "submitReinit"}
    /\ events = 0 => ~switchingDevice /\ ~reinitPending /\ lpc = "idle" /\ notices = <<>>
    /\ notices # <<>> => ~switchingDevice /\ ~reinitPending /\ lpc = "idle"
    /\ lpc = "change" => ~reinitPending

LEMMA OnceStep ==
    ASSUME EventKinds \subseteq {"change"}, MaxEvents \leq 1, "reinit" \notin CallbackEnds,
           TypeOK, Once, [Next]_vars
    PROVE  Once'
<1> USE DEF flags, device, worker, client, hal, history
<1>1. CASE UNCHANGED <<events, lpc, notices, switchingDevice, reinitPending>>
              /\ \A u \in Units : cb'[u] \notin {"swapPending", "submitReinit"}
  BY <1>1 DEF Once
<1>2. ASSUME NEW u \in Units, CallbackBegin(u) \/ CallbackContinue(u) PROVE Once'
  <2>1. cb \in [Units -> CallbackPCs] /\ cb[u] \notin {"swapPending", "submitReinit"}
    BY DEF TypeOK, Once
  <2>2. UNCHANGED <<events, lpc, notices, switchingDevice, reinitPending>>
          /\ cb' \in [Units -> CallbackPCs]
          /\ cb'[u] \notin {"swapPending", "submitReinit"}
          /\ \A v \in Units \ {u} : cb'[v] = cb[v]
    <3>1. CASE CallbackBegin(u) \/ CheckDrain(u) \/ CallbackSwap(u) \/ CallbackNotify(u)
      BY <2>1, <3>1
      DEF CallbackBegin, CheckDrain, CallbackSwap, CallbackNotify, CallbackPCs
    <3>2. CASE CallbackSubmit(u) \/ CallbackSwapPending(u)
      BY <2>1, <3>2 DEF CallbackSubmit, CallbackSwapPending, CallbackPCs
    <3>3. CASE u = "output" /\ RenderOutput
      BY <2>1, <3>3 DEF RenderOutput, CallbackPCs
    <3>4. CASE u = "input" /\ (RenderInputOnly \/ RenderInputDuplex)
      BY <2>1, <3>4 DEF RenderInputOnly, RenderInputDuplex, CallbackPCs
    <3> QED
      BY <1>2, <3>1, <3>2, <3>3, <3>4 DEF CallbackContinue
  <2> QED
    BY <2>1, <2>2, <1>1 DEF Once
<1>3. ASSUME NEW kind \in EventKinds, DeviceEvent(kind) PROVE Once'
  <2>1. events = 0 /\ events' = 1 /\ kind = "change" /\ notices = <<>>
          /\ UNCHANGED <<lpc, cb, switchingDevice, reinitPending>>
    BY <1>3, KindsAssumption DEF DeviceEvent, Once, TypeOK
  <2>2. notices' = <<>> \/ notices' = <<"change">>
    BY <1>3, <2>1 DEF DeviceEvent
  <2> QED
    BY <2>1, <2>2 DEF Once
<1>4. CASE ListenerBegin
  <2>1. Len(notices) = 1 /\ notices[1] = "change" /\ ~switchingDevice /\ ~reinitPending
          /\ events = 1
    BY <1>4 DEF ListenerBegin, Once, TypeOK
  <2>2. notices' = <<>> /\ lpc' = "change" /\ UNCHANGED <<cb, reinitPending, events>>
    BY <1>4, <2>1 DEF ListenerBegin, TypeOK
  <2> QED
    BY <2>1, <2>2 DEF Once
<1>5. CASE ListenerDead \/ ListenerSwapPending \/ ListenerSubmit
  <2>1. lpc \in {"change", "submitReinit"} /\ lpc' \in {"idle", "submitReinit"}
          /\ notices = <<>> /\ events = 1 /\ UNCHANGED <<cb, notices, events>>
    BY <1>5 DEF ListenerDead, ListenerSwapPending, ListenerSubmit, Once
  <2> QED
    BY <2>1 DEF Once
<1>6. CASE Client
  BY <1>1, <1>6 DEF Client, ClientStart, StoreStopped, StoreDraining, ClientStop, ClientSubmit,
                    ClientDestroy, ClientNotify, Once
<1>7. CASE Worker
  <2>1. /\ UNCHANGED <<events, lpc, cb>> /\ notices' \in {notices, <<>>}
        /\ switchingDevice' => switchingDevice
        /\ reinitPending' => reinitPending
    BY <1>7
    DEF Worker, BeginTask, TaskDone, StopUnits, UnitsStopped, StartUnits, RestoreStopped,
        RestoreDraining, CheckStopped, RecheckStopped, Close, Closed, LookUpDevice, Setup,
        Restart, ClearDelayed, NotifyError, ClearSwitching, ClearPending, Uninstall,
        DestroySwap, Release
  <2> QED
    BY <2>1 DEF Once
<1>8. CASE UNCHANGED vars
  BY <1>1, <1>8 DEF vars, Once
<1> QED
  BY <1>2, <1>3, <1>4, <1>5, <1>6, <1>7, <1>8 DEF Next, Listener

(* A single device change leaves switching_device set no longer than it is    *)
(* being handled.  With two it may (README, section 4).                       *)
THEOREM SwitchingTransient ==
    ASSUME EventKinds \subseteq {"change"}, MaxEvents \leq 1, "reinit" \notin CallbackEnds
    PROVE  Spec => []SwitchingIsTransient
<1>1. Init => Once /\ SwitchingIsTransient
  BY DEF Init, Once, SwitchingIsTransient
<1>2. TypeOK /\ Once /\ [Next]_vars => Once'
  BY OnceStep
<1>3. IInv /\ (freed \/ OneReinit) /\ Once /\ SwitchingIsTransient /\ [Next]_vars
      => SwitchingIsTransient'
  <2> SUFFICES ASSUME IInv, freed \/ OneReinit, Once, SwitchingIsTransient, [Next]_vars,
                      ~freed', switchingDevice'
               PROVE  ChangeHandled'
    BY DEF SwitchingIsTransient
  <2>1. ~freed /\ OneReinit /\ TypeOK
    BY FreedForever DEF IInv
  <2>2. CASE switchingDevice
    <3>1. ~ListenerDead
      BY DEF ListenerDead, Once
    <3>2. ~(ListenerSwapPending /\ wpc = "clearPending")
      <4> SUFFICES ASSUME ListenerSwapPending, wpc = "clearPending" PROVE FALSE
        OBVIOUS
      <4>1. ~reinitPending
        BY DEF ListenerSwapPending, Once
      <4>2. task = "reinit"
        BY <2>1, StepsOfTasks DEF TypeOK, Tasks
      <4> QED
        BY <2>1, <4>1, <4>2 DEF OneReinit, Executed
    <3> QED
      BY <2>1, <2>2, <3>1, <3>2, HandledStep DEF SwitchingIsTransient, HandledLost
  <2>3. CASE ~switchingDevice
    <3>1. ListenerBegin
      BY <2>3
      DEF Next, vars, flags, Client, ClientStart, StoreStopped, StoreDraining, ClientStop,
          ClientSubmit, ClientDestroy, ClientNotify, Listener, ListenerDead,
          ListenerSwapPending, ListenerSubmit, CallbackBegin, CallbackContinue, RenderOutput,
          RenderInputOnly, RenderInputDuplex, CheckDrain, CallbackSwap, CallbackNotify,
          CallbackSubmit, CallbackSwapPending, DeviceEvent, Worker, BeginTask, TaskDone,
          StopUnits, UnitsStopped, StartUnits, RestoreStopped, RestoreDraining, CheckStopped,
          RecheckStopped, Close, Closed, LookUpDevice, Setup, Restart, ClearDelayed,
          NotifyError, ClearSwitching, ClearPending, Uninstall, DestroySwap, Release
    <3>2. lpc' = "change"
      BY <2>1, <2>3, <3>1 DEF ListenerBegin, Once, TypeOK
    <3> QED
      BY <3>2 DEF ChangeHandled
  <2> QED
    BY <2>2, <2>3
<1>4. IInv => TypeOK
  BY DEF IInv
<1> QED
  BY <1>1, <1>2, <1>3, <1>4, Invariance, Reinits, PTL DEF Spec

-----------------------------------------------------------------------------
(* The final task ends when the stream has been released.                     *)
FinalReleases == task = "final" /\ wpc = "finish" => freed

LEMMA FinalReleasesStep ==
    IInv /\ FinalReleases /\ [Next]_vars => FinalReleases'
<1> SUFFICES ASSUME IInv, FinalReleases, [Next]_vars PROVE FinalReleases'
  OBVIOUS
<1> USE DEF IInv, FinalReleases
<1>1. CASE UNCHANGED <<worker, freed>>
  BY <1>1 DEF worker
<1>2. CASE Worker
  <2>1. CASE BeginTask
    BY <2>1 DEF BeginTask, FirstStep
  <2>2. CASE TaskDone
    BY <2>2 DEF TaskDone
  <2>3. CASE Release
    BY <2>3 DEF Release
  <2>4. CASE StopUnits \/ UnitsStopped \/ Close \/ Closed
    BY <2>4 DEF StopUnits, UnitsStopped, Close, Closed, Goto
  <2>5. CASE Uninstall \/ DestroySwap
    BY <2>5 DEF Uninstall, DestroySwap, Goto
  <2>6. CASE StartUnits \/ RestoreStopped \/ RestoreDraining
    BY <2>6, StepsOfTasks
       DEF TypeOK, StartUnits, RestoreStopped, RestoreDraining, Goto
  <2>7. CASE CheckStopped \/ RecheckStopped \/ LookUpDevice
    BY <2>7, StepsOfTasks DEF TypeOK, CheckStopped, RecheckStopped, LookUpDevice, Goto
  <2>8. CASE Setup \/ Restart \/ ClearDelayed
    BY <2>8, StepsOfTasks DEF TypeOK, Setup, Restart, ClearDelayed, Goto
  <2>9. CASE NotifyError \/ ClearSwitching \/ ClearPending
    BY <2>9, StepsOfTasks DEF TypeOK, NotifyError, ClearSwitching, ClearPending, Goto
  <2> QED
    BY <1>2, <2>1, <2>2, <2>3, <2>4, <2>5, <2>6, <2>7, <2>8, <2>9 DEF Worker
<1>3. CASE Client
  BY <1>1, <1>3 DEF Client, ClientStart, StoreStopped, StoreDraining, ClientStop,
     ClientSubmit, ClientDestroy, ClientNotify, worker
<1>4. ASSUME NEW u \in Units, CallbackBegin(u) \/ CallbackContinue(u) PROVE FinalReleases'
  BY <1>1, <1>4 DEF CallbackBegin, CallbackContinue, RenderOutput, RenderInputOnly,
     RenderInputDuplex, CheckDrain, CallbackSwap, CallbackNotify, CallbackSubmit,
     CallbackSwapPending, worker
<1>5. ASSUME NEW kind \in EventKinds, DeviceEvent(kind) PROVE FinalReleases'
  BY <1>1, <1>5 DEF DeviceEvent, worker
<1>6. CASE Listener
  BY <1>1, <1>6 DEF Listener, ListenerBegin, ListenerDead, ListenerSwapPending,
     ListenerSubmit, worker
<1>7. CASE UNCHANGED vars
  BY <1>1, <1>7 DEF vars
<1> QED
  BY <1>2, <1>3, <1>4, <1>5, <1>6, <1>7 DEF Next

(* When the contract sees the queue closed. *)
closed == [q \in {"stream"} |-> freed /\ task = "none"]

(* Who hands over a task, and who leaves the queue alone.                     *)
LEMMA QueueSteps ==
    ASSUME [Next]_vars
    PROVE  \/ UNCHANGED <<tasks, task, freed>>
           \/ (\E t \in Tasks : Submit(t)) /\ UNCHANGED <<task, freed>>
           \/ BeginTask
           \/ TaskDone
           \/ Release
<1>1. CASE Client
  BY <1>1 DEF Client, ClientStart, StoreStopped, StoreDraining, ClientStop,
     ClientSubmit, ClientDestroy, ClientNotify, worker, Tasks
<1>2. ASSUME NEW u \in Units, CallbackBegin(u) \/ CallbackContinue(u)
      PROVE  \/ UNCHANGED <<tasks, task, freed>>
             \/ (\E t \in Tasks : Submit(t)) /\ UNCHANGED <<task, freed>>
  BY <1>2 DEF CallbackBegin, CallbackContinue, RenderOutput, RenderInputOnly,
     RenderInputDuplex, CheckDrain, CallbackSwap, CallbackNotify, CallbackSubmit,
     CallbackSwapPending, worker, Tasks
<1>3. ASSUME NEW kind \in EventKinds, DeviceEvent(kind)
      PROVE  UNCHANGED <<tasks, task, freed>>
  BY <1>3 DEF DeviceEvent, worker
<1>4. CASE Listener
  BY <1>4 DEF Listener, ListenerBegin, ListenerDead, ListenerSwapPending,
     ListenerSubmit, worker, Tasks
<1>5. CASE Worker
  <2>1. CASE StopUnits \/ UnitsStopped \/ StartUnits \/ RestoreStopped \/ RestoreDraining
    BY <2>1 DEF StopUnits, UnitsStopped, StartUnits, RestoreStopped, RestoreDraining
  <2>2. CASE CheckStopped \/ RecheckStopped \/ Close \/ Closed \/ LookUpDevice
    BY <2>2 DEF CheckStopped, RecheckStopped, Close, Closed, LookUpDevice
  <2>3. CASE Setup \/ Restart \/ ClearDelayed \/ NotifyError
    BY <2>3 DEF Setup, Restart, ClearDelayed, NotifyError
  <2>4. CASE ClearSwitching \/ ClearPending \/ Uninstall \/ DestroySwap
    BY <2>4 DEF ClearSwitching, ClearPending, Uninstall, DestroySwap
  <2> QED
    BY <1>5, <2>1, <2>2, <2>3, <2>4 DEF Worker
<1>6. CASE UNCHANGED vars
  BY <1>6 DEF vars, worker
<1> QED
  BY <1>1, <1>2, <1>3, <1>4, <1>5, <1>6 DEF Next

(* The tasks of a stream are executed as the contract of their queue says,    *)
(* and its final task is the one that closes it.                              *)
THEOREM TasksUseQueue == Spec => UsesQueue
<1>1. Init => Queue!Init
  <2> SUFFICES ASSUME Init PROVE Queue!Init
    OBVIOUS
  <2> QED
    BY DEF Init, Queue!Init, Tasks
<1>2. ASSUME IInv, FinalReleases, [Next]_vars PROVE [Queue!Next]_(Queue!cvars)
  <2> USE <1>2 DEF IInv
  <2>1. CASE UNCHANGED <<tasks, task, freed>>
    BY <2>1 DEF Queue!cvars
  <2>2. ASSUME NEW t \in Tasks, Submit(t), UNCHANGED <<task, freed>>
        PROVE  Queue!Next
    <3>1. Queue!HandOver("stream", t)
      BY <2>2 DEF Submit, Queue!HandOver
    <3> QED
      BY <3>1 DEF Queue!Next
  <2>3. CASE BeginTask
    <3>1. /\ wpc = "idle" /\ task = "none" /\ tasks # <<>> /\ tasks' = Tail(tasks)
          /\ freed' = freed
      <4>1. wpc = "idle" /\ tasks # <<>> /\ tasks' = Tail(tasks) /\ freed' = freed
        BY <2>3 DEF BeginTask
      <4>2. task = "none"
        BY <4>1, StepsOfTasks DEF TypeOK, Tasks
      <4> QED
        BY <4>1, <4>2
    <3>2. 1 \in DOMAIN tasks /\ Head(tasks) = tasks[1] /\ tasks[1] \in Tasks
      BY <2>3, Taken
    <3>3. Queue!Take("stream") <=> closed' = closed
      BY <3>1 DEF Queue!Take, closed
    <3>4. CASE freed
      <4>1. task' = task /\ Head(tasks) # "final"
        BY <2>3, <3>1, <3>2, <3>4
           DEF BeginTask, FinalIsLast, ClientWaits, SyncTasks, WaitsIn
      <4>2. Queue!Drop("stream")
        BY <3>1, <3>3, <3>4, <4>1 DEF Queue!Drop, closed
      <4> QED
        BY <4>2 DEF Queue!Next
    <3>5. CASE ~freed
      <4>1. task' = Head(tasks) /\ task' # "none"
        BY <2>3, <3>2, <3>5 DEF BeginTask, Tasks
      <4>2. Queue!Perform("stream")
        BY <3>1, <3>3, <3>5, <4>1 DEF Queue!Perform, closed
      <4> QED
        BY <4>2 DEF Queue!Next
    <3> QED
      BY <3>4, <3>5
  <2>4. CASE TaskDone
    <3>1. /\ wpc = "finish" /\ task \in Tasks /\ task # "none" /\ task' = "none"
          /\ tasks' = tasks /\ freed' = freed
      BY <2>4 DEF TaskDone, Goto, TypeOK, Tasks
    <3>2. task = "final" <=> freed
      BY <3>1 DEF FinalReleases, FinalIsLast
    <3>3. Queue!Finish("stream", task)
      BY <3>1, <3>2 DEF Queue!Finish
    <3> QED
      BY <3>1, <3>3 DEF Queue!Next
  <2>5. CASE Release
    <3>1. task # "none" /\ task' = task /\ tasks' = tasks
      BY <2>5, StepsOfTasks DEF Release, Goto, TypeOK, Tasks
    <3> QED
      BY <3>1 DEF Queue!cvars
  <2> QED
    BY <2>1, <2>2, <2>3, <2>4, <2>5, QueueSteps
<1>3. Init => FinalReleases
  BY DEF Init, FinalReleases
<1> QED
  BY <1>1, <1>2, <1>3, FinalReleasesStep, Invariance, PTL
     DEF Spec, Queue!Spec, UsesQueue

-----------------------------------------------------------------------------
(* The task the client waits for has not been lost: it is in the queue, or    *)
(* being executed.                                                            *)
WaitsForItsTask ==
    \A t \in SyncTasks :
        cpc = WaitsIn(t) => task = t \/ \E i \in DOMAIN tasks : tasks[i] = t

LEMMA WaitsForItsTaskStep ==
    IInv /\ WaitsForItsTask /\ [Next]_vars => WaitsForItsTask'
<1> SUFFICES ASSUME IInv, WaitsForItsTask, [Next]_vars PROVE WaitsForItsTask'
  OBVIOUS
<1> USE DEF IInv
<1>1. ASSUME UNCHANGED <<task, tasks>>,
             cpc' = cpc \/ cpc' \notin {"inStart", "inStop", "inDestroy"}
      PROVE  WaitsForItsTask'
  BY <1>1 DEF WaitsForItsTask, SyncTasks, WaitsIn
<1>2. ASSUME NEW t \in Tasks, Submit(t), UNCHANGED task,
             cpc' = cpc \/ (t \in SyncTasks /\ cpc' = WaitsIn(t))
      PROVE  WaitsForItsTask'
  <2>1. /\ \A i \in DOMAIN tasks : i \in DOMAIN tasks' /\ tasks'[i] = tasks[i]
        /\ Len(tasks) + 1 \in DOMAIN tasks' /\ tasks'[Len(tasks) + 1] = t
    BY <1>2, Submitted
  <2>2. \A r, s \in SyncTasks : WaitsIn(r) = WaitsIn(s) => r = s
    BY DEF SyncTasks, WaitsIn
  <2> QED
    BY <1>2, <2>1, <2>2 DEF WaitsForItsTask
<1>3. CASE Client
  <2>1. CASE ClientSubmit \/ ClientDestroy
    BY <1>2, <2>1 DEF ClientSubmit, ClientDestroy, SyncTasks, WaitsIn, Tasks, worker
  <2>2. CASE ClientStart \/ StoreStopped \/ StoreDraining \/ ClientStop \/ ClientNotify
    BY <1>1, <2>2 DEF ClientStart, StoreStopped, StoreDraining, ClientStop,
       ClientNotify, worker
  <2> QED
    BY <1>3, <2>1, <2>2 DEF Client
<1>4. ASSUME NEW u \in Units, CallbackBegin(u) \/ CallbackContinue(u)
      PROVE  WaitsForItsTask'
  <2>1. CASE CallbackSubmit(u)
    BY <1>2, <2>1 DEF CallbackSubmit, Tasks, worker, client
  <2>2. CASE ~CallbackSubmit(u)
    BY <1>1, <1>4, <2>2 DEF CallbackBegin, CallbackContinue, RenderOutput,
       RenderInputOnly, RenderInputDuplex, CheckDrain, CallbackSwap, CallbackNotify,
       CallbackSwapPending, worker, client
  <2> QED
    BY <2>1, <2>2
<1>5. ASSUME NEW kind \in EventKinds, DeviceEvent(kind) PROVE WaitsForItsTask'
  BY <1>1, <1>5 DEF DeviceEvent, worker, client
<1>6. CASE Listener
  <2>1. CASE ListenerSubmit
    BY <1>2, <2>1 DEF ListenerSubmit, Tasks, worker, client
  <2>2. CASE ListenerBegin \/ ListenerDead \/ ListenerSwapPending
    BY <1>1, <2>2 DEF ListenerBegin, ListenerDead, ListenerSwapPending, worker, client
  <2> QED
    BY <1>6, <2>1, <2>2 DEF Listener
<1>7. CASE Worker
  <2>1. CASE BeginTask
    <3>1. /\ wpc = "idle" /\ cpc' = cpc
          /\ freed => UNCHANGED task
          /\ ~freed => task' = Head(tasks)
      BY <2>1 DEF BeginTask, client
    <3>2. task = "none"
      BY <3>1, StepsOfTasks DEF TypeOK, Tasks
    <3>3. /\ Head(tasks) = tasks[1]
          /\ \A i \in DOMAIN tasks :
                i # 1 => i - 1 \in DOMAIN tasks' /\ tasks'[i - 1] = tasks[i]
      BY <2>1, Taken
    <3>4. CASE freed
      BY <3>1, <3>2, <3>4 DEF FinalIsLast, WaitsForItsTask, SyncTasks, WaitsIn
    <3>5. CASE ~freed
      <4> SUFFICES ASSUME NEW t \in SyncTasks, cpc = WaitsIn(t), task' # t
                   PROVE  \E i \in DOMAIN tasks' : tasks'[i] = t
        BY <3>1 DEF WaitsForItsTask
      <4>1. PICK i \in DOMAIN tasks : tasks[i] = t
        BY <3>2 DEF WaitsForItsTask, SyncTasks
      <4> QED
        BY <3>1, <3>3, <3>5, <4>1
    <3> QED
      BY <3>4, <3>5
  <2>2. CASE TaskDone
    <3>1. tasks' = tasks /\ task' = "none" /\ task \in Tasks
      BY <2>2 DEF TaskDone, Goto, TypeOK
    <3>2. CASE task \in SyncTasks
      <4>1. cpc' \notin {"inStart", "inStop", "inDestroy"}
        BY <2>2, <3>2 DEF TaskDone, SyncTasks
      <4> QED
        BY <4>1 DEF WaitsForItsTask, SyncTasks, WaitsIn
    <3>3. CASE task \notin SyncTasks
      <4>1. cpc' = cpc
        BY <2>2, <3>1, <3>3 DEF TaskDone, SyncTasks
      <4> QED
        BY <3>1, <3>3, <4>1 DEF WaitsForItsTask
    <3> QED
      BY <3>2, <3>3
  <2>3. CASE StopUnits \/ UnitsStopped \/ StartUnits \/ RestoreStopped \/ RestoreDraining
    BY <1>1, <2>3 DEF StopUnits, UnitsStopped, StartUnits, RestoreStopped, RestoreDraining, client
  <2>4. CASE CheckStopped \/ RecheckStopped \/ Close \/ Closed \/ LookUpDevice
    BY <1>1, <2>4 DEF CheckStopped, RecheckStopped, Close, Closed, LookUpDevice, client
  <2>5. CASE Setup \/ Restart \/ ClearDelayed \/ NotifyError
    BY <1>1, <2>5 DEF Setup, Restart, ClearDelayed, NotifyError, client
  <2>6. CASE ClearSwitching \/ ClearPending \/ Uninstall \/ DestroySwap \/ Release
    BY <1>1, <2>6 DEF ClearSwitching, ClearPending, Uninstall, DestroySwap, Release, client
  <2> QED
    BY <1>7, <2>1, <2>2, <2>3, <2>4, <2>5, <2>6 DEF Worker
<1>8. CASE UNCHANGED vars
  BY <1>1, <1>8 DEF vars, worker, client
<1> QED
  BY <1>3, <1>4, <1>5, <1>6, <1>7, <1>8 DEF Next

(* No call of the client waits for a task that nobody will execute: neither   *)
(* an end of the stream, nor a reinit, nor its release takes the task of a    *)
(* start, stop or destroy from the queue.                                     *)
THEOREM NoCallForgotten == Spec => []WaitsForItsTask
<1>1. Init => WaitsForItsTask
  BY DEF Init, WaitsForItsTask, SyncTasks, WaitsIn
<1> QED
  BY <1>1, WaitsForItsTaskStep, Invariance, PTL DEF Spec

-----------------------------------------------------------------------------
(* The look-up that a device change needs passes from the notification to the *)
(* notification thread, to a reinit task and, in a stopped stream, to the     *)
(* next start.                                                                *)

(* The ways to lose it, and what makes it needless. *)
LookUpLost ==
    \/ ~stale' \/ ClosesForGood \/ ClosesForGood'
    \/ ~listening /\ events' > events
    \/ ListenerBegin /\ switchingDevice
    \/ ListenerSwapPending /\ reinitPending
    \/ ClearDelayed

(* A reinit task in the queue stays there until it is its turn. *)
LEMMA ReinitQueued ==
    ASSUME TypeOK, NEW i \in DOMAIN tasks, tasks[i] = "reinit",
           UNCHANGED tasks \/ \E t \in Tasks : Submit(t)
    PROVE  ReinitComing'
<1>1. CASE UNCHANGED tasks
  BY <1>1 DEF ReinitComing
<1>2. CASE \E t \in Tasks : Submit(t)
  <2>1. i \in DOMAIN tasks' /\ tasks'[i] = tasks[i]
    BY <1>2, Submitted
  <2> QED
    BY <2>1 DEF ReinitComing
<1> QED
  BY <1>1, <1>2

LEMMA ReinitHandedOver ==
    ASSUME TypeOK, Submit("reinit") PROVE ReinitComing'
<1>1. Len(tasks) + 1 \in DOMAIN tasks' /\ tasks'[Len(tasks) + 1] = "reinit"
  BY Submitted DEF Tasks
<1> QED
  BY <1>1 DEF ReinitComing

(* A notification stays where it is until it is its turn. *)
LEMMA Noticed ==
    ASSUME TypeOK, NEW kind \in {"change", "dead"}, notices' = Append(notices, kind)
    PROVE  /\ Len(notices) + 1 \in DOMAIN notices' /\ notices'[Len(notices) + 1] = kind
           /\ \A i \in DOMAIN notices : i \in DOMAIN notices' /\ notices'[i] = notices[i]
BY DEF TypeOK

LEMMA Delivered ==
    ASSUME TypeOK, notices # <<>>, notices' = Tail(notices)
    PROVE  /\ Head(notices) = notices[1]
           /\ \A i \in DOMAIN notices :
                 i # 1 => i - 1 \in DOMAIN notices' /\ notices'[i - 1] = notices[i]
<1>1. notices \in Seq({"change", "dead"})
  BY DEF TypeOK
<1>2. Len(notices) \in Nat /\ DOMAIN notices = 1..Len(notices)
  BY <1>1
<1>3. Len(notices') = Len(notices) - 1 /\ DOMAIN notices' = 1..(Len(notices) - 1)
  BY <1>1, <1>2
<1>4. \A i \in DOMAIN notices' : notices'[i] = notices[i + 1]
  BY <1>1, <1>3
<1>5. ASSUME NEW i \in DOMAIN notices, i # 1
      PROVE  i - 1 \in DOMAIN notices' /\ notices'[i - 1] = notices[i]
  <2>1. i - 1 \in DOMAIN notices' /\ (i - 1) + 1 = i
    BY <1>2, <1>3, <1>5
  <2> QED
    BY <1>4, <2>1
<1> QED
  BY <1>1, <1>5

LEMMA NoticeKept ==
    ASSUME TypeOK, NEW i \in DOMAIN notices, notices[i] = "change",
           \/ UNCHANGED notices
           \/ \E kind \in {"change", "dead"} : notices' = Append(notices, kind)
    PROVE  ReinitComing'
<1>1. CASE UNCHANGED notices
  BY <1>1 DEF ReinitComing
<1>2. CASE \E kind \in {"change", "dead"} : notices' = Append(notices, kind)
  <2>1. i \in DOMAIN notices' /\ notices'[i] = notices[i]
    BY <1>2, Noticed
  <2> QED
    BY <2>1 DEF ReinitComing
<1> QED
  BY <1>1, <1>2

LEMMA LookUpByOthers ==
    ASSUME TypeOK, ReinitComing,
           \/ Client \/ Listener
           \/ \E u \in Units : CallbackBegin(u) \/ CallbackContinue(u)
           \/ \E kind \in EventKinds : DeviceEvent(kind)
    PROVE  ReinitComing' \/ LookUpLost
<1> USE DEF flags, device, worker, client, hal, history
<1>1. /\ UNCHANGED <<task, wpc, failed, delayedReinit>>
      /\ UNCHANGED tasks \/ \E t \in Tasks : Submit(t)
  BY DEF Client, ClientStart, StoreStopped, StoreDraining, ClientStop, ClientSubmit,
         ClientDestroy, ClientNotify, Listener, ListenerBegin, ListenerDead,
         ListenerSwapPending, ListenerSubmit, CallbackBegin, CallbackContinue, RenderOutput,
         RenderInputOnly, RenderInputDuplex, CheckDrain, CallbackSwap, CallbackNotify,
         CallbackSubmit, CallbackSwapPending, DeviceEvent, Tasks
<1>2. CASE \/ delayedReinit
           \/ /\ task \in {"reinit", "start"} /\ ~failed
              /\ wpc \in {"checkStopped", "stopUnits", "waitCallbacks", "recheckStopped",
                           "close", "waitClosed", "lookup"}
  BY <1>1, <1>2 DEF ReinitComing
<1>3. CASE \E i \in DOMAIN tasks : tasks[i] = "reinit"
  BY <1>1, <1>3, ReinitQueued
<1>4. ASSUME NEW u \in Units, cb[u] = "submitReinit" PROVE ReinitComing'
  <2>1. CASE CallbackSubmit(u)
    <3>1. Submit("reinit")
      BY <1>4, <2>1 DEF CallbackSubmit
    <3> QED
      BY <3>1, ReinitHandedOver
  <2>2. CASE ~CallbackSubmit(u)
    <3>1. cb'[u] = "submitReinit"
      BY <1>4, <2>2
      DEF TypeOK, Client, ClientStart, StoreStopped, StoreDraining, ClientStop, ClientSubmit,
          ClientDestroy, ClientNotify, Listener, ListenerBegin, ListenerDead,
          ListenerSwapPending, ListenerSubmit, CallbackBegin, CallbackContinue,
          RenderOutput, RenderInputOnly, RenderInputDuplex, CheckDrain, CallbackSwap,
          CallbackNotify, CallbackSubmit, CallbackSwapPending, DeviceEvent
    <3> QED
      BY <3>1 DEF ReinitComing
  <2> QED
    BY <2>1, <2>2
<1>5. CASE lpc \in {"change", "submitReinit"}
  <2>1. CASE lpc' = lpc
    BY <1>5, <2>1 DEF ReinitComing
  <2>2. CASE ListenerSwapPending
    BY <2>2 DEF ListenerSwapPending, ReinitComing, LookUpLost
  <2>3. CASE ListenerSubmit
    <3>1. Submit("reinit")
      BY <1>5, <2>3 DEF ListenerSubmit
    <3> QED
      BY <3>1, ReinitHandedOver
  <2> QED
    BY <1>5, <2>1, <2>2, <2>3
    DEF Client, ClientStart, StoreStopped, StoreDraining, ClientStop, ClientSubmit,
        ClientDestroy, ClientNotify, Listener, ListenerBegin, ListenerDead, CallbackBegin,
        CallbackContinue, RenderOutput, RenderInputOnly, RenderInputDuplex, CheckDrain,
        CallbackSwap, CallbackNotify, CallbackSubmit, CallbackSwapPending, DeviceEvent
<1>6. ASSUME NEW i \in DOMAIN notices, notices[i] = "change"
      PROVE  ReinitComing' \/ LookUpLost
  <2>1. CASE ListenerBegin
    <3>1. /\ Head(notices) = notices[1]
          /\ i # 1 => i - 1 \in DOMAIN notices' /\ notices'[i - 1] = notices[i]
      BY <1>6, <2>1, Delivered DEF ListenerBegin
    <3>2. CASE i = 1
      BY <1>6, <2>1, <3>1, <3>2 DEF ListenerBegin, ReinitComing, LookUpLost
    <3>3. CASE i # 1
      BY <1>6, <3>1, <3>3 DEF ReinitComing
    <3> QED
      BY <3>2, <3>3
  <2>2. CASE ~ListenerBegin
    <3>1. \/ UNCHANGED notices
          \/ \E kind \in {"change", "dead"} : notices' = Append(notices, kind)
      BY <2>2, KindsAssumption
      DEF Client, ClientStart, StoreStopped, StoreDraining, ClientStop, ClientSubmit,
          ClientDestroy, ClientNotify, Listener, ListenerDead, ListenerSwapPending,
          ListenerSubmit, CallbackBegin, CallbackContinue, RenderOutput, RenderInputOnly,
          RenderInputDuplex, CheckDrain, CallbackSwap, CallbackNotify, CallbackSubmit,
          CallbackSwapPending, DeviceEvent
    <3> QED
      BY <1>6, <3>1, NoticeKept
  <2> QED
    BY <2>1, <2>2
<1> QED
  BY <1>2, <1>3, <1>4, <1>5, <1>6 DEF ReinitComing

LEMMA LookUpByWorker ==
    ASSUME TypeOK, FailedOK, ReinitComing, Worker, ~ClosesForGood
    PROVE  ReinitComing' \/ LookUpLost
<1> USE DEF flags, device, worker, client, hal, history
<1>1. UNCHANGED <<lpc, cb>>
  BY DEF Worker, BeginTask, TaskDone, StopUnits, UnitsStopped, StartUnits, RestoreStopped,
         RestoreDraining, CheckStopped, RecheckStopped, Close, Closed, LookUpDevice, Setup,
         Restart, ClearDelayed, NotifyError, ClearSwitching, ClearPending, Uninstall,
         DestroySwap, Release
<1>2. CASE lpc \in {"change", "submitReinit"} \/ \E u \in Units : cb[u] = "submitReinit"
  BY <1>1, <1>2 DEF ReinitComing
<1>3. CASE delayedReinit
  <2>1. delayedReinit' \/ ClearDelayed
    BY <1>3
    DEF Worker, BeginTask, TaskDone, StopUnits, UnitsStopped, StartUnits, RestoreStopped,
        RestoreDraining, CheckStopped, RecheckStopped, Close, Closed, LookUpDevice, Setup,
        Restart, NotifyError, ClearSwitching, ClearPending, Uninstall, DestroySwap, Release
  <2> QED
    BY <2>1 DEF ReinitComing, LookUpLost
<1>4. ASSUME NEW i \in DOMAIN tasks, tasks[i] = "reinit"
      PROVE  ReinitComing'
  <2>1. CASE BeginTask /\ i = 1
    <3>1. task' = "reinit" /\ wpc' = "checkStopped" /\ ~failed'
      BY <1>4, <2>1, Taken DEF BeginTask, ClosesForGood, FirstStep
    <3> QED
      BY <3>1 DEF ReinitComing
  <2>2. CASE BeginTask /\ i # 1
    <3>1. i - 1 \in DOMAIN tasks' /\ tasks'[i - 1] = tasks[i]
      BY <2>2, Taken
    <3> QED
      BY <1>4, <3>1 DEF ReinitComing
  <2>3. CASE ~BeginTask
    <3>1. UNCHANGED tasks
      BY <2>3 DEF Worker, TaskDone, StopUnits, UnitsStopped, StartUnits, RestoreStopped,
         RestoreDraining, CheckStopped, RecheckStopped, Close, Closed, LookUpDevice, Setup,
         Restart, ClearDelayed, NotifyError, ClearSwitching, ClearPending, Uninstall,
         DestroySwap, Release
    <3> QED
      BY <1>4, <3>1, ReinitQueued
  <2> QED
    BY <2>1, <2>2, <2>3
<1>5. ASSUME task \in {"reinit", "start"}, ~failed,
             wpc \in {"checkStopped", "stopUnits", "waitCallbacks", "recheckStopped",
                       "close", "waitClosed", "lookup"}
      PROVE  ReinitComing' \/ LookUpLost
  <2>1. CASE CheckStopped \/ StopUnits \/ UnitsStopped \/ Close \/ Closed
    <3>1. /\ task' = task /\ ~failed'
          /\ wpc' \in {"stopUnits", "waitCallbacks", "recheckStopped",
                        "close", "waitClosed", "lookup"}
      BY <1>5, <2>1 DEF CheckStopped, StopUnits, UnitsStopped, Close, Closed, Goto
    <3> QED
      BY <1>5, <3>1 DEF ReinitComing
  <2>2. CASE RecheckStopped
    <3>1. CASE stopped
      BY <2>2, <3>1 DEF RecheckStopped, ReinitComing
    <3>2. CASE ~stopped
      BY <1>5, <2>2, <3>2 DEF RecheckStopped, Goto, ReinitComing
    <3> QED
      BY <3>1, <3>2
  <2>3. CASE LookUpDevice
    BY <2>3 DEF LookUpDevice, LookUpLost, ClosesForGood
  <2>4. ~(\/ BeginTask \/ TaskDone \/ StartUnits \/ RestoreStopped \/ RestoreDraining
          \/ Setup \/ Restart \/ ClearDelayed \/ NotifyError \/ ClearSwitching
          \/ ClearPending \/ Uninstall \/ DestroySwap \/ Release)
    BY <1>5
    DEF BeginTask, TaskDone, StartUnits, RestoreStopped, RestoreDraining, Setup, Restart,
        ClearDelayed, NotifyError, ClearSwitching, ClearPending, Uninstall, DestroySwap,
        Release, Goto
  <2> QED
    BY <2>1, <2>2, <2>3, <2>4 DEF Worker
<1>6. ASSUME NEW i \in DOMAIN notices, notices[i] = "change"
      PROVE  ReinitComing' \/ LookUpLost
  <2>1. CASE Close
    <3>1. task \in {"reinit", "start"}
      BY <2>1, StepsOfTasks DEF TypeOK, Close, Goto, ClosesForGood, Tasks
    <3> QED
      BY <1>5, <2>1, <3>1 DEF Close, Goto, ClosesForGood
  <2>2. ~Uninstall
    BY StepsOfTasks DEF TypeOK, Uninstall, ClosesForGood, Tasks
  <2>3. CASE ~Close
    <3>1. UNCHANGED notices
      BY <2>2, <2>3 DEF Worker, BeginTask, TaskDone, StopUnits, UnitsStopped, StartUnits,
         RestoreStopped, RestoreDraining, CheckStopped, RecheckStopped, Closed,
         LookUpDevice, Setup, Restart, ClearDelayed, NotifyError, ClearSwitching,
         ClearPending, DestroySwap, Release
    <3> QED
      BY <1>6, <3>1, NoticeKept
  <2> QED
    BY <2>1, <2>3
<1> QED
  BY <1>2, <1>3, <1>4, <1>5, <1>6 DEF ReinitComing

(* A change that comes while the listeners are installed is noticed. *)
LEMMA LookUpBegins ==
    ASSUME TypeOK, ~stale, [Next]_vars
    PROVE  (stale' => ReinitComing') \/ LookUpLost
<1> USE DEF flags, device, worker, client, hal, history
<1>1. ASSUME NEW kind \in EventKinds, DeviceEvent(kind)
      PROVE  (stale' => ReinitComing') \/ LookUpLost
  <2>1. CASE ~listening
    <3>1. events' > events
      BY <1>1 DEF DeviceEvent, TypeOK
    <3> QED
      BY <2>1, <3>1 DEF LookUpLost
  <2>2. CASE listening /\ stale'
    <3>1. kind = "change" /\ notices' = Append(notices, "change")
      BY <1>1, <2>2 DEF DeviceEvent, TypeOK
    <3>2. Len(notices) + 1 \in DOMAIN notices' /\ notices'[Len(notices) + 1] = "change"
      BY <3>1, Noticed
    <3> QED
      BY <3>2 DEF ReinitComing
  <2> QED
    BY <2>1, <2>2
<1>2. CASE ~\E kind \in EventKinds : DeviceEvent(kind)
  <2>1. ~stale'
    BY <1>2
    DEF Next, vars, Client, ClientStart, StoreStopped, StoreDraining, ClientStop, ClientSubmit,
        ClientDestroy, ClientNotify, Listener, ListenerBegin, ListenerDead,
        ListenerSwapPending, ListenerSubmit, CallbackBegin, CallbackContinue, RenderOutput,
        RenderInputOnly, RenderInputDuplex, CheckDrain, CallbackSwap, CallbackNotify,
        CallbackSubmit, CallbackSwapPending, Worker, BeginTask, TaskDone, StopUnits,
        UnitsStopped, StartUnits, RestoreStopped, RestoreDraining, CheckStopped,
        RecheckStopped, Close, Closed, LookUpDevice, Setup, Restart, ClearDelayed,
        NotifyError, ClearSwitching, ClearPending, Uninstall, DestroySwap, Release
  <2> QED
    BY <2>1
<1> QED
  BY <1>1, <1>2

LEMMA LookUpStep ==
    ASSUME TypeOK, FailedOK, [Next]_vars, stale => ReinitComing
    PROVE  (stale' => ReinitComing') \/ LookUpLost
<1>1. CASE UNCHANGED vars
  BY <1>1 DEF vars, flags, hal, worker, history, ReinitComing
<1>2. CASE ~stale
  BY <1>2, LookUpBegins
<1>3. CASE stale /\ Next /\ ~Worker
  BY <1>3, LookUpByOthers DEF Next
<1>4. CASE stale /\ Worker /\ ~ClosesForGood
  BY <1>4, LookUpByWorker
<1>5. CASE ClosesForGood
  BY <1>5 DEF LookUpLost
<1> QED
  BY <1>1, <1>2, <1>3, <1>4, <1>5

(* A change of the device is followed by a look-up of it, whatever the        *)
(* threads do in between, or the stream ends, or it is one of the four ways   *)
(* to lose it: no other step of any thread drops what is to bring the reinit  *)
(* about.                                                                     *)
THEOREM ChangeLost == Spec => ChangeLostFourWays
<1>1. IInv /\ [Next]_vars =>
          [(stale => ReinitComing) =>
              \/ (stale' => ReinitComing')
              \/ ClosesForGood \/ ClosesForGood'
              \/ (stale' /\ ~listening /\ events' > events)
              \/ (ListenerBegin /\ switchingDevice)
              \/ (ListenerSwapPending /\ reinitPending)
              \/ ClearDelayed]_vars
  BY LookUpStep DEF LookUpLost, IInv
<1> QED
  BY <1>1, Invariance, PTL DEF Spec, ChangeLostFourWays
=============================================================================
