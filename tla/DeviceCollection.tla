-------------------------- MODULE DeviceCollection --------------------------
(* The device-collection notifications of a context (src/backend/mod.rs:      *)
(* DevicesData, SharedDevices, add_ and remove_devices_changed_listener, the  *)
(* two system callbacks and the drop of AudioUnitContext).                    *)
(*                                                                            *)
(* The client registers a callback per scope; the context then listens to the *)
(* system for three properties.  A system callback only hands a task to the   *)
(* context's queue; the task looks the devices up, compares them with the     *)
(* list it remembers, and calls the client.                                   *)
EXTENDS Naturals, Sequences

CONSTANTS
    Lists,      \* the device lists a scope may have
    NoList,     \* the list of a scope without a callback
    Failures,   \* the HAL calls that may fail: "add", "remove" (of a listener)
    MaxChanges, \* bound: changes of the system's devices
    MaxCalls    \* bound: calls of the client

ASSUME ListsAssumption == Lists # {} /\ NoList \notin Lists
ASSUME FailuresAssumption == Failures \in SUBSET {"add", "remove"}

Scopes == {"input", "output"}
Properties == {"devices", "defaultInput", "defaultOutput"}

VARIABLES
    present,   \* present[s]: the devices of scope s the system has
    listeners, \* the properties the context listens to
    refused,   \* history: those of them the system has refused to remove
    notices,   \* notices[p]: the notifications of p the system has yet to deliver
    callback,  \* changed_callback of each scope is set
    list,      \* and the devices its client was last told of
    tasks,     \* the context's queue: tasks, and the scopes they are for
    task, wpc, \* the task being executed and where it is
    result,    \* what the last call of the client returned, or will
    asked,     \* the call the client waits for and its scopes
    wanted,    \* history: the scopes whose registration has returned Ok
    changes, calls,
    freed      \* the context has been dropped

system == <<present, listeners, refused, notices, changes>>
devices == <<callback, list>>
worker == <<tasks, task, wpc>>
client == <<result, asked, wanted, calls>>
vars == <<system, devices, worker, client, freed>>

None == [is |-> "none", for |-> {}]
Calls == {[is |-> i, for |-> d] : i \in {"add", "remove"}, d \in (SUBSET Scopes) \ {{}}}
Final == [is |-> "final", for |-> {}]
Reports == {[is |-> p, for |-> {}] : p \in Properties}
Tasks == Calls \cup Reports \cup {Final}

Steps(t) ==
    {"finish"} \cup
    CASE t.is = "add" -> {"check", "addDevices", "addInput", "addOutput",
                          "setInput", "setOutput"}
      [] t.is = "remove" -> {"clear", "removeDevices", "removeInput", "removeOutput"}
      [] t.is = "devices" -> {"look", "queryInput", "callInput", "queryOutput",
                              "callOutput"}
      [] t.is = "defaultInput" -> {"look", "callInput"}
      [] t.is = "defaultOutput" -> {"look", "callOutput"}
      [] t.is = "final" -> {"drop"}

TypeOK ==
    /\ present \in [Scopes -> Lists]
    /\ listeners \in SUBSET Properties
    /\ refused \in SUBSET listeners
    /\ notices \in [Properties -> Nat]
    /\ callback \in [Scopes -> BOOLEAN]
    /\ list \in [Scopes -> Lists \cup {NoList}]
    /\ \A s \in Scopes : callback[s] <=> list[s] # NoList
    /\ tasks \in Seq(Tasks)
    /\ \/ task = None /\ wpc = "idle"
       \/ task \in Tasks /\ wpc \in Steps(task)
    /\ result \in {"ok", "invalid", "error"}
    /\ asked \in Calls \cup {None, Final}
    /\ wanted \in SUBSET Scopes
    /\ changes \in Nat /\ calls \in Nat
    /\ freed \in BOOLEAN

Init ==
    /\ present \in [Scopes -> Lists]
    /\ listeners = {} /\ refused = {} /\ notices = [p \in Properties |-> 0]
    /\ callback = [s \in Scopes |-> FALSE]
    /\ list = [s \in Scopes |-> NoList]
    /\ tasks = <<>> /\ task = None /\ wpc = "idle"
    /\ result = "ok" /\ asked = None /\ wanted = {}
    /\ changes = 0 /\ calls = 0
    /\ freed = FALSE

Submit(t) == tasks' = Append(tasks, t)
Goto(from, to) == wpc = from /\ wpc' = to
Registered == \E s \in Scopes : callback[s]

-----------------------------------------------------------------------------
(* The system                                                                 *)

Announce(p) == IF p \in listeners THEN [notices EXCEPT ![p] = @ + 1] ELSE notices

(* Devices come and go, in one scope or both: one notification. *)
DevicesChange ==
    /\ changes < MaxChanges
    /\ changes' = changes + 1
    /\ present' \in [Scopes -> Lists]
    /\ present' # present
    /\ notices' = Announce("devices")
    /\ UNCHANGED <<listeners, refused, devices, worker, client, freed>>

DefaultChanges(p) ==
    /\ changes < MaxChanges
    /\ changes' = changes + 1
    /\ notices' = Announce(p)
    /\ UNCHANGED <<present, listeners, refused, devices, worker, client, freed>>

(* audiounit_collection_changed_callback and                                  *)
(* audiounit_default_device_changed_callback: nothing orders the notifications *)
(* of different properties.                                                   *)
Notify(p) ==
    /\ notices[p] > 0
    /\ notices' = [notices EXCEPT ![p] = @ - 1]
    /\ Submit([is |-> p, for |-> {}])
    /\ UNCHANGED <<present, listeners, refused, changes, devices, task, wpc, client, freed>>

-----------------------------------------------------------------------------
(* The client: each call is a task it waits for                               *)

Ask(c) ==
    /\ asked = None /\ ~freed
    /\ calls < MaxCalls
    /\ calls' = calls + 1
    /\ asked' = c
    /\ Submit(c)
    /\ UNCHANGED <<system, devices, task, wpc, result, wanted, freed>>

(* Only a context without callbacks may be dropped (an assertion). *)
AskDrop ==
    /\ asked = None /\ ~freed
    /\ ~Registered
    /\ asked' = Final
    /\ Submit(Final)
    /\ UNCHANGED <<system, devices, task, wpc, result, wanted, calls, freed>>

-----------------------------------------------------------------------------
(* The context's queue                                                        *)

FirstStep(t) ==
    CASE t.is = "add" -> "check"
      [] t.is = "remove" -> "clear"
      [] t.is = "final" -> "drop"
      [] OTHER -> "look"

BeginTask ==
    /\ wpc = "idle" /\ tasks # <<>>
    /\ tasks' = Tail(tasks)
    /\ IF freed THEN UNCHANGED <<task, wpc>>
                ELSE task' = Head(tasks) /\ wpc' = FirstStep(Head(tasks))
    /\ UNCHANGED <<system, devices, client, freed>>

(* Mutant: the client gets control back before its task has been executed. *)
TaskDoneEarly ==
    \/ /\ asked # None /\ asked # Final
       /\ asked' = None
       /\ wanted' = IF asked.is = "remove" THEN wanted \ asked.for ELSE wanted
       /\ UNCHANGED <<system, devices, worker, result, calls, freed>>
    \/ /\ Goto("finish", "idle")
       /\ task' = None
       /\ asked' = IF task = Final THEN None ELSE asked
       /\ UNCHANGED <<system, devices, tasks, result, wanted, calls, freed>>

(* run_sync and run_final return. *)
TaskDone ==
    /\ Goto("finish", "idle")
    /\ task' = None
    /\ IF task \in Reports
         THEN UNCHANGED <<asked, wanted>>
         ELSE /\ asked' = None
              /\ wanted' = CASE task.is = "add" /\ result = "ok" -> wanted \cup task.for
                             [] task.is = "remove" -> wanted \ task.for
                             [] OTHER -> wanted
    /\ UNCHANGED <<system, devices, tasks, result, calls, freed>>

(* The listeners ls are removed, and the system makes sure that none of their *)
(* notifications is delivered any more; those that cannot be stay.            *)
RemoveListeners(ls) ==
    \E stay \in IF "remove" \in Failures THEN SUBSET ls ELSE {{}} :
        /\ listeners' = (listeners \ ls) \cup (listeners \cap stay)
        /\ refused' = (refused \ ls) \cup (listeners \cap stay)
        /\ notices' = [p \in Properties |-> IF p \in listeners' THEN notices[p] ELSE 0]

(* add_devices_changed_listener: a second registration of a scope is refused, *)
(* and only the first registration adds the listeners.                        *)
Check ==
    /\ wpc = "check"
    /\ IF \E s \in task.for : callback[s]
         THEN result' = "invalid" /\ wpc' = "finish"
         ELSE result' = "ok" /\ wpc' = IF Registered THEN "setInput" ELSE "addDevices"
    /\ UNCHANGED <<system, devices, tasks, task, asked, wanted, calls, freed>>

(* Mutant: the cleanup forgets the listener for the default input device. *)
CleanupDevicesOnly(ls) == RemoveListeners(ls \ {"defaultInput"})

(* cleanup, with the listeners added before the one that could not be.        *)
Cleanup(ls) == RemoveListeners(ls)

AddListener(from, p, to, added) ==
    /\ wpc = from
    /\ \/ /\ listeners' = listeners \cup {p}
          /\ refused' = refused \ {p}
          /\ wpc' = to
          /\ UNCHANGED <<notices, result>>
       \/ /\ "add" \in Failures
          /\ Cleanup(added)
          /\ result' = "error"
          /\ wpc' = "finish"
    /\ UNCHANGED <<present, changes, devices, tasks, task, asked, wanted, calls, freed>>

AddListeners ==
    \/ AddListener("addDevices", "devices", "addInput", {})
    \/ AddListener("addInput", "defaultInput", "addOutput", {"devices"})
    \/ AddListener("addOutput", "defaultOutput", "setInput", {"devices", "defaultInput"})

(* The callback is set together with the devices the scope has now.           *)
SetScope(from, s, to) ==
    /\ Goto(from, to)
    /\ callback' = [callback EXCEPT ![s] = @ \/ s \in task.for]
    /\ list' = IF s \in task.for THEN [list EXCEPT ![s] = present[s]] ELSE list
    /\ UNCHANGED <<system, tasks, task, client, freed>>

(* Mutant: the listeners are removed with the first callback. *)
ClearStopsListening ==
    /\ Goto("clear", "removeDevices")
    /\ callback' = [s \in Scopes |-> callback[s] /\ s \notin task.for]
    /\ list' = [s \in Scopes |-> IF s \in task.for THEN NoList ELSE list[s]]
    /\ result' = "ok"
    /\ UNCHANGED <<system, tasks, task, asked, wanted, calls, freed>>

(* remove_devices_changed_listener: listening goes on while a callback is left. *)
Clear ==
    /\ callback' = [s \in Scopes |-> callback[s] /\ s \notin task.for]
    /\ Goto("clear", IF \E s \in Scopes : callback'[s] THEN "finish" ELSE "removeDevices")
    /\ list' = [s \in Scopes |-> IF s \in task.for THEN NoList ELSE list[s]]
    /\ result' = "ok"
    /\ UNCHANGED <<system, tasks, task, asked, wanted, calls, freed>>

(* Each listener is removed, whether or not the one before could be.          *)
RemoveListener(from, p, to) ==
    /\ Goto(from, to)
    /\ RemoveListeners({p})
    /\ result' \in {result} \cup (IF "remove" \in Failures THEN {"error"} ELSE {})
    /\ UNCHANGED <<present, changes, devices, tasks, task, asked, wanted, calls, freed>>

RemoveAll ==
    \/ RemoveListener("removeDevices", "devices", "removeInput")
    \/ RemoveListener("removeInput", "defaultInput", "removeOutput")
    \/ RemoveListener("removeOutput", "defaultOutput", "finish")

-----------------------------------------------------------------------------
(* The tasks of the two system callbacks                                      *)

(* What a report does first for a context with a callback. *)
ReportStep ==
    CASE task.is = "devices" -> "queryInput"
      [] task.is = "defaultInput" -> IF callback["input"] THEN "callInput" ELSE "finish"
      [] task.is = "defaultOutput" -> IF callback["output"] THEN "callOutput" ELSE "finish"

Look ==
    /\ wpc = "look"
    /\ wpc' = IF Registered THEN ReportStep ELSE "finish"
    /\ UNCHANGED <<system, devices, tasks, task, client, freed>>

(* Mutant: the devices of both scopes are compared, those of one remembered. *)
QueryInputOnly(from, s, call, next) ==
    /\ Goto(from, IF callback[s] /\ list[s] # present[s] THEN call ELSE next)
    /\ list' = IF callback[s] /\ s = "input" THEN [list EXCEPT ![s] = present[s]] ELSE list
    /\ UNCHANGED <<system, callback, tasks, task, client, freed>>

(* update_devices: the client is only called when the list has changed.       *)
Query(from, s, call, next) ==
    /\ Goto(from, IF callback[s] /\ list[s] # present[s] THEN call ELSE next)
    /\ list' = IF callback[s] THEN [list EXCEPT ![s] = present[s]] ELSE list
    /\ UNCHANGED <<system, callback, tasks, task, client, freed>>

(* The client's callback returns. *)
CallReturns ==
    /\ \/ Goto("callInput", IF task.is = "devices" THEN "queryOutput" ELSE "finish")
       \/ Goto("callOutput", "finish")
    /\ UNCHANGED <<system, devices, tasks, task, client, freed>>

(* run_final: the tasks that follow are cancelled. *)
DropContext ==
    /\ Goto("drop", "finish")
    /\ freed' = TRUE
    /\ UNCHANGED <<system, devices, tasks, task, client>>

Worker ==
    \/ BeginTask \/ TaskDone
    \/ Check \/ AddListeners
    \/ SetScope("setInput", "input", "setOutput")
    \/ SetScope("setOutput", "output", "finish")
    \/ Clear \/ RemoveAll
    \/ Look
    \/ Query("queryInput", "input", "callInput", "queryOutput")
    \/ Query("queryOutput", "output", "callOutput", "finish")
    \/ CallReturns
    \/ DropContext

Next ==
    \/ DevicesChange \/ (\E p \in {"defaultInput", "defaultOutput"} : DefaultChanges(p))
    \/ \E p \in Properties : Notify(p)
    \/ (\E c \in Calls : Ask(c)) \/ AskDrop
    \/ Worker

(* The system delivers its notifications, the queue executes its tasks, and   *)
(* the client's callbacks return.                                             *)
Fairness == (\A p \in Properties : WF_vars(Notify(p))) /\ WF_vars(Worker)

Spec == Init /\ [][Next]_vars
FairSpec == Spec /\ Fairness

-----------------------------------------------------------------------------
(* The client's callback is only called for a scope it has registered, or is  *)
(* registering, and never after the call that removes it has returned.        *)
Calling == IF wpc = "callInput" THEN {"input"}
           ELSE IF wpc = "callOutput" THEN {"output"} ELSE {}

NoCallAfterRemoval ==
    Calling \subseteq wanted \cup (IF asked.is = "add" THEN asked.for ELSE {})

(* A change of the devices is never lost, whenever it happens: while the      *)
(* context remembers another list, a report of it is on its way.              *)
OnItsWay(s) ==
    \/ notices["devices"] > 0
    \/ \E i \in DOMAIN tasks : tasks[i].is = "devices"
    \/ task.is = "devices" /\ wpc \in {"look", "queryInput"}
    \/ task.is = "devices" /\ s = "output" /\ wpc \in {"callInput", "queryOutput"}

NoLostChange ==
    \A s \in Scopes : callback[s] /\ list[s] # present[s] => OnItsWay(s)

(* The context listens to all of the properties while a callback is set, and  *)
(* otherwise to none but those the system has refused to remove: neither a    *)
(* registration that fails half-way nor a removal that goes on after a        *)
(* failure leaves anything else behind.                                       *)
AllOrNoListeners ==
    task.is \notin {"add", "remove"} \/ wpc = "finish" =>
        listeners = IF Registered THEN Properties ELSE refused

(* A dropped context is left alone: no task of its queue goes on, and the     *)
(* system keeps at most the listeners it has refused to remove.               *)
NothingAfterDrop ==
    freed => /\ listeners = refused
             /\ \A p \in Properties \ refused : notices[p] = 0
             /\ task.is \in {"none", "final"}

(* The tasks are executed as the contract of the context's queue promises: in *)
(* the order they were handed over, one at a time, and none after the final   *)
(* one, at whose end run_final closes the queue.                              *)
Queue == INSTANCE QueueContract
    WITH Queues <- {"context"},
         Works <- Tasks,
         waiting <- [q \in {"context"} |-> tasks],
         performing <- IF task = None THEN {} ELSE {<<"context", task>>},
         final <- {Final},
         closed <- [q \in {"context"} |-> freed /\ task = None]
UsesQueue == Queue!Spec

(* The client is told of every change in the end, unless it goes back before. *)
ChangesReported ==
    \A s \in Scopes : (callback[s] /\ list[s] # present[s])
                          ~> (~callback[s] \/ list[s] = present[s])
=============================================================================
