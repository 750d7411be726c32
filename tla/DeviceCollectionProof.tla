----------------------- MODULE DeviceCollectionProof -----------------------
(* The notifications of DeviceCollection are safe for any devices, failures    *)
(* and number of changes and calls.                                            *)
EXTENDS DeviceCollection, TLAPS

-----------------------------------------------------------------------------
(* The client waits for its one task, wherever that is. *)
Waited ==
    /\ task \notin Reports \cup {None} =>
          task = asked /\ \A i \in DOMAIN tasks : tasks[i] \in Reports
    /\ \A i, j \in DOMAIN tasks :
          tasks[i] \notin Reports => tasks[i] = asked /\ (tasks[j] \notin Reports => i = j)

(* A callback is set for a scope whose registration has returned, or will      *)
(* return Ok; and it is set while it is called.                                *)
Wanted ==
    /\ \A s \in Scopes : callback[s] =>
          \/ s \in wanted
          \/ /\ task.is = "add" /\ s \in task.for
             /\ wpc \in {"setOutput", "finish"} /\ result = "ok"
    /\ task.is = "add" /\ wpc \notin {"check", "finish"} => result = "ok"
    /\ task.is = "remove" /\ wpc # "clear" => \A s \in task.for : ~callback[s]
    /\ wpc = "callInput" => callback["input"]
    /\ wpc = "callOutput" => callback["output"]

(* Half-way through a registration or a removal no callback is set, or all of  *)
(* the listeners are there.                                                    *)
HalfWay ==
    /\ wpc \in {"addDevices", "addInput", "addOutput", "removeDevices", "removeInput",
                "removeOutput"} => ~Registered
    /\ wpc = "addDevices" => listeners = refused
    /\ wpc = "addInput" => listeners = refused \cup {"devices"}
    /\ wpc = "addOutput" => listeners = refused \cup {"devices", "defaultInput"}
    /\ wpc \in {"setInput", "setOutput"} => listeners = Properties
    /\ wpc = "setOutput" /\ "input" \in task.for => callback["input"]
    /\ wpc = "removeInput" => listeners \ refused \subseteq {"defaultInput", "defaultOutput"}
    /\ wpc = "removeOutput" => listeners \ refused \subseteq {"defaultOutput"}

Listening ==
    /\ task.is \notin {"add", "remove"} \/ wpc \in {"check", "clear", "finish"} =>
          listeners = IF Registered THEN Properties ELSE refused
    /\ HalfWay
    /\ \A p \in Properties : notices[p] > 0 => p \in listeners

Ended ==
    /\ freed => asked \in {None, Final} /\ task \in {None, Final}
    /\ freed \/ asked = Final => ~Registered

IInv == TypeOK /\ Waited /\ Wanted /\ Listening /\ Ended /\ NoLostChange

-----------------------------------------------------------------------------
(* Tasks and the places in them                                               *)

LEMMA Kinds ==
    /\ \A t \in Calls : /\ t.is \in {"add", "remove"}
                        /\ t.for \subseteq Scopes /\ t.for # {}
    /\ \A t \in Reports : t.is \in Properties
    /\ \A p \in Properties : [is |-> p, for |-> {}] \in Reports
    /\ Final.is = "final" /\ None.is = "none"
    /\ None \notin Tasks /\ Final \notin Calls \cup Reports
    /\ Tasks = Calls \cup Reports \cup {Final}
<1>1. \A t \in Calls : /\ t.is \in {"add", "remove"}
                       /\ t.for \subseteq Scopes /\ t.for # {}
  BY DEF Calls
<1>2. \A t \in Reports : t.is \in Properties
  BY DEF Reports
<1>3. \A p \in Properties : [is |-> p, for |-> {}] \in Reports
  BY DEF Reports
<1>4. Final.is = "final" /\ None.is = "none"
  BY DEF Final, None
<1>5. Tasks = Calls \cup Reports \cup {Final}
  BY DEF Tasks
<1>6. None \notin Tasks /\ Final \notin Calls \cup Reports
  BY <1>1, <1>2, <1>4, <1>5 DEF Properties
<1> QED
  BY <1>1, <1>2, <1>3, <1>4, <1>5, <1>6

LEMMA StepsOf ==
    ASSUME NEW t \in Tasks
    PROVE  /\ t.is = "add" => Steps(t) = {"finish", "check", "addDevices", "addInput",
                                          "addOutput", "setInput", "setOutput"}
           /\ t.is = "remove" => Steps(t) = {"finish", "clear", "removeDevices",
                                             "removeInput", "removeOutput"}
           /\ t.is = "devices" => Steps(t) = {"finish", "look", "queryInput", "callInput",
                                              "queryOutput", "callOutput"}
           /\ t.is = "defaultInput" => Steps(t) = {"finish", "look", "callInput"}
           /\ t.is = "defaultOutput" => Steps(t) = {"finish", "look", "callOutput"}
           /\ t.is = "final" => Steps(t) = {"finish", "drop"}
BY DEF Steps

(* Which task a place belongs to. *)
LEMMA Places ==
    ASSUME TypeOK
    PROVE  /\ wpc = "idle" <=> task = None
           /\ wpc # "idle" => task \in Tasks
           /\ wpc \in {"check", "addDevices", "addInput", "addOutput", "setInput",
                       "setOutput"} => task \in Calls /\ task.is = "add"
           /\ wpc \in {"clear", "removeDevices", "removeInput", "removeOutput"}
                  => task \in Calls /\ task.is = "remove"
           /\ wpc = "look" => task \in Reports
           /\ wpc \in {"queryInput", "queryOutput"} => task \in Reports /\ task.is = "devices"
           /\ wpc = "callInput" => task \in Reports /\ task.is \in {"devices", "defaultInput"}
           /\ wpc = "callOutput" => task \in Reports /\ task.is \in {"devices", "defaultOutput"}
           /\ wpc = "drop" => task = Final
<1>1. CASE task = None
  BY <1>1, Kinds DEF TypeOK
<1>2. CASE task \in Tasks /\ wpc \in Steps(task)
  <2>1. CASE task \in Calls /\ task.is = "add"
    BY <1>2, <2>1, Kinds, StepsOf
  <2>2. CASE task \in Calls /\ task.is = "remove"
    BY <1>2, <2>2, Kinds, StepsOf
  <2>3. CASE task \in Reports
    BY <1>2, <2>3, Kinds, StepsOf DEF Properties
  <2>4. CASE task = Final
    BY <1>2, <2>4, Kinds, StepsOf
  <2> QED
    BY <1>2, <2>1, <2>2, <2>3, <2>4, Kinds
<1> QED
  BY <1>1, <1>2 DEF TypeOK

-----------------------------------------------------------------------------
LEMMA InitInvariant == Init => IInv
<1> SUFFICES ASSUME Init PROVE IInv
  OBVIOUS
<1>1. TypeOK
  <2>1. notices \in [Properties -> Nat] /\ callback \in [Scopes -> BOOLEAN]
    BY DEF Init
  <2>2. tasks \in Seq(Tasks)
    BY DEF Init
  <2>3. list \in [Scopes -> Lists \cup {NoList}]
        /\ \A s \in Scopes : callback[s] <=> list[s] # NoList
    BY DEF Init
  <2> QED
    BY <2>1, <2>2, <2>3 DEF Init, TypeOK
<1>2. ~Registered
  BY DEF Init, Registered, Scopes
<1>3. Waited /\ Wanted /\ Ended /\ NoLostChange
  BY <1>2, Kinds DEF Init, Waited, Wanted, Ended, NoLostChange
<1>4. Listening
  BY <1>2, Kinds DEF Init, Listening, HalfWay
<1> QED
  BY <1>1, <1>3, <1>4 DEF IInv

(* While a callback is set the context listens to every property. *)
LEMMA RegisteredListens ==
    ASSUME TypeOK, Listening, Registered
    PROVE  listeners = Properties
<1>1. wpc \notin {"addDevices", "addInput", "addOutput", "removeDevices", "removeInput",
                  "removeOutput"}
  BY DEF Listening, HalfWay
<1>2. CASE wpc \in {"setInput", "setOutput"}
  BY <1>2 DEF Listening, HalfWay
<1>3. CASE wpc \in {"check", "clear", "finish"}
  BY <1>3 DEF Listening
<1>4. CASE wpc \notin {"setInput", "setOutput", "check", "clear", "finish"}
  <2>1. task.is \notin {"add", "remove"}
    BY <1>1, <1>4, Kinds, StepsOf DEF TypeOK
  <2> QED
    BY <2>1 DEF Listening
<1> QED
  BY <1>2, <1>3, <1>4

LEMMA Announcing ==
    ASSUME TypeOK, NEW p \in Properties
    PROVE  /\ Announce(p) \in [Properties -> Nat]
           /\ \A q \in Properties : /\ notices[q] > 0 => Announce(p)[q] > 0
                                    /\ Announce(p)[q] > 0 => notices[q] > 0 \/ q \in listeners
           /\ p \in listeners => Announce(p)[p] > 0
BY DEF TypeOK, Announce

(* A change of the devices is announced if anybody is to be told. *)
LEMMA SystemChanges ==
    ASSUME IInv, DevicesChange \/ \E p \in {"defaultInput", "defaultOutput"} : DefaultChanges(p)
    PROVE  IInv'
<1>1. PICK p \in Properties :
          /\ notices' = Announce(p) /\ present' \in [Scopes -> Lists]
          /\ p = "devices" \/ present' = present
          /\ changes' = changes + 1
          /\ UNCHANGED <<listeners, refused, devices, worker, client, freed>>
  BY DEF DevicesChange, DefaultChanges, Properties, IInv, TypeOK
<1> USE DEF devices, worker, client
<1>2. /\ notices' \in [Properties -> Nat]
      /\ \A q \in Properties : /\ notices[q] > 0 => notices'[q] > 0
                               /\ notices'[q] > 0 => notices[q] > 0 \/ q \in listeners
      /\ p \in listeners => notices'[p] > 0
  BY <1>1, Announcing DEF IInv
<1>3. TypeOK'
  BY <1>1, <1>2 DEF IInv, TypeOK
<1>4. Waited' /\ Wanted' /\ Ended'
  BY <1>1 DEF IInv, Waited, Wanted, Ended, Registered
<1>5. Listening'
  BY <1>1, <1>2 DEF IInv, Listening, HalfWay, Registered
<1>6. NoLostChange'
  <2> SUFFICES ASSUME NEW s \in Scopes, callback[s], list[s] # present'[s]
               PROVE  OnItsWay(s)'
    BY <1>1 DEF NoLostChange
  <2>1. CASE p = "devices"
    <3>1. listeners = Properties
      BY RegisteredListens DEF IInv, Registered
    <3> QED
      BY <1>2, <2>1, <3>1 DEF OnItsWay
  <2>2. CASE p # "devices"
    <3>1. OnItsWay(s)
      BY <1>1, <2>2 DEF IInv, NoLostChange
    <3>2. notices["devices"] > 0 => notices'["devices"] > 0
      BY <1>2 DEF Properties
    <3> QED
      BY <1>1, <3>1, <3>2 DEF OnItsWay
  <2> QED
    BY <2>1, <2>2
<1> QED
  BY <1>3, <1>4, <1>5, <1>6 DEF IInv

(* A task is appended: a report, or the one the client waits for from now on.  *)
LEMMA Appends ==
    ASSUME NEW t \in Tasks, Submit(t), tasks \in Seq(Tasks)
    PROVE  /\ tasks' \in Seq(Tasks)
           /\ DOMAIN tasks' = 1 .. Len(tasks) + 1 /\ DOMAIN tasks = 1 .. Len(tasks)
           /\ \A i \in DOMAIN tasks : tasks'[i] = tasks[i]
           /\ tasks'[Len(tasks) + 1] = t
BY DEF Submit

LEMMA NotifyInvariant ==
    ASSUME IInv, NEW p \in Properties, Notify(p)
    PROVE  IInv'
<1> DEFINE t == [is |-> p, for |-> {}]
<1>1. t \in Reports /\ t \in Tasks /\ t.is = p /\ Submit(t)
  BY Kinds DEF Notify
<1> HIDE DEF t
<1>2. /\ notices[p] > 0 /\ notices' = [notices EXCEPT ![p] = @ - 1]
      /\ UNCHANGED <<present, listeners, refused, changes, devices, task, wpc, client, freed>>
  BY DEF Notify
<1> USE DEF devices, client
<1>3. /\ tasks' \in Seq(Tasks)
      /\ DOMAIN tasks' = 1 .. Len(tasks) + 1 /\ DOMAIN tasks = 1 .. Len(tasks)
      /\ \A i \in DOMAIN tasks : tasks'[i] = tasks[i]
      /\ tasks'[Len(tasks) + 1] = t /\ Len(tasks) \in Nat
  BY <1>1, Appends DEF IInv, TypeOK
<1>4. /\ notices' \in [Properties -> Nat]
      /\ \A q \in Properties : notices'[q] > 0 => notices[q] > 0
      /\ \A q \in Properties \ {p} : notices'[q] = notices[q]
  BY <1>2 DEF IInv, TypeOK
<1>5. TypeOK'
  BY <1>2, <1>3, <1>4 DEF IInv, TypeOK
<1>6. Waited'
  <2>1. \A i \in DOMAIN tasks' : tasks'[i] \in Reports \/ (i \in DOMAIN tasks /\ tasks'[i] = tasks[i])
    BY <1>1, <1>3
  <2> QED
    BY <1>2, <2>1 DEF IInv, Waited
<1>7. Wanted' /\ Ended'
  BY <1>2 DEF IInv, Wanted, Ended, Registered
<1>8. Listening'
  BY <1>2, <1>4 DEF IInv, Listening, HalfWay, Registered
<1>9. NoLostChange'
  <2> SUFFICES ASSUME NEW s \in Scopes, OnItsWay(s) PROVE OnItsWay(s)'
    BY <1>2 DEF IInv, NoLostChange
  <2>1. CASE p = "devices"
    <3>1. tasks'[Len(tasks) + 1].is = "devices" /\ Len(tasks) + 1 \in DOMAIN tasks'
      BY <1>1, <1>3, <2>1
    <3> QED
      BY <3>1 DEF OnItsWay
  <2>2. CASE p # "devices"
    <3>1. notices'["devices"] = notices["devices"]
      BY <1>4, <2>2 DEF Properties
    <3>2. \A i \in DOMAIN tasks : i \in DOMAIN tasks' /\ tasks'[i] = tasks[i]
      BY <1>3
    <3> QED
      BY <1>2, <3>1, <3>2 DEF OnItsWay
  <2> QED
    BY <2>1, <2>2
<1> QED
  BY <1>5, <1>6, <1>7, <1>8, <1>9 DEF IInv

LEMMA AskInvariant ==
    ASSUME IInv, NEW c \in Calls \cup {Final},
           (c \in Calls /\ Ask(c)) \/ (c = Final /\ AskDrop)
    PROVE  IInv'
<1>1. /\ asked = None /\ ~freed /\ asked' = c /\ Submit(c) /\ c \in Tasks
      /\ c = Final => ~Registered
      /\ calls' = calls + 1 \/ calls' = calls
      /\ UNCHANGED <<system, devices, task, wpc, result, wanted, freed>>
  <2>1. CASE c \in Calls /\ Ask(c)
    BY <2>1, Kinds DEF Ask
  <2>2. CASE c = Final /\ AskDrop
    BY <2>2, Kinds DEF AskDrop
  <2> QED
    BY <2>1, <2>2
<1> USE DEF system, devices
<1>2. /\ tasks' \in Seq(Tasks)
      /\ DOMAIN tasks' = 1 .. Len(tasks) + 1 /\ DOMAIN tasks = 1 .. Len(tasks)
      /\ \A i \in DOMAIN tasks : tasks'[i] = tasks[i]
      /\ tasks'[Len(tasks) + 1] = c
  BY <1>1, Appends DEF IInv, TypeOK
<1>3. TypeOK'
  BY <1>1, <1>2 DEF IInv, TypeOK
<1>4. task \in Reports \cup {None} /\ \A i \in DOMAIN tasks : tasks[i] \in Reports
  BY <1>1, Kinds DEF IInv, TypeOK, Waited
<1>5. Waited'
  BY <1>1, <1>2, <1>4 DEF Waited
<1>6. Wanted' /\ Ended'
  BY <1>1, <1>4, Kinds DEF IInv, Wanted, Ended, Registered
<1>7. Listening'
  BY <1>1 DEF IInv, Listening, HalfWay, Registered
<1>8. NoLostChange'
  <2>1. \A i \in DOMAIN tasks : i \in DOMAIN tasks' /\ tasks'[i] = tasks[i]
    BY <1>2
  <2> QED
    BY <1>1, <2>1 DEF IInv, NoLostChange, OnItsWay
<1> QED
  BY <1>3, <1>5, <1>6, <1>7, <1>8 DEF IInv

-----------------------------------------------------------------------------
(* The queue                                                                  *)

LEMMA FirstSteps ==
    ASSUME NEW t \in Tasks
    PROVE  /\ FirstStep(t) \in Steps(t)
           /\ t.is = "add" => FirstStep(t) = "check"
           /\ t.is = "remove" => FirstStep(t) = "clear"
           /\ t = Final => FirstStep(t) = "drop"
           /\ t \in Reports => FirstStep(t) = "look"
<1>1. CASE t.is = "add"
  BY <1>1, Kinds, StepsOf DEF FirstStep, Properties
<1>2. CASE t.is = "remove"
  BY <1>2, Kinds, StepsOf DEF FirstStep, Properties
<1>3. CASE t = Final
  BY <1>3, Kinds, StepsOf DEF FirstStep, Properties
<1>4. CASE t \in Reports
  BY <1>4, Kinds, StepsOf DEF FirstStep, Properties
<1> QED
  BY <1>1, <1>2, <1>3, <1>4, Kinds

LEMMA Removes ==
    ASSUME tasks \in Seq(Tasks), tasks # <<>>, tasks' = Tail(tasks)
    PROVE  /\ tasks' \in Seq(Tasks)
           /\ 1 \in DOMAIN tasks /\ Head(tasks) = tasks[1] /\ tasks[1] \in Tasks
           /\ \A i \in DOMAIN tasks' : i + 1 \in DOMAIN tasks /\ tasks'[i] = tasks[i + 1]
                                       /\ i + 1 # 1 /\ i \in Nat
           /\ \A i \in DOMAIN tasks : i # 1 => i - 1 \in DOMAIN tasks' /\ tasks'[i - 1] = tasks[i]
OBVIOUS

LEMMA BeginTaskInvariant ==
    ASSUME IInv, BeginTask
    PROVE  IInv'
<1>1. /\ task = None /\ tasks # <<>> /\ tasks' = Tail(tasks)
      /\ UNCHANGED <<system, devices, client, freed>>
  BY Places DEF BeginTask, IInv
<1> USE DEF system, devices, client
<1>2. /\ tasks' \in Seq(Tasks)
      /\ 1 \in DOMAIN tasks /\ Head(tasks) = tasks[1] /\ tasks[1] \in Tasks
      /\ \A i \in DOMAIN tasks' : i + 1 \in DOMAIN tasks /\ tasks'[i] = tasks[i + 1]
                                  /\ i + 1 # 1 /\ i \in Nat
      /\ \A i \in DOMAIN tasks : i # 1 => i - 1 \in DOMAIN tasks' /\ tasks'[i - 1] = tasks[i]
  BY <1>1, Removes DEF IInv, TypeOK
<1>3. /\ listeners = IF Registered THEN Properties ELSE refused
      /\ \A s \in Scopes : callback[s] => s \in wanted
  BY <1>1, Kinds DEF IInv, Listening, Wanted
<1>4. CASE freed
  <2>1. UNCHANGED <<task, wpc>> /\ ~Registered
    BY <1>4 DEF BeginTask, IInv, Ended
  <2>2. TypeOK' /\ Ended' /\ Wanted' /\ Listening'
    BY <1>1, <1>2, <2>1
       DEF IInv, TypeOK, Ended, Wanted, Listening, HalfWay, Registered
  <2>3. Waited'
    <3>1. ASSUME NEW i \in DOMAIN tasks', NEW j \in DOMAIN tasks', tasks'[i] \notin Reports
          PROVE  tasks'[i] = asked /\ (tasks'[j] \notin Reports => i = j)
      <4>1. /\ tasks'[i] = tasks[i + 1] /\ i + 1 \in DOMAIN tasks
            /\ tasks'[j] = tasks[j + 1] /\ j + 1 \in DOMAIN tasks
            /\ i + 1 = j + 1 => i = j
        BY <1>2, <3>1
      <4> QED
        BY <3>1, <4>1 DEF IInv, Waited
    <3> QED
      BY <1>1, <2>1, <3>1 DEF Waited
  <2>4. NoLostChange'
    BY <1>1, <2>1 DEF NoLostChange, Registered
  <2> QED
    BY <2>2, <2>3, <2>4 DEF IInv
<1>5. CASE ~freed
  <2>1. task' = tasks[1] /\ wpc' = FirstStep(tasks[1])
    BY <1>2, <1>5 DEF BeginTask
  <2>2. /\ wpc' \in Steps(task') /\ task' \in Tasks
        /\ wpc' \in {"check", "clear", "drop", "look"}
        /\ task' \in Reports => wpc' = "look"
        /\ task'.is = "remove" => wpc' = "clear"
        /\ task'.is = "add" => wpc' = "check"
    BY <1>2, <2>1, FirstSteps, Kinds
  <2>3. TypeOK'
    BY <1>1, <1>2, <2>2 DEF IInv, TypeOK
  <2>4. Waited'
    <3>1. ASSUME NEW i \in DOMAIN tasks', NEW j \in DOMAIN tasks', tasks'[i] \notin Reports
          PROVE  tasks'[i] = asked /\ (tasks'[j] \notin Reports => i = j)
      <4>1. /\ tasks'[i] = tasks[i + 1] /\ i + 1 \in DOMAIN tasks
            /\ tasks'[j] = tasks[j + 1] /\ j + 1 \in DOMAIN tasks
            /\ i + 1 = j + 1 => i = j
        BY <1>2, <3>1
      <4> QED
        BY <3>1, <4>1 DEF IInv, Waited
    <3>2. ASSUME task' \notin Reports, NEW i \in DOMAIN tasks'
          PROVE  tasks'[i] \in Reports
      <4>1. tasks'[i] = tasks[i + 1] /\ i + 1 \in DOMAIN tasks /\ i + 1 # 1
        BY <1>2
      <4> QED
        BY <1>2, <2>1, <3>2, <4>1 DEF IInv, Waited
    <3>3. task' \notin Reports => task' = asked
      BY <1>2, <2>1 DEF IInv, Waited
    <3> QED
      BY <1>1, <3>1, <3>2, <3>3 DEF Waited
  <2>5. Wanted'
    BY <1>1, <1>3, <2>2 DEF Wanted
  <2>6. Listening'
    BY <1>1, <1>3, <2>2 DEF IInv, Listening, HalfWay, Registered
  <2>7. Ended'
    BY <1>1, <1>5 DEF IInv, Ended, Registered
  <2>8. NoLostChange'
    <3> SUFFICES ASSUME NEW s \in Scopes, OnItsWay(s) PROVE OnItsWay(s)'
      BY <1>1 DEF IInv, NoLostChange
    <3>1. CASE notices["devices"] > 0
      BY <1>1, <3>1 DEF OnItsWay
    <3>2. CASE \E i \in DOMAIN tasks : tasks[i].is = "devices"
      <4>1. PICK i \in DOMAIN tasks : tasks[i].is = "devices"
        BY <3>2
      <4>2. CASE i = 1
        <5>1. task' \in Reports
          BY <1>2, <2>1, <4>1, <4>2, Kinds DEF Properties
        <5> QED
          BY <2>1, <2>2, <4>1, <4>2, <5>1 DEF OnItsWay
      <4>3. CASE i # 1
        BY <1>2, <4>1, <4>3 DEF OnItsWay
      <4> QED
        BY <4>2, <4>3
    <3>3. CASE task.is = "devices"
      BY <1>1, <3>3, Kinds
    <3> QED
      BY <3>1, <3>2, <3>3 DEF OnItsWay
  <2> QED
    BY <2>3, <2>4, <2>5, <2>6, <2>7, <2>8 DEF IInv
<1> QED
  BY <1>4, <1>5

LEMMA TaskDoneInvariant ==
    ASSUME IInv, TaskDone
    PROVE  IInv'
<1>1. /\ wpc = "finish" /\ wpc' = "idle" /\ task' = None /\ task \in Tasks
      /\ UNCHANGED <<system, devices, tasks, result, calls, freed>>
  BY Places DEF TaskDone, Goto, IInv
<1> USE DEF system, devices
<1>2. /\ task \in Reports => UNCHANGED <<asked, wanted>>
      /\ task \notin Reports => asked' = None
      /\ task \in Calls /\ task.is = "add" /\ result = "ok" => wanted' = wanted \cup task.for
      /\ task \in Calls /\ task.is = "add" /\ result # "ok" => wanted' = wanted
      /\ task \in Calls /\ task.is = "remove" => wanted' = wanted \ task.for
      /\ task = Final => wanted' = wanted
  BY Kinds DEF TaskDone, Properties
<1>3. TypeOK'
  <2>1. wanted' \in SUBSET Scopes /\ asked' \in Calls \cup {None, Final}
    BY <1>1, <1>2, Kinds DEF IInv, TypeOK
  <2> QED
    BY <1>1, <2>1 DEF IInv, TypeOK
<1>4. Waited'
  BY <1>1, <1>2, Kinds DEF IInv, Waited
<1>5. Wanted'
  <2>1. ASSUME NEW s \in Scopes, callback[s] PROVE s \in wanted'
    <3>1. CASE task \in Calls /\ task.is = "add"
      BY <1>1, <1>2, <2>1, <3>1 DEF IInv, Wanted
    <3>2. CASE task \in Calls /\ task.is = "remove"
      BY <1>1, <1>2, <2>1, <3>2 DEF IInv, Wanted
    <3>3. CASE task \in Reports \cup {Final}
      BY <1>1, <1>2, <2>1, <3>3, Kinds DEF IInv, Wanted, Properties
    <3> QED
      BY <1>1, <3>1, <3>2, <3>3, Kinds
  <2> QED
    BY <1>1, <2>1, Kinds DEF Wanted
<1>6. Listening'
  BY <1>1, Kinds DEF IInv, Listening, HalfWay, Registered
<1>7. Ended'
  BY <1>1, <1>2, Kinds DEF IInv, Ended, Registered
<1>8. NoLostChange'
  BY <1>1 DEF IInv, NoLostChange, OnItsWay
<1> QED
  BY <1>3, <1>4, <1>5, <1>6, <1>7, <1>8 DEF IInv

-----------------------------------------------------------------------------
(* Registration and removal                                                   *)

LEMMA CheckInvariant ==
    ASSUME IInv, Check
    PROVE  IInv'
<1>1. /\ wpc = "check" /\ task \in Calls /\ task.is = "add" /\ task \in Tasks
      /\ UNCHANGED <<system, devices, tasks, task, asked, wanted, calls, freed>>
      /\ \/ wpc' = "finish" /\ result' = "invalid"
         \/ wpc' = "setInput" /\ result' = "ok" /\ Registered
         \/ wpc' = "addDevices" /\ result' = "ok" /\ ~Registered
  BY Places, Kinds DEF Check, IInv
<1> USE DEF system, devices
<1>2. TypeOK'
  BY <1>1, StepsOf DEF IInv, TypeOK
<1>3. Waited' /\ Ended'
  BY <1>1 DEF IInv, Waited, Ended, Registered
<1>4. Wanted'
  BY <1>1 DEF IInv, Wanted
<1>5. Listening'
  BY <1>1 DEF IInv, Listening, HalfWay, Registered
<1>6. NoLostChange'
  BY <1>1 DEF IInv, NoLostChange, OnItsWay
<1> QED
  BY <1>2, <1>3, <1>4, <1>5, <1>6 DEF IInv

(* What becomes of the listeners and their notifications when some are removed. *)
LEMMA Removing ==
    ASSUME TypeOK, NEW ls \in SUBSET Properties, RemoveListeners(ls)
    PROVE  /\ listeners' \subseteq listeners /\ refused' \subseteq listeners'
           /\ listeners' \ ls = listeners \ ls /\ refused' \ ls = refused \ ls
           /\ listeners' \cap ls = refused' \cap ls
           /\ notices' \in [Properties -> Nat]
           /\ \A p \in Properties : notices'[p] > 0 => notices[p] > 0 /\ p \in listeners'
<1>1. PICK stay \in SUBSET ls :
          /\ listeners' = (listeners \ ls) \cup (listeners \cap stay)
          /\ refused' = (refused \ ls) \cup (listeners \cap stay)
          /\ notices' = [p \in Properties |-> IF p \in listeners' THEN notices[p] ELSE 0]
  BY DEF RemoveListeners
<1> QED
  BY <1>1 DEF TypeOK

LEMMA AddListenerInvariant ==
    ASSUME IInv, NEW from, NEW p \in Properties, NEW to, NEW added \in SUBSET Properties,
           AddListener(from, p, to, added),
           \/ from = "addDevices" /\ p = "devices" /\ to = "addInput" /\ added = {}
           \/ from = "addInput" /\ p = "defaultInput" /\ to = "addOutput"
              /\ added = {"devices"}
           \/ from = "addOutput" /\ p = "defaultOutput" /\ to = "setInput"
              /\ added = {"devices", "defaultInput"}
    PROVE  IInv'
<1>1. /\ wpc = from /\ wpc' \in {to, "finish"} /\ result' \in {result, "error"}
      /\ wpc' = to => result' = result
      /\ task \in Calls /\ task.is = "add" /\ task \in Tasks
      /\ UNCHANGED <<present, changes, devices, tasks, task, asked, wanted, calls, freed>>
  BY Places, Kinds DEF AddListener, IInv
<1> USE DEF devices
<1>2. ~Registered /\ listeners = refused \cup added /\ result = "ok"
  BY <1>1 DEF IInv, Listening, HalfWay, Wanted
<1>3. /\ listeners' \in SUBSET Properties /\ refused' \in SUBSET listeners'
      /\ notices' \in [Properties -> Nat]
      /\ \A q \in Properties : notices'[q] > 0 => q \in listeners'
      /\ \/ wpc' = to /\ listeners' = refused' \cup added \cup {p}
         \/ wpc' = "finish" /\ listeners' = refused'
  <2>1. CASE wpc' = to /\ listeners' = listeners \cup {p} /\ refused' = refused \ {p}
             /\ notices' = notices
    BY <1>2, <2>1 DEF IInv, TypeOK, Listening
  <2>2. CASE Cleanup(added) /\ wpc' = "finish"
    BY <1>2, <2>2, Removing DEF Cleanup, IInv, TypeOK
  <2> QED
    BY <2>1, <2>2 DEF AddListener
<1>4. TypeOK'
  BY <1>1, <1>3, StepsOf DEF IInv, TypeOK
<1>5. Waited' /\ Ended'
  BY <1>1 DEF IInv, Waited, Ended, Registered
<1>6. Wanted'
  BY <1>1, <1>2 DEF IInv, Wanted
<1>7. Listening'
  <2>1. ~Registered'
    BY <1>1, <1>2 DEF Registered
  <2> QED
    BY <1>1, <1>3, <2>1 DEF Listening, HalfWay, Properties
<1>8. NoLostChange'
  BY <1>1, <1>2 DEF NoLostChange, Registered
<1> QED
  BY <1>4, <1>5, <1>6, <1>7, <1>8 DEF IInv

LEMMA SetScopeInvariant ==
    ASSUME IInv, NEW from, NEW s \in Scopes, NEW to, SetScope(from, s, to),
           \/ from = "setInput" /\ s = "input" /\ to = "setOutput"
           \/ from = "setOutput" /\ s = "output" /\ to = "finish"
    PROVE  IInv'
<1>1. /\ wpc = from /\ wpc' = to
      /\ task \in Calls /\ task.is = "add" /\ task \in Tasks
      /\ UNCHANGED <<system, tasks, task, client, freed>>
  BY Places, Kinds DEF SetScope, Goto, IInv
<1> USE DEF system, client
<1>2. /\ callback' \in [Scopes -> BOOLEAN] /\ list' \in [Scopes -> Lists \cup {NoList}]
      /\ callback'[s] <=> callback[s] \/ s \in task.for
      /\ list'[s] = IF s \in task.for THEN present[s] ELSE list[s]
      /\ \A d \in Scopes \ {s} : callback'[d] = callback[d] /\ list'[d] = list[d]
  BY DEF SetScope, IInv, TypeOK
<1>3. TypeOK'
  <2>1. \A d \in Scopes : callback'[d] <=> list'[d] # NoList
    BY <1>2, ListsAssumption DEF IInv, TypeOK
  <2> QED
    BY <1>1, <1>2, <2>1, StepsOf DEF IInv, TypeOK
<1>4. Waited'
  BY <1>1 DEF IInv, Waited
<1>5. Wanted'
  BY <1>1, <1>2 DEF IInv, Wanted
<1>6. Listening'
  <2>1. listeners = Properties
    BY <1>1 DEF IInv, Listening, HalfWay
  <2>2. wpc' = "setOutput" /\ "input" \in task.for => callback'["input"]
    BY <1>1, <1>2
  <2>3. wpc' = "finish" => Registered'
    <3>1. CASE "output" \in task.for
      BY <1>1, <1>2, <3>1 DEF Registered, Scopes
    <3>2. CASE "output" \notin task.for
      <4>1. "input" \in task.for
        BY <1>1, <3>2, Kinds DEF Scopes
      <4>2. wpc' = "finish" => callback["input"]
        BY <1>1, <4>1 DEF IInv, Listening, HalfWay
      <4> QED
        BY <1>1, <1>2, <4>2 DEF Registered, Scopes
    <3> QED
      BY <3>1, <3>2
  <2> QED
    BY <1>1, <2>1, <2>2, <2>3 DEF IInv, Listening, HalfWay
<1>7. Ended'
  <2>1. task \notin Reports \cup {None, Final}
    BY <1>1, Kinds DEF Properties
  <2>2. ~freed /\ asked # Final
    BY <1>1, <2>1, Kinds DEF IInv, Ended, Waited
  <2> QED
    BY <1>1, <2>2 DEF Ended
<1>8. NoLostChange'
  BY <1>1, <1>2 DEF IInv, NoLostChange, OnItsWay
<1> QED
  BY <1>3, <1>4, <1>5, <1>6, <1>7, <1>8 DEF IInv

LEMMA ClearInvariant ==
    ASSUME IInv, Clear
    PROVE  IInv'
<1>1. /\ wpc = "clear" /\ wpc' = IF Registered' THEN "finish" ELSE "removeDevices"
      /\ task \in Calls /\ task.is = "remove" /\ task \in Tasks
      /\ result' = "ok"
      /\ UNCHANGED <<system, tasks, task, asked, wanted, calls, freed>>
  BY Places, Kinds DEF Clear, Goto, IInv, Registered
<1> USE DEF system
<1>2. /\ callback' \in [Scopes -> BOOLEAN] /\ list' \in [Scopes -> Lists \cup {NoList}]
      /\ \A s \in Scopes :
            /\ callback'[s] <=> callback[s] /\ s \notin task.for
            /\ list'[s] = IF s \in task.for THEN NoList ELSE list[s]
  BY DEF Clear, IInv, TypeOK
<1>3. Registered' => Registered
  BY <1>2 DEF Registered
<1>4. TypeOK'
  <2>1. \A s \in Scopes : callback'[s] <=> list'[s] # NoList
    BY <1>2 DEF IInv, TypeOK
  <2> QED
    BY <1>1, <1>2, <2>1, StepsOf DEF IInv, TypeOK
<1>5. Waited' /\ Ended'
  BY <1>1, <1>3 DEF IInv, Waited, Ended
<1>6. Wanted'
  BY <1>1, <1>2, Kinds DEF IInv, Wanted
<1>7. Listening'
  BY <1>1, <1>3 DEF IInv, Listening, HalfWay
<1>8. NoLostChange'
  BY <1>1, <1>2 DEF IInv, NoLostChange, OnItsWay
<1> QED
  BY <1>4, <1>5, <1>6, <1>7, <1>8 DEF IInv

LEMMA RemoveListenerInvariant ==
    ASSUME IInv, NEW from, NEW p \in Properties, NEW to, RemoveListener(from, p, to),
           \/ from = "removeDevices" /\ p = "devices" /\ to = "removeInput"
           \/ from = "removeInput" /\ p = "defaultInput" /\ to = "removeOutput"
           \/ from = "removeOutput" /\ p = "defaultOutput" /\ to = "finish"
    PROVE  IInv'
<1>1. /\ wpc = from /\ wpc' = to /\ result' \in {"ok", "invalid", "error"}
      /\ task \in Calls /\ task.is = "remove" /\ task \in Tasks
      /\ UNCHANGED <<present, changes, devices, tasks, task, asked, wanted, calls, freed>>
  BY Places, Kinds DEF RemoveListener, Goto, IInv, TypeOK
<1> USE DEF devices
<1>2. /\ listeners' \subseteq listeners /\ refused' \subseteq listeners'
      /\ listeners' \ {p} = listeners \ {p} /\ refused' \ {p} = refused \ {p}
      /\ listeners' \cap {p} = refused' \cap {p}
      /\ notices' \in [Properties -> Nat]
      /\ \A q \in Properties : notices'[q] > 0 => notices[q] > 0 /\ q \in listeners'
  BY Removing DEF RemoveListener, IInv
<1>3. ~Registered
  BY <1>1 DEF IInv, Listening, HalfWay
<1>4. TypeOK'
  BY <1>1, <1>2, StepsOf DEF IInv, TypeOK
<1>5. Waited' /\ Ended'
  BY <1>1 DEF IInv, Waited, Ended, Registered
<1>6. Wanted'
  BY <1>1 DEF IInv, Wanted
<1>7. Listening'
  <2>1. ~Registered'
    BY <1>1, <1>3 DEF Registered
  <2>2. listeners' \ refused' \subseteq (listeners \ refused) \ {p}
    BY <1>2
  <2>3. /\ wpc' = "removeInput" => listeners' \ refused' \subseteq {"defaultInput", "defaultOutput"}
        /\ wpc' = "removeOutput" => listeners' \ refused' \subseteq {"defaultOutput"}
        /\ wpc' = "finish" => listeners' = refused'
    BY <1>1, <1>2, <2>2 DEF IInv, TypeOK, Listening, HalfWay, Properties
  <2> QED
    BY <1>1, <1>2, <2>1, <2>3 DEF Listening, HalfWay
<1>8. NoLostChange'
  BY <1>1, <1>3 DEF NoLostChange, Registered
<1> QED
  BY <1>4, <1>5, <1>6, <1>7, <1>8 DEF IInv

-----------------------------------------------------------------------------
(* Reports                                                                    *)

LEMMA LookInvariant ==
    ASSUME IInv, Look
    PROVE  IInv'
<1>1. /\ wpc = "look" /\ task \in Reports /\ task \in Tasks
      /\ UNCHANGED <<system, devices, tasks, task, client, freed>>
  BY Places, Kinds DEF Look, IInv
<1> USE DEF system, devices, client
<1>2. /\ wpc' \in Steps(task) /\ wpc' \in {"finish", "queryInput", "callInput", "callOutput"}
      /\ wpc' = "callInput" => callback["input"]
      /\ wpc' = "callOutput" => callback["output"]
      /\ Registered /\ task.is = "devices" => wpc' = "queryInput"
  <2>1. CASE ~Registered
    BY <1>1, <2>1, StepsOf, Kinds DEF Look, Properties
  <2>2. CASE task.is = "devices" /\ Registered
    BY <1>1, <2>2, StepsOf DEF Look, ReportStep
  <2>3. CASE task.is = "defaultInput" /\ Registered
    BY <1>1, <2>3, StepsOf DEF Look, ReportStep
  <2>4. CASE task.is = "defaultOutput" /\ Registered
    BY <1>1, <2>4, StepsOf DEF Look, ReportStep
  <2> QED
    BY <1>1, <2>1, <2>2, <2>3, <2>4, Kinds DEF Properties
<1>3. TypeOK'
  BY <1>1, <1>2 DEF IInv, TypeOK
<1>4. Waited' /\ Ended'
  BY <1>1 DEF IInv, Waited, Ended, Registered
<1>5. task.is \notin {"add", "remove"}
  BY <1>1, Kinds DEF Properties
<1>6. Wanted' /\ Listening'
  BY <1>1, <1>2, <1>5 DEF IInv, Wanted, Listening, HalfWay, Registered
<1>7. NoLostChange'
  BY <1>1, <1>2 DEF IInv, NoLostChange, OnItsWay, Registered
<1> QED
  BY <1>3, <1>4, <1>6, <1>7 DEF IInv

LEMMA QueryInvariant ==
    ASSUME IInv, NEW from, NEW s \in Scopes, NEW call, NEW next, Query(from, s, call, next),
           \/ /\ from = "queryInput" /\ s = "input"
              /\ call = "callInput" /\ next = "queryOutput"
           \/ /\ from = "queryOutput" /\ s = "output"
              /\ call = "callOutput" /\ next = "finish"
    PROVE  IInv'
<1>1. /\ wpc = from /\ (wpc' = next \/ (wpc' = call /\ callback[s]))
      /\ task \in Reports /\ task \in Tasks /\ task.is = "devices"
      /\ UNCHANGED <<system, callback, tasks, task, client, freed>>
  BY Places, Kinds DEF Query, Goto, IInv
<1> USE DEF system, client
<1>0. /\ wpc' \in {"callInput", "queryOutput", "callOutput", "finish"}
      /\ wpc \in {"queryInput", "queryOutput"} /\ task.is \notin {"add", "remove"}
      /\ wpc' = "callInput" => callback["input"]
      /\ wpc' = "callOutput" => callback["output"]
  BY <1>1
<1>2. /\ list' \in [Scopes -> Lists \cup {NoList}]
      /\ list'[s] = IF callback[s] THEN present[s] ELSE list[s]
      /\ \A d \in Scopes \ {s} : list'[d] = list[d]
  BY DEF Query, IInv, TypeOK
<1>3. TypeOK'
  <2>1. \A d \in Scopes : callback[d] <=> list'[d] # NoList
    BY <1>2, ListsAssumption DEF IInv, TypeOK
  <2> QED
    BY <1>0, <1>1, <1>2, <2>1, StepsOf DEF IInv, TypeOK
<1>4. Waited' /\ Ended'
  BY <1>1 DEF IInv, Waited, Ended, Registered
<1>5. Wanted' /\ Listening'
  BY <1>0, <1>1 DEF IInv, Wanted, Listening, HalfWay, Registered
<1>6. NoLostChange'
  <2> SUFFICES ASSUME NEW d \in Scopes, callback[d], list'[d] # present[d]
               PROVE  OnItsWay(d)'
    BY <1>1 DEF NoLostChange
  <2>1. d # s /\ list[d] # present[d]
    BY <1>2
  <2>2. OnItsWay(d)
    BY <2>1 DEF IInv, NoLostChange
  <2>3. CASE s = "input"
    <3>1. d = "output" /\ wpc' \in {"callInput", "queryOutput"}
      BY <1>1, <2>1, <2>3 DEF Scopes
    <3> QED
      BY <1>1, <3>1 DEF OnItsWay
  <2>4. CASE s = "output"
    <3>1. d = "input" /\ wpc = "queryOutput"
      BY <1>1, <2>1, <2>4 DEF Scopes
    <3> QED
      BY <1>1, <2>2, <3>1 DEF OnItsWay
  <2> QED
    BY <2>3, <2>4 DEF Scopes
<1> QED
  BY <1>3, <1>4, <1>5, <1>6 DEF IInv

LEMMA CallReturnsInvariant ==
    ASSUME IInv, CallReturns
    PROVE  IInv'
<1>1. /\ task \in Reports /\ task \in Tasks /\ task.is \notin {"add", "remove"}
      /\ \/ wpc = "callInput" /\ task.is = "devices" /\ wpc' = "queryOutput"
         \/ wpc \in {"callInput", "callOutput"} /\ wpc' = "finish"
            /\ (wpc = "callInput" => task.is # "devices")
      /\ UNCHANGED <<system, devices, tasks, task, client, freed>>
  BY Places, Kinds DEF CallReturns, Goto, IInv, Properties
<1> USE DEF system, devices, client
<1>2. TypeOK'
  BY <1>1, StepsOf, Kinds DEF IInv, TypeOK, Properties
<1>3. Waited' /\ Ended'
  BY <1>1 DEF IInv, Waited, Ended, Registered
<1>4. Wanted' /\ Listening'
  BY <1>1 DEF IInv, Wanted, Listening, HalfWay, Registered
<1>5. NoLostChange'
  BY <1>1 DEF IInv, NoLostChange, OnItsWay
<1> QED
  BY <1>2, <1>3, <1>4, <1>5 DEF IInv

LEMMA DropContextInvariant ==
    ASSUME IInv, DropContext
    PROVE  IInv'
<1>1. /\ wpc = "drop" /\ wpc' = "finish" /\ task = Final /\ freed' = TRUE
      /\ task \in Tasks /\ task.is = "final" /\ asked = Final
      /\ UNCHANGED <<system, devices, tasks, task, client>>
  BY Places, Kinds DEF DropContext, Goto, IInv, Waited
<1> USE DEF system, devices, client
<1>2. TypeOK'
  BY <1>1, StepsOf DEF IInv, TypeOK
<1>3. Waited' /\ Ended'
  BY <1>1 DEF IInv, Waited, Ended, Registered
<1>4. Wanted' /\ Listening'
  BY <1>1 DEF IInv, Wanted, Listening, HalfWay, Registered
<1>5. NoLostChange'
  BY <1>1 DEF IInv, NoLostChange, OnItsWay
<1> QED
  BY <1>2, <1>3, <1>4, <1>5 DEF IInv

-----------------------------------------------------------------------------
LEMMA WorkerInvariant ==
    ASSUME IInv, Worker
    PROVE  IInv'
<1>1. CASE AddListeners
  <2>1. CASE AddListener("addDevices", "devices", "addInput", {})
    BY <2>1, AddListenerInvariant DEF Properties
  <2>2. CASE AddListener("addInput", "defaultInput", "addOutput", {"devices"})
    BY <2>2, AddListenerInvariant DEF Properties
  <2>3. CASE AddListener("addOutput", "defaultOutput", "setInput", {"devices", "defaultInput"})
    BY <2>3, AddListenerInvariant DEF Properties
  <2> QED
    BY <1>1, <2>1, <2>2, <2>3 DEF AddListeners
<1>2. CASE RemoveAll
  BY <1>2, RemoveListenerInvariant DEF RemoveAll, Properties
<1>3. CASE SetScope("setInput", "input", "setOutput") \/ SetScope("setOutput", "output", "finish")
  BY <1>3, SetScopeInvariant DEF Scopes
<1>4. CASE \/ Query("queryInput", "input", "callInput", "queryOutput")
           \/ Query("queryOutput", "output", "callOutput", "finish")
  BY <1>4, QueryInvariant DEF Scopes
<1> QED
  BY <1>1, <1>2, <1>3, <1>4, BeginTaskInvariant, TaskDoneInvariant, CheckInvariant,
     ClearInvariant, LookInvariant, CallReturnsInvariant, DropContextInvariant DEF Worker

LEMMA StepInvariant == IInv /\ [Next]_vars => IInv'
<1> SUFFICES ASSUME IInv, [Next]_vars PROVE IInv'
  OBVIOUS
<1>1. CASE UNCHANGED vars
  BY <1>1 DEF vars, system, devices, worker, client, IInv, TypeOK, Waited, Wanted,
              Listening, HalfWay, Ended, NoLostChange, OnItsWay, Registered
<1>2. CASE DevicesChange \/ \E p \in {"defaultInput", "defaultOutput"} : DefaultChanges(p)
  BY <1>2, SystemChanges
<1>3. CASE AskDrop
  <2>1. Final \in Calls \cup {Final}
    OBVIOUS
  <2> QED
    BY <1>3, <2>1, AskInvariant
<1>4. ASSUME NEW c \in Calls, Ask(c) PROVE IInv'
  BY <1>4, AskInvariant
<1> QED
  BY <1>1, <1>2, <1>3, <1>4, NotifyInvariant, WorkerInvariant DEF Next

LEMMA Invariance == Spec => []IInv
BY InitInvariant, StepInvariant, PTL DEF Spec

(* Types: among them, a callback is set together with a list of devices. *)
THEOREM TypeCorrect == Spec => []TypeOK
BY Invariance, PTL DEF IInv

(* The client's callback is never called once the call that removes it has     *)
(* returned, whatever reports are on their way then.                           *)
THEOREM NoLateCall == Spec => []NoCallAfterRemoval
<1>1. IInv => NoCallAfterRemoval
  <2> SUFFICES ASSUME IInv, NEW s \in Calling PROVE s \in wanted
    BY DEF NoCallAfterRemoval
  <2>1. /\ task.is \notin {"add", "remove"}
        /\ callback[s] /\ s \in Scopes
    BY Places, Kinds DEF IInv, Wanted, Calling, Properties, Scopes
  <2> QED
    BY <2>1 DEF IInv, Wanted
<1> QED
  BY <1>1, Invariance, PTL

(* A change of the devices is never missed: not between the registration of    *)
(* the listeners and the look at the devices, nor while the client is called.  *)
THEOREM ChangesKept == Spec => []NoLostChange
BY Invariance, PTL DEF IInv

(* The context listens to all or nothing, whichever call to the system fails. *)
THEOREM ListensToAll == Spec => []AllOrNoListeners
<1>1. IInv => AllOrNoListeners
  BY DEF IInv, Listening, AllOrNoListeners
<1> QED
  BY <1>1, Invariance, PTL

(* A dropped context is left alone. *)
THEOREM DroppedIsQuiet == Spec => []NothingAfterDrop
<1>1. IInv => NothingAfterDrop
  <2> SUFFICES ASSUME IInv, freed PROVE NothingAfterDrop
    BY DEF NothingAfterDrop
  <2>1. task.is \in {"none", "final"} /\ ~Registered
    BY Kinds DEF IInv, Ended
  <2>2. listeners = refused
    BY <2>1 DEF IInv, Listening
  <2>3. \A p \in Properties \ refused : notices[p] = 0
    BY <2>2 DEF IInv, TypeOK, Listening
  <2> QED
    BY <2>1, <2>2, <2>3 DEF NothingAfterDrop
<1> QED
  BY <1>1, Invariance, PTL

-----------------------------------------------------------------------------
(* The final task ends when the context has been dropped, and nobody waits    *)
(* for another one then.                                                      *)
FinalDrops ==
    /\ task = Final /\ wpc = "finish" => freed
    /\ freed /\ task = None => asked = None

(* Who hands over a task, and who leaves the queue alone.                     *)
LEMMA QueueSteps ==
    ASSUME IInv, [Next]_vars
    PROVE  \/ UNCHANGED <<tasks, task, freed, asked>> /\ (task = Final => wpc' = wpc)
           \/ /\ \E t \in Tasks : Submit(t)
              /\ UNCHANGED <<task, wpc, freed>>
              /\ asked' = asked \/ ~freed
           \/ BeginTask
           \/ TaskDone
           \/ DropContext
<1> USE DEF system, devices, worker, client
<1>1. CASE DevicesChange \/ \E p \in {"defaultInput", "defaultOutput"} : DefaultChanges(p)
  BY <1>1 DEF DevicesChange, DefaultChanges
<1>2. ASSUME NEW p \in Properties, Notify(p)
      PROVE  (\E t \in Tasks : Submit(t)) /\ UNCHANGED <<task, wpc, freed, asked>>
  BY <1>2, Kinds DEF Notify
<1>3. ASSUME NEW c \in Calls, Ask(c)
      PROVE  (\E t \in Tasks : Submit(t)) /\ UNCHANGED <<task, wpc, freed>> /\ ~freed
  BY <1>3, Kinds DEF Ask
<1>4. CASE AskDrop
  BY <1>4, Kinds DEF AskDrop
<1>5. CASE Worker
  <2>1. CASE Check \/ Clear \/ Look \/ CallReturns
    BY <2>1, Places, Kinds DEF Check, Clear, Look, CallReturns, Goto, IInv, Properties
  <2>2. CASE AddListeners
    BY <2>2, Places, Kinds DEF AddListeners, AddListener, Cleanup, RemoveListeners, IInv
  <2>3. CASE RemoveAll
    BY <2>3, Places, Kinds DEF RemoveAll, RemoveListener, RemoveListeners, IInv, Goto
  <2>4. CASE SetScope("setInput", "input", "setOutput") \/ SetScope("setOutput", "output", "finish")
    BY <2>4, Places, Kinds DEF SetScope, IInv, Goto
  <2>5. CASE \/ Query("queryInput", "input", "callInput", "queryOutput")
             \/ Query("queryOutput", "output", "callOutput", "finish")
    BY <2>5, Places, Kinds DEF Query, IInv, Goto, Properties
  <2> QED
    BY <1>5, <2>1, <2>2, <2>3, <2>4, <2>5 DEF Worker
<1>6. CASE UNCHANGED vars
  BY <1>6 DEF vars
<1> QED
  BY <1>1, <1>2, <1>3, <1>4, <1>5, <1>6 DEF Next

LEMMA FinalDropsStep == IInv /\ FinalDrops /\ [Next]_vars => FinalDrops'
<1> SUFFICES ASSUME IInv, FinalDrops, [Next]_vars PROVE FinalDrops'
  OBVIOUS
<1> USE DEF FinalDrops
<1>1. CASE BeginTask
  <2>1. task = None /\ freed' = freed /\ asked' = asked /\ Head(tasks) \in Tasks
    BY <1>1, Places, Removes DEF BeginTask, IInv, TypeOK, client
  <2>2. CASE freed
    BY <1>1, <2>1, <2>2, Kinds DEF BeginTask
  <2>3. CASE ~freed
    <3>1. task' = Head(tasks) /\ wpc' = FirstStep(Head(tasks))
      BY <1>1, <2>3 DEF BeginTask
    <3> QED
      BY <2>1, <2>3, <3>1, FirstSteps
  <2> QED
    BY <2>2, <2>3
<1>2. CASE TaskDone
  <2>1. /\ wpc = "finish" /\ task' = None /\ wpc' = "idle" /\ freed' = freed
        /\ task \notin Reports => asked' = None
    BY <1>2 DEF TaskDone, Goto
  <2>2. freed => task = Final
    BY <2>1, Places DEF IInv, Ended
  <2> QED
    BY <2>1, <2>2, Kinds
<1>3. CASE DropContext
  BY <1>3, Places, Kinds DEF DropContext, Goto, IInv
<1> QED
  BY <1>1, <1>2, <1>3, QueueSteps

(* When the contract sees the queue closed. *)
closed == [q \in {"context"} |-> freed /\ task = None]

(* The tasks of a context are executed as the contract of their queue says,   *)
(* and its final task is the one that closes it.                              *)
THEOREM TasksUseQueue == Spec => UsesQueue
<1>1. Init => Queue!Init
  <2> SUFFICES ASSUME Init PROVE Queue!Init
    OBVIOUS
  <2> QED
    BY Kinds DEF Init, Queue!Init
<1>2. ASSUME IInv, FinalDrops, [Next]_vars PROVE [Queue!Next]_(Queue!cvars)
  <2> USE <1>2
  <2>1. CASE UNCHANGED <<tasks, task, freed>>
    BY <2>1 DEF Queue!cvars
  <2>2. ASSUME NEW t \in Tasks, Submit(t), UNCHANGED <<task, freed>>
        PROVE  Queue!Next
    <3>1. Queue!HandOver("context", t)
      BY <2>2 DEF Submit, Queue!HandOver
    <3> QED
      BY <3>1 DEF Queue!Next
  <2>3. CASE BeginTask
    <3>1. /\ wpc = "idle" /\ task = None /\ tasks # <<>> /\ tasks' = Tail(tasks)
          /\ freed' = freed
      BY <2>3, Places DEF BeginTask, IInv
    <3>2. 1 \in DOMAIN tasks /\ Head(tasks) = tasks[1] /\ tasks[1] \in Tasks
      BY <3>1, Removes DEF IInv, TypeOK
    <3>3. Queue!Take("context") <=> closed' = closed
      BY <3>1 DEF Queue!Take, closed
    <3>4. CASE freed
      <4>1. asked = None
        BY <3>1, <3>4 DEF FinalDrops
      <4>2. task' = task /\ Head(tasks) # Final
        BY <2>3, <3>2, <3>4, <4>1, Kinds DEF BeginTask, IInv, Waited
      <4>3. Queue!Drop("context")
        BY <3>1, <3>3, <3>4, <4>2 DEF Queue!Drop, closed
      <4> QED
        BY <4>3 DEF Queue!Next
    <3>5. CASE ~freed
      <4>1. task' = Head(tasks) /\ task' # None
        BY <2>3, <3>2, <3>5, Kinds DEF BeginTask
      <4>2. Queue!Perform("context")
        BY <3>1, <3>3, <3>5, <4>1 DEF Queue!Perform, closed
      <4> QED
        BY <4>2 DEF Queue!Next
    <3> QED
      BY <3>4, <3>5
  <2>4. CASE TaskDone
    <3>1. /\ wpc = "finish" /\ task' = None /\ tasks' = tasks /\ freed' = freed
      BY <2>4 DEF TaskDone, Goto
    <3>2. task \in Tasks /\ task # None
      BY <3>1, Places, Kinds DEF IInv
    <3>3. task = Final <=> freed
      BY <3>1, <3>2 DEF FinalDrops, IInv, Ended
    <3>4. Queue!Finish("context", task)
      BY <3>1, <3>2, <3>3 DEF Queue!Finish
    <3> QED
      BY <3>2, <3>4 DEF Queue!Next
  <2>5. CASE DropContext
    <3>1. task # None /\ task' = task /\ tasks' = tasks
      BY <2>5, Places, Kinds DEF DropContext, Goto, IInv
    <3> QED
      BY <3>1 DEF Queue!cvars
  <2> QED
    BY <2>1, <2>2, <2>3, <2>4, <2>5, QueueSteps
<1>3. Init => FinalDrops
  BY DEF Init, FinalDrops
<1> QED
  BY <1>1, <1>2, <1>3, FinalDropsStep, Invariance, PTL
     DEF Spec, Queue!Spec, UsesQueue

-----------------------------------------------------------------------------
(* The task the client waits for has not been lost: it is in the queue, or    *)
(* being executed.                                                            *)
WaitsForItsTask ==
    asked # None => task = asked \/ \E i \in DOMAIN tasks : tasks[i] = asked

LEMMA WaitsForItsTaskStep ==
    IInv /\ FinalDrops /\ WaitsForItsTask /\ [Next]_vars => WaitsForItsTask'
<1> SUFFICES ASSUME IInv, FinalDrops, WaitsForItsTask, [Next]_vars
             PROVE  WaitsForItsTask'
  OBVIOUS
<1>1. CASE UNCHANGED <<tasks, task, asked>>
  BY <1>1 DEF WaitsForItsTask
<1>2. ASSUME NEW t \in Tasks, Submit(t), UNCHANGED task, asked' \in {asked, t}
      PROVE  WaitsForItsTask'
  <2>1. /\ \A i \in DOMAIN tasks : i \in DOMAIN tasks' /\ tasks'[i] = tasks[i]
        /\ Len(tasks) + 1 \in DOMAIN tasks' /\ tasks'[Len(tasks) + 1] = t
    BY <1>2, Appends DEF IInv, TypeOK
  <2> QED
    BY <1>2, <2>1 DEF WaitsForItsTask
<1>3. CASE BeginTask
  <2>1. /\ wpc = "idle" /\ task = None /\ asked' = asked
        /\ freed => UNCHANGED task
        /\ ~freed => task' = Head(tasks)
    BY <1>3, Places DEF BeginTask, client, IInv
  <2>2. /\ Head(tasks) = tasks[1]
        /\ \A i \in DOMAIN tasks :
              i # 1 => i - 1 \in DOMAIN tasks' /\ tasks'[i - 1] = tasks[i]
    BY <1>3, Removes DEF BeginTask, IInv, TypeOK
  <2>3. CASE freed
    BY <2>1, <2>3 DEF FinalDrops, WaitsForItsTask
  <2>4. CASE ~freed
    <3> SUFFICES ASSUME asked # None, task' # asked
                 PROVE  \E i \in DOMAIN tasks' : tasks'[i] = asked
      BY <2>1 DEF WaitsForItsTask
    <3>1. PICK i \in DOMAIN tasks : tasks[i] = asked
      BY <2>1 DEF WaitsForItsTask
    <3> QED
      BY <2>1, <2>2, <2>4, <3>1
  <2> QED
    BY <2>3, <2>4
<1>4. CASE TaskDone
  <2>1. task \in Tasks /\ tasks' = tasks /\ task' = None
    BY <1>4, Places DEF TaskDone, Goto, IInv
  <2>2. CASE task \in Reports
    <3>1. asked' = asked
      BY <1>4, <2>2 DEF TaskDone
    <3>2. asked \notin Reports
      BY Kinds DEF IInv, TypeOK, Properties
    <3> QED
      BY <2>1, <2>2, <3>1, <3>2 DEF WaitsForItsTask
  <2>3. CASE task \notin Reports
    BY <1>4, <2>3 DEF TaskDone, WaitsForItsTask
  <2> QED
    BY <2>2, <2>3
<1>5. CASE DropContext
  BY <1>1, <1>5 DEF DropContext, client
<1>6. CASE AskDrop
  BY <1>2, <1>6, Kinds DEF AskDrop
<1>7. ASSUME NEW c \in Calls, Ask(c) PROVE WaitsForItsTask'
  BY <1>2, <1>7, Kinds DEF Ask
<1>8. ASSUME NEW p \in Properties, Notify(p) PROVE WaitsForItsTask'
  BY <1>2, <1>8, Kinds DEF Notify, client
<1>9. CASE UNCHANGED vars
  BY <1>1, <1>9 DEF vars, worker, client
<1>10. CASE DevicesChange \/ \E p \in {"defaultInput", "defaultOutput"} : DefaultChanges(p)
  BY <1>1, <1>10 DEF DevicesChange, DefaultChanges, worker, client
<1>11. CASE Worker /\ ~BeginTask /\ ~TaskDone /\ ~DropContext
  <2>1. CASE Check \/ Clear \/ Look \/ CallReturns
    BY <1>1, <2>1 DEF Check, Clear, Look, CallReturns, client
  <2>2. CASE AddListeners
    BY <1>1, <2>2 DEF AddListeners, AddListener
  <2>3. CASE RemoveAll
    BY <1>1, <2>3 DEF RemoveAll, RemoveListener
  <2>4. CASE SetScope("setInput", "input", "setOutput") \/ SetScope("setOutput", "output", "finish")
    BY <1>1, <2>4 DEF SetScope, client
  <2>5. CASE \/ Query("queryInput", "input", "callInput", "queryOutput")
             \/ Query("queryOutput", "output", "callOutput", "finish")
    BY <1>1, <2>5 DEF Query, client
  <2> QED
    BY <1>11, <2>1, <2>2, <2>3, <2>4, <2>5 DEF Worker
<1> QED
  BY <1>3, <1>4, <1>5, <1>6, <1>7, <1>8, <1>9, <1>10, <1>11 DEF Next

(* No call of the client waits for a task that nobody will execute: not when  *)
(* reports fill the queue, nor when the drop cancels what is left in it.      *)
THEOREM NoCallForgotten == Spec => []WaitsForItsTask
<1>1. Init => WaitsForItsTask /\ FinalDrops
  BY DEF Init, WaitsForItsTask, FinalDrops
<1> QED
  BY <1>1, WaitsForItsTaskStep, FinalDropsStep, Invariance, PTL DEF Spec
=============================================================================
