----------------------- MODULE VoiceProcessingProof -----------------------
(* The pool of SharedStorage, and what the streams of VoiceProcessing do with *)
(* its units, are right for any number of streams and units.                  *)
EXTENDS VoiceProcessing, FiniteSetTheorems, TLAPS

-----------------------------------------------------------------------------
(* The pool                                                                   *)

(* No task, made or about to be made, is ahead of the pool: this is what makes *)
(* raising generation outdate all of them.                                     *)
TasksNotAhead ==
    /\ \A t \in timers : t[2] <= generation
    /\ \A s \in Users : pc[s] = "clearing" => seen[s] <= generation

IInv ==
    /\ TypeOK
    /\ OneOwner
    /\ TasksNotAhead
    /\ CurrentTimerMeansIdle
    /\ NothingAfterDrop

(* What a stream that takes or creates a unit does to the handles. *)
LEMMA HandOutHolders ==
    ASSUME IInv, NEW s \in Users, NEW e \in VPUnits, HandOut(s, e)
    PROVE  /\ s \notin Holders
           /\ Holders' = Holders \cup {s}
           /\ Cardinality(Holders') = Cardinality(Holders) + 1
           /\ InUse' = InUse \cup {e}
<1>1. s \notin Holders
  BY DEF IInv, TypeOK, HandOut, Holders
<1>2. Holders' = Holders \cup {s}
  BY NoUnitAssumption DEF IInv, TypeOK, HandOut, Holders
<1>3. IsFiniteSet(Holders)
  BY UsersAssumption, FS_Subset DEF Holders
<1>4. Cardinality(Holders') = Cardinality(Holders) + 1
  BY <1>1, <1>2, <1>3, FS_AddElement
<1>5. InUse' = InUse \cup {e}
  <2>1. held' = [held EXCEPT ![s] = e]
    BY DEF HandOut
  <2>2. \A u \in Holders : held'[u] = held[u]
    BY <1>1, <2>1 DEF IInv, TypeOK, Holders
  <2>3. held'[s] = e
    BY <2>1 DEF IInv, TypeOK
  <2> QED
    BY <1>2, <2>2, <2>3 DEF InUse
<1> QED
  BY <1>1, <1>2, <1>4, <1>5

(* And what one that recycles its unit does. *)
LEMMA RecycleHolders ==
    ASSUME IInv, NEW s \in Users, Recycle(s)
    PROVE  /\ s \in Holders
           /\ Holders' = Holders \ {s}
           /\ Cardinality(Holders') = Cardinality(Holders) - 1
           /\ Cardinality(Holders') \in Nat
           /\ InUse' = InUse \ {held[s]}
<1>1. s \in Holders
  BY DEF IInv, TypeOK, Recycle, Holders
<1>2. Holders' = Holders \ {s}
  BY NoUnitAssumption DEF IInv, TypeOK, Recycle, Holders
<1>3. IsFiniteSet(Holders)
  BY UsersAssumption, FS_Subset DEF Holders
<1>4. IsFiniteSet(Holders') /\ Cardinality(Holders') = Cardinality(Holders) - 1
  BY <1>1, <1>2, <1>3, FS_RemoveElement
<1>5. Cardinality(Holders') \in Nat
  BY <1>4, FS_CardinalityType
<1>6. InUse' = InUse \ {held[s]}
  <2>1. held' = [held EXCEPT ![s] = NoUnit]
    BY DEF Recycle
  <2>2. \A u \in Holders \ {s} : held'[u] = held[u] /\ held[u] # held[s]
    BY <1>1, <2>1 DEF IInv, OneOwner, TypeOK, Holders
  <2> QED
    BY <1>2, <2>2 DEF InUse
<1> QED
  BY <1>1, <1>2, <1>4, <1>5, <1>6

LEMMA InitInvariant == Init => IInv
<1> SUFFICES ASSUME Init PROVE IInv
  OBVIOUS
<1>1. Holders = {} /\ InUse = {}
  BY DEF Init, Holders, InUse
<1>2. TypeOK
  BY DEF Init, TypeOK
<1>3. OneOwner
  BY <1>1, FS_EmptySet DEF Init, OneOwner
<1> QED
  BY <1>1, <1>2, <1>3 DEF Init, IInv, TasksNotAhead, CurrentTimerMeansIdle,
                          NothingAfterDrop

LEMMA HandOutInvariant ==
    ASSUME IInv, NEW s \in Users, NEW e \in VPUnits, HandOut(s, e),
           e \notin InUse, elements' = elements \ {e},
           UNCHANGED <<seen, timers, final>>
    PROVE  IInv'
<1> USE HandOutHolders
<1>1. TypeOK'
  BY NoUnitAssumption DEF IInv, TypeOK, HandOut
<1>2. OneOwner'
  <2>1. outstanding' = Cardinality(Holders')
    BY DEF IInv, OneOwner, HandOut
  <2>2. InUse' \cap elements' = {}
    BY DEF IInv, OneOwner
  <2>3. \A u \in Holders : held'[u] = held[u] /\ held[u] # e
    BY DEF IInv, TypeOK, HandOut, Holders, InUse
  <2>4. held'[s] = e
    BY DEF IInv, TypeOK, HandOut
  <2>5. \A u, w \in Holders' : held'[u] = held'[w] => u = w
    BY <2>3, <2>4 DEF IInv, OneOwner
  <2> QED
    BY <2>1, <2>2, <2>5 DEF OneOwner
<1>3. generation' = generation + 1 /\ generation \in Nat
  BY DEF IInv, TypeOK, HandOut
<1>4. \A t \in timers : t[2] \in Nat
  BY DEF IInv, TypeOK
<1>5. \A u \in Users : pc'[u] = "clearing" => pc[u] = "clearing"
  BY DEF IInv, TypeOK, HandOut
<1>6. TasksNotAhead' /\ CurrentTimerMeansIdle'
  <2>1. \A t \in timers : t[2] <= generation' /\ t[2] # generation'
    BY <1>3, <1>4 DEF IInv, TasksNotAhead
  <2>2. \A u \in Users : pc'[u] = "clearing" =>
            seen[u] <= generation' /\ seen[u] # generation'
    BY <1>3, <1>5 DEF IInv, TypeOK, TasksNotAhead
  <2> QED
    BY <2>1, <2>2 DEF TasksNotAhead, CurrentTimerMeansIdle
<1>7. NothingAfterDrop'
  BY DEF HandOut, NothingAfterDrop
<1> QED
  BY <1>1, <1>2, <1>6, <1>7 DEF IInv

LEMMA StepInvariant == IInv /\ [Next]_vars => IInv'
<1> SUFFICES ASSUME IInv, [Next]_vars PROVE IInv'
  OBVIOUS
<1>1. ASSUME NEW s \in Users, Take(s) PROVE IInv'
  <2>1. PICK e \in elements : /\ HandOut(s, e)
                              /\ elements' = elements \ {e}
                              /\ UNCHANGED <<seen, timers, final>>
    BY <1>1 DEF Take
  <2>2. e \in VPUnits /\ e \notin InUse
    BY <2>1 DEF IInv, TypeOK, OneOwner
  <2> QED
    BY <2>1, <2>2, HandOutInvariant
<1>2. ASSUME NEW s \in Users, Create(s) PROVE IInv'
  <2>1. PICK e \in VPUnits \ InUse : HandOut(s, e)
    BY <1>2 DEF Create
  <2>2. elements' = elements \ {e} /\ UNCHANGED <<seen, timers, final>>
    BY <1>2 DEF Create
  <2> QED
    BY <2>1, <2>2, HandOutInvariant
<1>3. ASSUME NEW s \in Users, Recycle(s) PROVE IInv'
  <2> USE <1>3, RecycleHolders
  <2>1. outstanding = Cardinality(Holders) /\ outstanding \in Nat
    BY DEF IInv, TypeOK, OneOwner
  <2>2. outstanding' = Cardinality(Holders')
    BY <2>1 DEF Recycle
  <2>3. held[s] \in VPUnits /\ held[s] \in InUse
    BY DEF IInv, TypeOK, Holders, InUse
  <2>4. TypeOK'
    BY <2>2, <2>3, NoUnitAssumption DEF IInv, TypeOK, Recycle
  <2>5. \A u \in Users \ {s} : held'[u] = held[u]
    BY DEF IInv, TypeOK, Recycle
  <2>6. OneOwner'
    <3>1. InUse' \cap elements' = {}
      BY DEF IInv, OneOwner, Recycle
    <3>2. \A u \in Holders' : u \in Holders /\ u \in Users \ {s}
      BY DEF Holders
    <3>3. \A u, w \in Holders' : held'[u] = held'[w] => u = w
      BY <2>5, <3>2 DEF IInv, OneOwner
    <3> QED
      BY <2>2, <3>1, <3>3 DEF OneOwner
  <2>7. \A u \in Users : pc'[u] = "clearing" => pc[u] = "clearing"
    BY DEF IInv, TypeOK, Recycle
  <2>8. TasksNotAhead' /\ CurrentTimerMeansIdle'
    BY <2>7 DEF IInv, Recycle, TasksNotAhead, CurrentTimerMeansIdle
  <2>9. NothingAfterDrop'
    BY DEF IInv, NothingAfterDrop, Recycle
  <2> QED
    BY <2>4, <2>6, <2>8, <2>9 DEF IInv
<1>4. ASSUME NEW s \in Users, CheckIdle(s) PROVE IInv'
  <2>1. Holders' = Holders /\ InUse' = InUse
    BY <1>4 DEF CheckIdle, Holders, InUse
  <2>2. TypeOK'
    BY <1>4 DEF IInv, TypeOK, CheckIdle
  <2>3. OneOwner' /\ NothingAfterDrop'
    BY <1>4, <2>1 DEF IInv, OneOwner, NothingAfterDrop, CheckIdle
  <2>4. outstanding = 0 => Holders = {}
    BY UsersAssumption, FS_Subset, FS_EmptySet DEF IInv, OneOwner, Holders
  <2>5. TasksNotAhead' /\ CurrentTimerMeansIdle'
    <3>1. ASSUME NEW u \in Users, pc'[u] = "clearing"
          PROVE  seen'[u] <= generation /\ (seen'[u] = generation => Holders = {})
      <4>1. CASE u = s
        BY <1>4, <3>1, <4>1, <2>4 DEF IInv, TypeOK, CheckIdle
      <4>2. CASE u # s
        <5>1. pc[u] = "clearing" /\ seen'[u] = seen[u]
          BY <1>4, <3>1, <4>2 DEF IInv, TypeOK, CheckIdle
        <5> QED
          BY <5>1 DEF IInv, TasksNotAhead, CurrentTimerMeansIdle
      <4> QED
        BY <4>1, <4>2
    <3> QED
      BY <1>4, <2>1, <3>1 DEF IInv, TasksNotAhead, CurrentTimerMeansIdle, CheckIdle
  <2> QED
    BY <2>2, <2>3, <2>5 DEF IInv
<1>5. ASSUME NEW s \in Users, ScheduleClear(s) PROVE IInv'
  <2>1. Holders' = Holders /\ InUse' = InUse
    BY <1>5 DEF ScheduleClear, Holders, InUse
  <2>2. TypeOK'
    BY <1>5 DEF IInv, TypeOK, ScheduleClear
  <2>3. OneOwner' /\ NothingAfterDrop'
    BY <1>5, <2>1 DEF IInv, OneOwner, NothingAfterDrop, ScheduleClear
  <2>4. \A u \in Users : pc'[u] = "clearing" => pc[u] = "clearing" /\ seen'[u] = seen[u]
    BY <1>5 DEF IInv, TypeOK, ScheduleClear
  <2>5. TasksNotAhead' /\ CurrentTimerMeansIdle'
    BY <1>5, <2>1, <2>4
       DEF IInv, TasksNotAhead, CurrentTimerMeansIdle, ScheduleClear
  <2> QED
    BY <2>2, <2>3, <2>5 DEF IInv
<1>6. ASSUME NEW t \in timers, ClearIfUnused(t) PROVE IInv'
  <2>1. Holders' = Holders /\ InUse' = InUse
    BY <1>6 DEF ClearIfUnused, Holders, InUse
  <2>2. timers' \subseteq timers /\ elements' \subseteq elements
    BY <1>6 DEF ClearIfUnused
  <2>3. TypeOK'
    BY <1>6, <2>2 DEF IInv, TypeOK, ClearIfUnused
  <2> QED
    BY <1>6, <2>1, <2>2, <2>3
       DEF IInv, OneOwner, TasksNotAhead, CurrentTimerMeansIdle,
           NothingAfterDrop, ClearIfUnused
<1>7. CASE DropManager
  <2>1. Holders' = Holders /\ InUse' = InUse /\ Holders = {}
    BY <1>7 DEF DropManager, Holders, InUse, IInv, TypeOK
  <2>2. TypeOK'
    BY <1>7 DEF IInv, TypeOK, DropManager
  <2> QED
    BY <1>7, <2>1, <2>2
       DEF IInv, OneOwner, TasksNotAhead, CurrentTimerMeansIdle,
           NothingAfterDrop, DropManager
<1>8. CASE UNCHANGED vars
  BY <1>8 DEF IInv, TypeOK, OneOwner, TasksNotAhead, CurrentTimerMeansIdle,
              NothingAfterDrop, Holders, InUse, vars
<1> QED
  BY <1>1, <1>2, <1>3, <1>4, <1>5, <1>6, <1>7, <1>8 DEF Next, Drop

LEMMA Invariance == Spec => []IInv
BY InitInvariant, StepInvariant, PTL DEF Spec

(* Types: in particular outstanding_element_count never underflows. *)
THEOREM TypeCorrect == Spec => []TypeOK
BY Invariance, PTL DEF IInv

(* Each unit is in the pool or owned by one handle, and the count of the      *)
(* handed out units that clear_if_all_idle_async reads is right.              *)
THEOREM Ownership == Spec => []OneOwner
BY Invariance, PTL DEF IInv

(* A disposal task that still finds its generation finds no unit in use. *)
THEOREM IdleAtCurrentGeneration == Spec => []CurrentTimerMeansIdle
BY Invariance, PTL DEF IInv

(* run_final leaves nothing in the pool. *)
THEOREM EmptyAfterDrop == Spec => []NothingAfterDrop
BY Invariance, PTL DEF IInv

(* Units are disposed of all together or not at all. *)
THEOREM AllOrNone == Spec => DisposeAllOrNone
<1>1. ASSUME IInv, [Next]_vars,
             ~(elements \cup InUse \subseteq elements' \cup InUse')
      PROVE  Holders = {} /\ elements' = {}
  <2> USE <1>1
  <2>1. ASSUME NEW s \in Users, NEW e \in VPUnits, HandOut(s, e),
               elements' = elements \ {e}
        PROVE  FALSE
    BY <2>1, HandOutHolders
  <2>2. ASSUME NEW s \in Users, Take(s) PROVE FALSE
    BY <2>1, <2>2 DEF Take, IInv, TypeOK
  <2>3. ASSUME NEW s \in Users, Create(s) PROVE FALSE
    BY <2>1, <2>3 DEF Create, IInv, TypeOK
  <2>4. ASSUME NEW s \in Users, Recycle(s) PROVE FALSE
    BY <2>4, RecycleHolders DEF Recycle
  <2>5. ASSUME NEW s \in Users, CheckIdle(s) \/ ScheduleClear(s) PROVE FALSE
    BY <2>5 DEF CheckIdle, ScheduleClear, InUse, Holders
  <2>6. ASSUME NEW t \in timers, ClearIfUnused(t)
        PROVE  Holders = {} /\ elements' = {}
    <3>1. InUse' = InUse
      BY <2>6 DEF ClearIfUnused, InUse, Holders
    <3> QED
      BY <2>6, <3>1 DEF ClearIfUnused, IInv, CurrentTimerMeansIdle
  <2>7. CASE DropManager
    BY <2>7 DEF DropManager, Holders, IInv, TypeOK
  <2>8. CASE UNCHANGED vars
    BY <2>8 DEF vars, InUse, Holders
  <2> QED
    BY <2>2, <2>3, <2>4, <2>5, <2>6, <2>7, <2>8 DEF Next, Drop
<1> QED
  BY <1>1, Invariance, PTL DEF Spec, DisposeAllOrNone

-----------------------------------------------------------------------------
(* The streams                                                                *)

(* Every step of the streams is a step of the pool, or leaves it alone. *)
LEMMA VoiceStepIsPoolStep == VoiceNext => [Next]_vars
<1> SUFFICES ASSUME VoiceNext PROVE Next \/ UNCHANGED vars
  OBVIOUS
<1>1. ASSUME NEW s \in Users, TurnStep(s) PROVE Next \/ UNCHANGED vars
  BY <1>1 DEF TurnStep, Acquire, Regular, Setup, Restart, ReturnUnit, Closed, Next
<1>2. ASSUME NEW s \in Users, Task(s) PROVE Next \/ UNCHANGED vars
  BY <1>1, <1>2 DEF Task, NewStream, Start, StartChanged, Change, Stop, Destroy
<1>3. ASSUME NEW s \in Users, ClientCall(s) PROVE UNCHANGED vars
  BY <1>3 DEF ClientCall, Check, ApplyMute, ApplyParams, ApplyUnvoiced,
              ApplyToNothing, Remember
<1>4. ASSUME NEW t \in timers, Timer(t) PROVE Next
  BY <1>4 DEF Timer, Next
<1>5. CASE DropContext
  BY <1>5 DEF DropContext, Next
<1> QED
  BY <1>2, <1>3, <1>4, <1>5 DEF VoiceNext

(* What the streams do implements what the pool promises to any users. *)
THEOREM VoiceImplementsPool == VoiceSpec => Spec
<1>1. VoiceInit => Init
  BY DEF VoiceInit
<1>2. [VoiceNext]_allVars => [Next]_vars
  BY VoiceStepIsPoolStep DEF allVars
<1> QED
  BY <1>1, <1>2, PTL DEF VoiceSpec, Spec

(* "Dispose of either all VoiceProcessingIO units, or none at all", and each   *)
(* unit has one owner, whatever the streams do.                                *)
THEOREM StreamsShareUnits == VoiceSpec => []OneOwner /\ DisposeAllOrNone
BY VoiceImplementsPool, Ownership, AllOrNone, PTL

-----------------------------------------------------------------------------
(* How far a stream has taken or returned a unit tells what its queue does.   *)
HoldingAt(s) ==
    /\ stage[s] \in {"none", "acquire", "dead"} => pc[s] = "idle"
    /\ stage[s] = "setup" => pc[s] = "holding"
    /\ pc[s] \in {"recycled", "clearing"} => stage[s] \in {"close", "refused"}

(* MuteAsRemembered before a call has remembered what it has set, and between  *)
(* the end of setup and the restart.                                           *)
MuteAt(s) ==
    stage[s] \in {"start", "open"} /\ Voiced(s) =>
        \/ <<s, "mute">> \in crossed
        \/ Applied(s, "mute") /\ setting[held[s]].mute = call[s].mute
        \/ ~Applied(s, "mute") /\ setting[held[s]].mute = mute[s]

SetTo(e, p) == setting[e].agc = p.agc /\ setting[e].aec = p.aec

ParamsAt(s) ==
    s \in started /\ stage[s] = "open" /\ Voiced(s) =>
        \/ <<s, "params">> \in crossed \/ s \in halfway
        \/ Applied(s, "params") /\ SetTo(held[s], call[s].params)
        \/ ~Applied(s, "params") /\ SetTo(held[s], params[s])

VoiceIInv ==
    /\ IInv
    /\ VoiceTypeOK
    /\ \A s \in Users : HoldingAt(s) /\ MuteAt(s) /\ ParamsAt(s)

LEMMA VoiceInitInvariant == VoiceInit => VoiceIInv
<1> SUFFICES ASSUME VoiceInit PROVE VoiceIInv
  OBVIOUS
<1>1. IInv
  BY InitInvariant DEF VoiceInit
<1>2. VoiceTypeOK
  BY <1>1 DEF VoiceInit, VoiceTypeOK, IInv, New, NoCall, None, Stages, Tasks,
              ClientCalls, Kinds, Parameters
<1>3. \A s \in Users : HoldingAt(s) /\ MuteAt(s) /\ ParamsAt(s)
  BY DEF VoiceInit, Init, HoldingAt, MuteAt, ParamsAt
<1> QED
  BY <1>1, <1>2, <1>3 DEF VoiceIInv

(* All that a step of stream s leaves alone. *)
Elsewhere(s) ==
    /\ \A u \in Users \ {s} :
          /\ stage'[u] = stage[u] /\ held'[u] = held[u] /\ pc'[u] = pc[u]
          /\ mute'[u] = mute[u] /\ params'[u] = params[u] /\ call'[u] = call[u]
          /\ u \in started' <=> u \in started
          /\ u \in halfway' <=> u \in halfway
          /\ \A k \in Kinds : <<u, k>> \in crossed' <=> <<u, k>> \in crossed
    /\ \A e \in VPUnits : e # held[s] => setting'[e] = setting[e]

LEMMA Bystanders ==
    ASSUME VoiceIInv, NEW s \in Users, Elsewhere(s), NEW u \in Users \ {s}
    PROVE  HoldingAt(u)' /\ MuteAt(u)' /\ ParamsAt(u)'
<1>1. HoldingAt(u) /\ MuteAt(u) /\ ParamsAt(u)
  BY DEF VoiceIInv
<1>2. HoldingAt(u)'
  BY <1>1 DEF Elsewhere, HoldingAt
<1>3. CASE ~Voiced(u)
  BY <1>2, <1>3 DEF Elsewhere, Voiced, MuteAt, ParamsAt
<1>4. CASE Voiced(u)
  <2>1. held[u] \in VPUnits /\ held[u] # held[s]
    BY <1>4 DEF VoiceIInv, IInv, TypeOK, OneOwner, Holders, Voiced
  <2>2. setting'[held'[u]] = setting[held[u]]
    BY <2>1 DEF Elsewhere
  <2>3. \A k \in Kinds : Applied(u, k)' <=> Applied(u, k)
    BY DEF Elsewhere, Applied
  <2>4. "mute" \in Kinds /\ "params" \in Kinds
    BY DEF Kinds
  <2> QED
    BY <1>1, <1>2, <1>4, <2>2, <2>3, <2>4
       DEF Elsewhere, Voiced, MuteAt, ParamsAt, SetTo
<1> QED
  BY <1>3, <1>4

LEMMA OneStream ==
    ASSUME VoiceIInv, IInv', VoiceTypeOK', NEW s \in Users, Elsewhere(s),
           HoldingAt(s)', MuteAt(s)', ParamsAt(s)'
    PROVE  VoiceIInv'
BY Bystanders DEF VoiceIInv

(* What starting the units of a stream sets, and what it records. *)
LEMMA SetParamsType ==
    ASSUME VoiceTypeOK, NEW e \in VPUnits, NEW p \in Parameters,
           NEW ok \in BOOLEAN, SetParams(e, p, ok)
    PROVE  /\ setting' \in [VPUnits -> [mute : BOOLEAN, agc : BOOLEAN, aec : BOOLEAN]]
           /\ \A d \in VPUnits : d # e => setting'[d] = setting[d]
           /\ setting'[e].mute = setting[e].mute
           /\ ok => setting'[e].agc = p.agc /\ setting'[e].aec = p.aec
<1>1. setting \in [VPUnits -> [mute : BOOLEAN, agc : BOOLEAN, aec : BOOLEAN]]
  BY DEF VoiceTypeOK
<1>2. p.agc \in BOOLEAN /\ p.aec \in BOOLEAN
  BY DEF Parameters
<1>3. CASE ok /\ setting' = [setting EXCEPT ![e].agc = p.agc, ![e].aec = p.aec]
  BY <1>1, <1>2, <1>3
<1>4. CASE ~ok /\ setting' = [setting EXCEPT ![e].agc = p.agc]
  BY <1>1, <1>2, <1>4
<1>5. CASE ~ok /\ UNCHANGED setting
  BY <1>1, <1>5
<1> QED
  BY <1>3, <1>4, <1>5 DEF SetParams

LEMMA StartUnitsLemma ==
    ASSUME VoiceIInv, NEW s \in Users, NEW ok \in BOOLEAN, StartUnits(s, ok)
    PROVE  /\ setting' \in [VPUnits -> [mute : BOOLEAN, agc : BOOLEAN, aec : BOOLEAN]]
           /\ \A e \in VPUnits : e # held[s] => setting'[e] = setting[e]
           /\ Voiced(s) => setting'[held[s]].mute = setting[held[s]].mute
           /\ Voiced(s) /\ ok => /\ setting'[held[s]].agc = params[s].agc
                                 /\ setting'[held[s]].aec = params[s].aec
           /\ crossed' \in SUBSET (Users \X Kinds) /\ halfway' \in SUBSET Users
           /\ \A u \in Users, k \in Kinds :
                 u # s \/ k # "params" => (<<u, k>> \in crossed' <=> <<u, k>> \in crossed)
           /\ \A u \in Users \ {s} : u \in halfway' <=> u \in halfway
           /\ Applied(s, "params") => <<s, "params">> \in crossed'
<1>1. crossed \in SUBSET (Users \X Kinds) /\ halfway \in SUBSET Users
      /\ "params" \in Kinds /\ params[s] \in Parameters
  BY DEF VoiceIInv, VoiceTypeOK, Kinds
<1>2. /\ crossed' \in SUBSET (Users \X Kinds) /\ halfway' \in SUBSET Users
      /\ \A u \in Users, k \in Kinds :
            u # s \/ k # "params" => (<<u, k>> \in crossed' <=> <<u, k>> \in crossed)
      /\ \A u \in Users \ {s} : u \in halfway' <=> u \in halfway
      /\ Applied(s, "params") => <<s, "params">> \in crossed'
  BY <1>1 DEF StartUnits, Marked
<1>3. CASE Voiced(s)
  <2>1. SetParams(held[s], params[s], ok) /\ held[s] \in VPUnits
    BY <1>3 DEF StartUnits, Voiced, VoiceIInv, IInv, TypeOK
  <2> QED
    BY <1>1, <1>2, <2>1, SetParamsType DEF VoiceIInv
<1>4. CASE ~Voiced(s)
  BY <1>2, <1>4 DEF StartUnits, VoiceIInv, VoiceTypeOK
<1> QED
  BY <1>3, <1>4

LEMMA ResetLemma ==
    ASSUME VoiceIInv, NEW s \in Users, Reset(s)
    PROVE  /\ setting' \in [VPUnits -> [mute : BOOLEAN, agc : BOOLEAN, aec : BOOLEAN]]
           /\ \A e \in VPUnits : e # held[s] => setting'[e] = setting[e]
           /\ Voiced(s) => setting'[held[s]].mute = setting[held[s]].mute
<1>1. CASE Voiced(s)
  <2>1. held[s] \in VPUnits /\ Defaults \in Parameters
    BY <1>1 DEF Voiced, VoiceIInv, IInv, TypeOK, Defaults, Parameters
  <2>2. PICK ok \in BOOLEAN : SetParams(held[s], Defaults, ok)
    BY <1>1 DEF Reset
  <2> QED
    BY <2>1, <2>2, SetParamsType DEF VoiceIInv
<1>2. CASE ~Voiced(s)
  BY <1>2 DEF Reset, VoiceIInv, VoiceTypeOK
<1> QED
  BY <1>1, <1>2

(* The pool's invariant, at every step. *)
LEMMA PoolInvariant == VoiceIInv /\ VoiceNext => IInv'
BY StepInvariant, VoiceStepIsPoolStep DEF VoiceIInv

LEMMA TaskInvariant ==
    ASSUME VoiceIInv, IInv', NEW s \in Users, Task(s)
    PROVE  VoiceIInv'
<1> USE DEF VoiceTypeOK, Elsewhere, HoldingAt, MuteAt, ParamsAt, Voiced, Applied
<1>1. /\ IInv /\ TypeOK /\ TypeOK' /\ VoiceTypeOK
      /\ HoldingAt(s) /\ MuteAt(s) /\ ParamsAt(s)
  BY DEF VoiceIInv, IInv
<1>2. CASE NewStream(s)
  <2> USE <1>2 DEF NewStream, Begin, vars, client, history
  <2>1. VoiceTypeOK'
    BY <1>1 DEF Stages, Tasks
  <2>2. Elsewhere(s) /\ HoldingAt(s)' /\ MuteAt(s)' /\ ParamsAt(s)'
    BY <1>1
  <2> QED
    BY <2>1, <2>2, OneStream
<1>3. CASE Acquire(s)
  <2> USE <1>3 DEF Acquire, Become, Begin, Resting, vars, client, history
  <2>1. VoiceTypeOK'
    BY <1>1 DEF Stages, Tasks, Fail
  <2>2. CASE Take(s) \/ Create(s)
    <3>1. /\ stage'[s] \in {"setup", "refused"} /\ pc'[s] = "holding"
          /\ \A u \in Users \ {s} : held'[u] = held[u] /\ pc'[u] = pc[u]
      BY <1>1, <2>2 DEF Take, Create, HandOut, TypeOK, Fail
    <3>2. Elsewhere(s) /\ HoldingAt(s)' /\ MuteAt(s)' /\ ParamsAt(s)'
      BY <1>1, <3>1, <2>2 DEF Fail
    <3> QED
      BY <2>1, <3>2, OneStream
  <2>3. CASE UNCHANGED vars /\ (Become(s, "open") \/ Fail(s))
    <3>1. held[s] = NoUnit
      BY <1>1 DEF TypeOK
    <3>2. Elsewhere(s) /\ HoldingAt(s)' /\ MuteAt(s)' /\ ParamsAt(s)'
      BY <1>1, <2>3, <3>1 DEF Fail
    <3> QED
      BY <2>1, <3>2, OneStream
  <2> QED
    BY <2>2, <2>3
<1>4. CASE Setup(s)
  <2> USE <1>4 DEF Setup, Become, Begin, Resting, vars, client, history
  <2>1. "mute" \in Kinds /\ mute[s] \in BOOLEAN /\ held[s] \in VPUnits
    BY <1>1 DEF Kinds, TypeOK
  <2>2. CASE /\ setting' = [setting EXCEPT ![held[s]].mute = mute[s]]
             /\ Become(s, IF s \in started THEN "start" ELSE "open")
             /\ crossed' = Marked(crossed, <<s, "mute">>, Applied(s, "mute"))
             /\ UNCHANGED started
    <3>1. VoiceTypeOK'
      BY <1>1, <2>1, <2>2 DEF Stages, Tasks, Marked
    <3>2. setting'[held[s]].mute = mute[s]
      BY <1>1, <2>1, <2>2
    <3>3. Elsewhere(s)
      BY <1>1, <2>1, <2>2 DEF Marked
    <3>4. HoldingAt(s)' /\ MuteAt(s)' /\ ParamsAt(s)'
      BY <1>1, <2>2, <3>2 DEF Marked
    <3> QED
      BY <3>1, <3>3, <3>4, OneStream
  <2>3. CASE Fail(s) /\ UNCHANGED <<setting, crossed>>
    <3>1. VoiceTypeOK' /\ Elsewhere(s) /\ HoldingAt(s)' /\ MuteAt(s)' /\ ParamsAt(s)'
      BY <1>1, <2>3 DEF Stages, Tasks, Fail
    <3> QED
      BY <3>1, OneStream
  <2> QED
    BY <2>2, <2>3
<1>5. CASE Restart(s)
  <2> USE DEF Become, Begin, Resting, vars, client, history
  <2>1. PICK ok \in BOOLEAN :
           /\ StartUnits(s, ok)
           /\ IF ok THEN Become(s, "open") /\ UNCHANGED started ELSE Fail(s)
    BY <1>5 DEF Restart
  <2> HIDE DEF Applied
  <2>2. VoiceTypeOK' /\ Elsewhere(s)
    <3>1. /\ stage' \in [Users -> Stages] /\ why' \in [Users -> Tasks]
          /\ started' \in SUBSET Users
          /\ \A u \in Users \ {s} : stage'[u] = stage[u] /\ (u \in started' <=> u \in started)
      BY <1>1, <1>5, <2>1 DEF Restart, Stages, Tasks, Fail
    <3>2. VoiceTypeOK'
      BY <1>1, <1>5, <2>1, <3>1, StartUnitsLemma DEF Restart
    <3>3. Elsewhere(s)
      BY <1>1, <1>5, <2>1, <3>1, StartUnitsLemma DEF Restart
    <3> QED
      BY <3>2, <3>3
  <2>3. HoldingAt(s)'
    BY <1>1, <1>5, <2>1 DEF Restart, Fail
  <2>4. Applied(s, "mute")' <=> Applied(s, "mute")
    BY <1>5 DEF Restart, Applied
  <2>5. Applied(s, "params")' <=> Applied(s, "params")
    BY <1>5 DEF Restart, Applied
  <2>6. "mute" \in Kinds
    BY DEF Kinds
  <2>7. MuteAt(s)'
    BY <1>1, <1>5, <2>1, <2>4, <2>6, StartUnitsLemma DEF Restart, Fail
  <2>8. ParamsAt(s)'
    BY <1>1, <1>5, <2>1, <2>5, StartUnitsLemma DEF Restart, Fail, SetTo
  <2> QED
    BY <2>2, <2>3, <2>7, <2>8, OneStream
<1>6. CASE Start(s)
  <2> USE DEF vars, client, history
  <2>1. PICK ok \in BOOLEAN : StartUnits(s, ok) /\ started' = Marked(started, s, ok)
    BY <1>6 DEF Start
  <2> HIDE DEF Applied
  <2>2. VoiceTypeOK' /\ Elsewhere(s)
    BY <1>1, <1>6, <2>1, StartUnitsLemma DEF Start, Marked
  <2>3. HoldingAt(s)'
    BY <1>1, <1>6 DEF Start
  <2>4. Applied(s, "mute")' <=> Applied(s, "mute")
    BY <1>6 DEF Start, Applied
  <2>5. Applied(s, "params")' <=> Applied(s, "params")
    BY <1>6 DEF Start, Applied
  <2>6. "mute" \in Kinds
    BY DEF Kinds
  <2>7. MuteAt(s)'
    BY <1>1, <1>6, <2>1, <2>4, <2>6, StartUnitsLemma DEF Start
  <2>8. s \in started' => ok
    BY <2>1 DEF Marked
  <2>9. ParamsAt(s)'
    BY <1>1, <1>6, <2>1, <2>5, <2>8, StartUnitsLemma DEF Start, SetTo
  <2> QED
    BY <2>2, <2>3, <2>7, <2>9, OneStream
<1>7. CASE StartChanged(s)
  <2> USE <1>7, ResetLemma DEF StartChanged, Begin, vars, client, history
  <2>1. VoiceTypeOK' /\ Elsewhere(s) /\ HoldingAt(s)' /\ MuteAt(s)' /\ ParamsAt(s)'
    BY <1>1 DEF Stages, Tasks
  <2> QED
    BY <2>1, OneStream
<1>8. CASE Change(s)
  <2> USE <1>8, ResetLemma DEF Change, Begin, vars, client, history
  <2>1. VoiceTypeOK' /\ Elsewhere(s) /\ HoldingAt(s)' /\ MuteAt(s)' /\ ParamsAt(s)'
    BY <1>1 DEF Stages, Tasks
  <2> QED
    BY <2>1, OneStream
<1>9. CASE Stop(s)
  <2> USE <1>9, ResetLemma DEF Stop, vars, client, history
  <2>1. VoiceTypeOK' /\ Elsewhere(s) /\ HoldingAt(s)' /\ MuteAt(s)' /\ ParamsAt(s)'
    BY <1>1
  <2> QED
    BY <2>1, OneStream
<1>10. CASE Destroy(s)
  <2> USE <1>10 DEF Destroy, Begin, vars, client, history
  <2>1. Reset(s) \/ UNCHANGED setting
    BY DEF ResetIfStarted
  <2>2. VoiceTypeOK' /\ Elsewhere(s) /\ HoldingAt(s)' /\ MuteAt(s)' /\ ParamsAt(s)'
    BY <1>1, <2>1, ResetLemma DEF Stages, Tasks
  <2> QED
    BY <2>2, OneStream
<1>11. CASE ReturnUnit(s)
  <2> USE <1>11 DEF ReturnUnit, voice, queues, client, history
  <2>1. \A u \in Users \ {s} : held'[u] = held[u] /\ pc'[u] = pc[u]
    BY <1>1 DEF Drop, Recycle, CheckIdle, ScheduleClear, TypeOK
  <2>2. VoiceTypeOK' /\ Elsewhere(s)
    BY <1>1, <2>1
  <2>3. HoldingAt(s)' /\ MuteAt(s)' /\ ParamsAt(s)'
    BY <1>1
  <2> QED
    BY <2>2, <2>3, OneStream
<1>12. CASE Closed(s)
  <2> USE <1>12 DEF Closed, Become, Begin, Resting, vars
  <2>1. VoiceTypeOK'
    <3>1. stage' \in [Users -> Stages] /\ why' \in [Users -> Tasks]
      BY <1>1 DEF Stages, Tasks
    <3>2. None \in Parameters
      BY DEF None, Parameters
    <3>3. mute' \in [Users -> BOOLEAN]
      BY <1>1
    <3>4. params' \in [Users -> Parameters]
      BY <1>1, <3>2
    <3> QED
      BY <1>1, <3>1, <3>3, <3>4
  <2>2. Elsewhere(s)
    BY <1>1
  <2>3. HoldingAt(s)' /\ MuteAt(s)' /\ ParamsAt(s)'
    BY <1>1
  <2> QED
    BY <2>1, <2>2, <2>3, OneStream
<1>13. CASE Regular(s)
  <2> USE <1>13 DEF Regular, Become, Begin, Resting, vars, client, history
  <2>1. VoiceTypeOK'
    BY <1>1 DEF Stages, Tasks, Fail
  <2>2. held[s] = NoUnit
    BY <1>1 DEF TypeOK
  <2>3. Elsewhere(s) /\ HoldingAt(s)' /\ MuteAt(s)' /\ ParamsAt(s)'
    BY <1>1, <2>2 DEF Fail
  <2> QED
    BY <2>1, <2>3, OneStream
<1> QED
  BY <1>2, <1>3, <1>4, <1>5, <1>6, <1>7, <1>8, <1>9, <1>10, <1>11, <1>12, <1>13
     DEF Task, TurnStep

LEMMA CallInvariant ==
    ASSUME VoiceIInv, IInv', NEW s \in Users, ClientCall(s)
    PROVE  VoiceIInv'
<1> USE DEF VoiceTypeOK, Elsewhere, HoldingAt, MuteAt, ParamsAt, Voiced
<1>1. /\ IInv /\ TypeOK /\ TypeOK' /\ VoiceTypeOK
      /\ HoldingAt(s) /\ MuteAt(s) /\ ParamsAt(s)
      /\ call[s] \in ClientCalls
  BY DEF VoiceIInv, IInv
<1>2. "mute" \in Kinds /\ "params" \in Kinds
  BY DEF Kinds
<1>3. CASE Check(s)
  <2> USE <1>3 DEF Check, vars, queues, history
  <2>1. /\ call[s].at = "idle"
        /\ \E c \in ClientCalls : c.at = "checked" /\ call' = [call EXCEPT ![s] = c]
    <3>1. NoCall \in ClientCalls /\ NoCall.at = "idle"
      BY DEF NoCall, ClientCalls, Kinds, None, Parameters
    <3>2. ASSUME NEW m \in BOOLEAN
          PROVE  LET c == [NoCall EXCEPT !.at = "checked", !.mute = m]
                 IN  c \in ClientCalls /\ c.at = "checked"
      BY DEF NoCall, ClientCalls, Kinds, None, Parameters
    <3>3. ASSUME NEW p \in Parameters
          PROVE  LET c == [NoCall EXCEPT !.at = "checked", !.kind = "params", !.params = p]
                 IN  c \in ClientCalls /\ c.at = "checked"
      BY DEF NoCall, ClientCalls, Kinds, None, Parameters
    <3>4. \/ \E m \in BOOLEAN :
                call' = [call EXCEPT ![s] = [NoCall EXCEPT !.at = "checked", !.mute = m]]
          \/ \E p \in Parameters :
                call' = [call EXCEPT ![s] =
                          [NoCall EXCEPT !.at = "checked", !.kind = "params", !.params = p]]
      BY RequestsAssumption
    <3> QED
      BY <3>1, <3>2, <3>3, <3>4
  <2>2. ~Applied(s, "mute") /\ ~Applied(s, "params")
    BY <2>1 DEF Applied
  <2>3. ~Applied(s, "mute")' /\ ~Applied(s, "params")'
    BY <1>1, <2>1 DEF Applied
  <2>4. VoiceTypeOK' /\ Elsewhere(s)
    BY <1>1, <2>1
  <2>5. HoldingAt(s)' /\ MuteAt(s)' /\ ParamsAt(s)'
    BY <1>1, <2>2, <2>3 DEF SetTo
  <2> QED
    BY <2>4, <2>5, OneStream
<1>4. CASE ApplyMute(s)
  <2> USE <1>4 DEF ApplyMute, Checked, To, Return, vars, queues
  <2>1. /\ held[s] \in VPUnits /\ call[s].mute \in BOOLEAN
        /\ ~Applied(s, "params") /\ NoCall \in ClientCalls /\ NoCall.at = "idle"
    BY <1>1 DEF TypeOK, ClientCalls, Applied, NoCall, Kinds, None, Parameters
  <2>2. CASE /\ setting' = [setting EXCEPT ![held[s]].mute = call[s].mute]
             /\ call' = [call EXCEPT ![s].at = "applied"]
             /\ crossed' = crossed \ {<<s, "mute">>}
    <3>1. VoiceTypeOK'
      BY <1>1, <2>1, <2>2 DEF ClientCalls
    <3>2. Elsewhere(s)
      BY <1>1, <2>1, <2>2
    <3>3. /\ setting'[held[s]].mute = call[s].mute
          /\ setting'[held[s]].agc = setting[held[s]].agc
          /\ setting'[held[s]].aec = setting[held[s]].aec
          /\ call'[s].mute = call[s].mute
      BY <1>1, <2>1, <2>2 DEF ClientCalls
    <3>4. Applied(s, "mute")' /\ ~Applied(s, "params")'
      BY <1>1, <2>2 DEF Applied, ClientCalls
    <3>5. HoldingAt(s)' /\ MuteAt(s)'
      BY <1>1, <2>2, <3>3, <3>4
    <3>6. ParamsAt(s)'
      BY <1>1, <1>2, <2>1, <2>2, <3>3, <3>4 DEF SetTo
    <3> QED
      BY <3>1, <3>2, <3>5, <3>6, OneStream
  <2>3. CASE Return(s) /\ UNCHANGED <<setting, crossed>>
    <3>1. VoiceTypeOK' /\ Elsewhere(s)
      BY <1>1, <2>1, <2>3
    <3>2. /\ ~Applied(s, "mute")' /\ ~Applied(s, "params")'
          /\ ~Applied(s, "mute") /\ ~Applied(s, "params")
      BY <1>1, <2>1, <2>3 DEF Applied
    <3>3. HoldingAt(s)' /\ MuteAt(s)' /\ ParamsAt(s)'
      BY <1>1, <2>3, <3>2 DEF SetTo
    <3> QED
      BY <3>1, <3>3, OneStream
  <2> QED
    BY <2>2, <2>3
<1>5. CASE ApplyParams(s)
  <2> USE <1>5 DEF ApplyParams, Checked, To, Return, vars, queues
  <2>1. PICK ok \in BOOLEAN :
           /\ SetParams(held[s], call[s].params, ok)
           /\ IF ok THEN To(s, "applied") ELSE Return(s)
           /\ halfway' = Marked(halfway, s, ~ok)
           /\ crossed' = IF ok THEN crossed \ {<<s, "params">>} ELSE crossed
    OBVIOUS
  <2>2. /\ held[s] \in VPUnits /\ call[s].params \in Parameters
        /\ NoCall \in ClientCalls /\ NoCall.at = "idle" /\ ~Applied(s, "mute")
    BY <1>1 DEF TypeOK, ClientCalls, Applied, NoCall, Kinds, None, Parameters
  <2>3. /\ setting' \in [VPUnits -> [mute : BOOLEAN, agc : BOOLEAN, aec : BOOLEAN]]
        /\ \A d \in VPUnits : d # held[s] => setting'[d] = setting[d]
        /\ setting'[held[s]].mute = setting[held[s]].mute
        /\ ok => /\ setting'[held[s]].agc = call[s].params.agc
                 /\ setting'[held[s]].aec = call[s].params.aec
    BY <1>1, <2>1, <2>2, SetParamsType
  <2>4. /\ call' \in [Users -> ClientCalls] /\ \A u \in Users \ {s} : call'[u] = call[u]
        /\ call'[s].at = IF ok THEN "applied" ELSE "idle"
        /\ ok => call'[s].kind = "params" /\ call'[s].params = call[s].params
    BY <1>1, <2>1, <2>2 DEF ClientCalls
  <2>5. VoiceTypeOK' /\ Elsewhere(s)
    BY <1>1, <2>1, <2>3, <2>4 DEF Marked
  <2>6. ~Applied(s, "mute")' /\ (Applied(s, "params")' <=> ok)
    BY <2>4 DEF Applied
  <2>7. HoldingAt(s)' /\ MuteAt(s)'
    BY <1>1, <1>2, <2>1, <2>2, <2>3, <2>6
  <2>8. ParamsAt(s)'
    BY <1>1, <2>1, <2>3, <2>4, <2>6 DEF SetTo, Marked
  <2> QED
    BY <2>5, <2>7, <2>8, OneStream
<1>6. CASE ApplyUnvoiced(s) \/ ApplyToNothing(s)
  <2>1. \E c \in ClientCalls : call' = [call EXCEPT ![s] = c]
    <3>1. CASE call' = [call EXCEPT ![s] = NoCall]
      BY <3>1 DEF ClientCalls, NoCall, Kinds, None, Parameters
    <3>2. CASE call' = [call EXCEPT ![s].at = "applied"]
      <4>1. [call[s] EXCEPT !.at = "applied"] \in ClientCalls
        BY <1>1 DEF ClientCalls
      <4> QED
        BY <3>2, <4>1
    <3>3. CASE call' = [call EXCEPT ![s].at = "panic"]
      <4>1. [call[s] EXCEPT !.at = "panic"] \in ClientCalls
        BY <1>1 DEF ClientCalls
      <4> QED
        BY <3>3, <4>1
    <3> QED
      BY <1>6, <3>1, <3>2, <3>3 DEF ApplyUnvoiced, ApplyToNothing, To, Return
  <2>2. UNCHANGED <<vars, setting, queues, mute, params, history>>
    BY <1>6 DEF ApplyUnvoiced, ApplyToNothing
  <2> USE <2>1, <2>2 DEF vars, queues, history
  <2>3. ~Voiced(s)
    BY <1>1, <1>6 DEF ApplyUnvoiced, ApplyToNothing, TypeOK
  <2>4. VoiceTypeOK' /\ Elsewhere(s)
    BY <1>1
  <2>5. HoldingAt(s)' /\ MuteAt(s)' /\ ParamsAt(s)'
    BY <1>1, <2>3
  <2> QED
    BY <2>4, <2>5, OneStream
<1>7. CASE Remember(s)
  <2> USE <1>7 DEF Remember, Return, vars, queues, history
  <2>1. /\ call[s].mute \in BOOLEAN /\ call[s].params \in Parameters
        /\ NoCall \in ClientCalls /\ NoCall.at = "idle"
    BY <1>1 DEF ClientCalls, NoCall, Kinds, None, Parameters
  <2>2. VoiceTypeOK' /\ Elsewhere(s)
    BY <1>1, <2>1
  <2>3. ~Applied(s, "mute")' /\ ~Applied(s, "params")'
    BY <1>1, <2>1 DEF Applied
  <2>4. HoldingAt(s)'
    BY <1>1
  <2>5. CASE Applied(s, "mute")
    <3>1. ~Applied(s, "params") /\ mute'[s] = call[s].mute /\ params'[s] = params[s]
      BY <1>1, <2>5 DEF Applied
    <3>2. MuteAt(s)' /\ ParamsAt(s)'
      BY <1>1, <2>3, <2>5, <3>1 DEF SetTo
    <3> QED
      BY <2>2, <2>4, <3>2, OneStream
  <2>6. CASE Applied(s, "params")
    <3>1. ~Applied(s, "mute") /\ params'[s] = call[s].params /\ mute'[s] = mute[s]
      BY <1>1, <2>6 DEF Applied
    <3>2. MuteAt(s)' /\ ParamsAt(s)'
      BY <1>1, <2>3, <2>6, <3>1 DEF SetTo
    <3> QED
      BY <2>2, <2>4, <3>2, OneStream
  <2> QED
    BY <2>5, <2>6
<1> QED
  BY <1>3, <1>4, <1>5, <1>6, <1>7 DEF ClientCall

LEMMA VoiceStepInvariant == VoiceIInv /\ [VoiceNext]_allVars => VoiceIInv'
<1> SUFFICES ASSUME VoiceIInv, [VoiceNext]_allVars PROVE VoiceIInv'
  OBVIOUS
<1>1. CASE VoiceNext
  <2>1. IInv'
    BY <1>1, PoolInvariant
  <2>2. ASSUME NEW s \in Users, Task(s) \/ ClientCall(s) PROVE VoiceIInv'
    BY <2>1, <2>2, TaskInvariant, CallInvariant
  <2>3. ASSUME UNCHANGED <<queues, client, history>>, Disposed,
               UNCHANGED <<held, pc>>
        PROVE  VoiceIInv'
    <3> USE <2>3 DEF queues, client, history
    <3>1. \A e \in VPUnits : setting'[e] = setting[e] \/ setting'[e] = New
      BY DEF Disposed
    <3>2. setting' \in [VPUnits -> [mute : BOOLEAN, agc : BOOLEAN, aec : BOOLEAN]]
      BY <3>1 DEF Disposed, New, VoiceIInv, VoiceTypeOK
    <3>3. VoiceTypeOK'
      BY <2>1, <3>2 DEF VoiceIInv, VoiceTypeOK, IInv
    <3>4. \A s \in Users : Voiced(s) => setting'[held[s]] = setting[held[s]]
      BY DEF Disposed, Voiced, InUse, Holders, VoiceIInv, IInv, TypeOK
    <3>5. ASSUME NEW s \in Users PROVE HoldingAt(s)' /\ MuteAt(s)' /\ ParamsAt(s)'
      <4>1. HoldingAt(s) /\ MuteAt(s) /\ ParamsAt(s)
        BY DEF VoiceIInv
      <4>2. /\ Voiced(s)' <=> Voiced(s)
            /\ Applied(s, "mute")' <=> Applied(s, "mute")
            /\ Applied(s, "params")' <=> Applied(s, "params")
        BY <2>3 DEF Voiced, Applied
      <4>3. HoldingAt(s)'
        BY <4>1 DEF HoldingAt
      <4>4. CASE ~Voiced(s)
        BY <4>2, <4>3, <4>4 DEF MuteAt, ParamsAt
      <4>5. CASE Voiced(s)
        <5>1. setting'[held'[s]] = setting[held[s]]
          BY <2>3, <3>4, <4>5
        <5>2. MuteAt(s)'
          BY <4>1, <4>2, <5>1 DEF MuteAt
        <5>3. ParamsAt(s)'
          BY <4>1, <4>2, <5>1 DEF ParamsAt, SetTo
        <5> QED
          BY <4>3, <5>2, <5>3
      <4> QED
        BY <4>4, <4>5
    <3> QED
      BY <2>1, <3>3, <3>5 DEF VoiceIInv
  <2>4. ASSUME NEW t \in timers, Timer(t) PROVE VoiceIInv'
    BY <2>3, <2>4 DEF Timer, ClearIfUnused
  <2>5. CASE DropContext
    BY <2>3, <2>5 DEF DropContext, DropManager
  <2> QED
    BY <1>1, <2>2, <2>4, <2>5 DEF VoiceNext
<1>2. CASE UNCHANGED allVars
  BY <1>2 DEF allVars, voice, vars, queues, client, history, VoiceIInv, VoiceTypeOK, IInv,
              TypeOK, OneOwner, TasksNotAhead, CurrentTimerMeansIdle, NothingAfterDrop,
              Holders, InUse, HoldingAt, MuteAt, ParamsAt, SetTo, Voiced, Applied
<1> QED
  BY <1>1, <1>2

LEMMA VoiceInvariance == VoiceSpec => []VoiceIInv
BY VoiceInitInvariant, VoiceStepInvariant, PTL DEF VoiceSpec

(* A unit that is set up is muted as its stream remembers, whoever had it      *)
(* before, with the exception of a set up that falls between the two halves of *)
(* set_input_mute.                                                             *)
THEOREM MuteKept == VoiceSpec => []MuteAsRemembered
<1>1. VoiceIInv => MuteAsRemembered
  BY DEF VoiceIInv, MuteAt, MuteAsRemembered
<1> QED
  BY <1>1, VoiceInvariance, PTL

(* And the unit of a started stream has the parameters the stream remembers.   *)
THEOREM ParamsKept == VoiceSpec => []ParamsAsRemembered
<1>1. VoiceIInv => ParamsAsRemembered
  BY DEF VoiceIInv, VoiceTypeOK, ParamsAt, SetTo, ParamsAsRemembered
<1> QED
  BY <1>1, VoiceInvariance, PTL

(* A stream that is gone, or was closed by an error, has returned its unit.    *)
THEOREM Returned == VoiceSpec => []UnitsReturned
<1>1. VoiceIInv => UnitsReturned
  BY DEF VoiceIInv, IInv, TypeOK, HoldingAt, UnitsReturned, Voiced
<1> QED
  BY <1>1, VoiceInvariance, PTL
=============================================================================
