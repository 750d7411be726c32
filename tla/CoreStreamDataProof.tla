------------------------ MODULE CoreStreamDataProof ------------------------
(* Whatever fails, a stream leaks no audio unit, gives the voice processing   *)
(* unit back quiet, and its callbacks find what they use; what runs is        *)
(* listened to, and a stream that is closed has nothing left.                 *)
EXTENDS CoreStreamData, TLAPS

Unheld == held["input"] = NoUnit /\ held["output"] = NoUnit

(* Units of one's own and the voice processing unit do not mix. *)
Shape ==
    /\ handle => /\ held["input"] \in {VoiceUnit, NoUnit}
                 /\ held["output"] \in {VoiceUnit, NoUnit}
                 /\ held["input"] = NoUnit => pc = "freeRest"
    /\ ~handle => held["input"] # VoiceUnit /\ held["output"] # VoiceUnit
    /\ held["input"] \in Units => held["input"] # held["output"]

SetupPlaces == {"voice", "pair", "createInput", "createOutput", "configureInput",
                "configureOutput", "resample", "initInput", "initOutput", "mute"}
                   \cup Listeners

(* How far create_audiounits and close are. *)
Progress ==
    /\ pc \in SetupPlaces \cup {"lookUp"} => job \in {"init", "reinit", "delayed"}
    /\ job = "stop" => pc = "stopUnits"
    /\ pc \in {"lookUp", "voice", "pair", "createInput", "unlistenSystem", "unlistenDevice",
               "free"} \/ phase = "new" => Unheld /\ ~handle
    /\ pc = "createOutput" =>
           /\ held["output"] = NoUnit /\ ~handle
           /\ "input" \in sides => held["input"] # NoUnit /\ ~paired
    /\ IF phase = "new" THEN pc = "idle" ELSE sides # {}
    /\ pc = "freeOutput" /\ handle => held["output"] = NoUnit
    /\ pc \in {"freeInput", "freeRest"} => held["output"] = NoUnit
    /\ pc = "freeRest" => held["input"] = NoUnit
    /\ pc \in {"freeOutput", "freeInput", "freeRest"} =>
           /\ unit[VoiceUnit] = "made"
           /\ held["input"] # NoUnit => unit[held["input"]] = "made"

Complete == (\A s \in sides : held[s] # NoUnit) /\ (paired => aggregate)

(* Units are initialized and started only when all is there; a stream that is *)
(* half set up has its next start delayed by a reinit.                        *)
Ready ==
    /\ pc \in {"configureInput", "configureOutput", "resample", "initInput", "initOutput",
               "mute"} \cup Listeners => Complete
    /\ pc \in {"initInput", "initOutput", "mute"} \cup Listeners => resampler
    /\ pc \in {"startInput", "startOutput"} => Unheld \/ (Complete /\ resampler)
    /\ (pc = "idle" \/ job = "stop") /\ ~delayedReinit => Unheld \/ (Complete /\ resampler)
    /\ job = "delayed" => delayedReinit

IInv ==
    /\ TypeOK /\ NoLeakedUnit /\ VoiceUnitReturned /\ CallbacksFindAll
    /\ Shape /\ Progress /\ Ready

LEMMA ListenersAre ==
    /\ Listeners = {"defaultInput", "defaultOutput", "sourceInput", "sourceOutput",
                    "aliveInput", "aliveOutput"}
    /\ Default("input") = "defaultInput" /\ Default("output") = "defaultOutput"
    /\ Source("input") = "sourceInput" /\ Source("output") = "sourceOutput"
    /\ Alive("input") = "aliveInput" /\ Alive("output") = "aliveOutput"
BY DEF Listeners, SystemListeners, DeviceListeners, AliveListeners, Default, Source, Alive,
       Scopes

LEMMA InitInvariant == Init => IInv
<1> SUFFICES ASSUME Init PROVE IInv
  OBVIOUS
<1> USE UnitsAssumption, ListenersAre DEF Init
<1>1. TypeOK
  BY DEF TypeOK, Jobs, Places, Scopes
<1>2. NoLeakedUnit /\ VoiceUnitReturned /\ CallbacksFindAll
  BY DEF NoLeakedUnit, VoiceUnitReturned, CallbacksFindAll, Held, Scopes
<1>3. Shape /\ Progress /\ Ready
  BY DEF Shape, Progress, Ready, Unheld, Scopes, SetupPlaces
<1> QED
  BY <1>1, <1>2, <1>3 DEF IInv

(* A step that leaves what the stream holds as it is has only to find the     *)
(* right place.                                                               *)
LEMMA CoreUnchanged ==
    ASSUME IInv, UNCHANGED core, TypeOK', Progress', Ready', UNCHANGED sides,
           pc # "freeRest"
    PROVE  IInv'
<1>1. NoLeakedUnit' /\ VoiceUnitReturned' /\ CallbacksFindAll'
  BY DEF IInv, core, NoLeakedUnit, VoiceUnitReturned, CallbacksFindAll, Held
<1>2. Shape'
  BY DEF IInv, core, Shape
<1> QED
  BY <1>1, <1>2 DEF IInv

LEMMA ErrInvariant ==
    ASSUME IInv, Err, UNCHANGED <<core, listening, unitsRunning, life>>,
           pc \in SetupPlaces \cup {"lookUp", "startInput", "startOutput"}
    PROVE  IInv'
<1> USE ListenersAre DEF Err, Become, Return
<1>1. pc' \in {"leaveSystem", "quietInput", "idle"} /\ pc # "freeRest"
  BY DEF SetupPlaces
<1>2. TypeOK'
  BY <1>1 DEF IInv, TypeOK, Jobs, Places, core, listening, life
<1>3. Progress'
  BY <1>1 DEF IInv, Progress, Unheld, SetupPlaces, core, life, TypeOK
<1>4. Ready'
  <2>1. CASE job = "init" \/ job = "reinit"
    BY <2>1 DEF Ready
  <2>2. CASE job # "init" /\ job # "reinit"
    BY <2>2 DEF IInv, Progress, SetupPlaces, Ready, Unheld, Complete, core, life
  <2> QED
    BY <2>1, <2>2
<1> QED
  BY <1>1, <1>2, <1>3, <1>4, CoreUnchanged DEF life

(* Setting up: steps that change no unit.                                     *)
LEMMA PassesInvariant ==
    ASSUME IInv, NEW place \in Places \ {"idle"}, Passes(place),
           UNCHANGED <<core, unitsRunning, life>>,
           listeners' \in SUBSET Listeners, installed' \in SUBSET Listeners,
           pc \notin {"idle", "freeRest"},
           \/ pc = "lookUp" /\ place = "voice"
           \/ pc = "voice" /\ place = "pair"
           \/ pc = "pair" /\ place = "createInput"
           \/ pc = "createInput" /\ "input" \notin sides /\ place = "createOutput"
           \/ pc = "createOutput" /\ "output" \notin sides /\ place = "configureInput"
           \/ pc = "configureInput" /\ place = "configureOutput"
           \/ pc = "configureOutput" /\ place = "resample"
           \/ pc = "initInput" /\ place = "initOutput"
           \/ pc = "initOutput" /\ place = "mute"
           \/ pc \in {"mute"} \cup Listeners /\ place \in Listeners \cup {"startInput"}
    PROVE  IInv'
<1> USE ListenersAre DEF Passes, Goto
<1>1. TypeOK'
  BY DEF IInv, TypeOK, core, flags, life
<1>2. Progress'
  BY DEF IInv, TypeOK, Progress, Unheld, SetupPlaces, core, life
<1>3. Ready'
  <2>1. CASE pc = "createOutput"
    <3>1. sides = {"input"} /\ ~paired /\ held["input"] # NoUnit
      <4>1. "output" \notin sides /\ sides # {}
        BY <2>1 DEF IInv, Progress
      <4>2. sides = {"input"}
        BY <4>1 DEF IInv, TypeOK, Scopes
      <4> QED
        BY <2>1, <4>2 DEF IInv, Progress
    <3>2. Complete'
      BY <3>1 DEF Complete, core, life
    <3> QED
      BY <2>1, <3>2 DEF IInv, Progress, Ready, SetupPlaces, flags
  <2>2. CASE pc # "createOutput"
    BY <2>2 DEF IInv, TypeOK, Ready, Unheld, Complete, SetupPlaces, core, life, flags
  <2> QED
    BY <2>1, <2>2
<1> QED
  BY <1>1, <1>2, <1>3, CoreUnchanged DEF life

(* A unit that the steps of create_audiounits take is not live, nor held: the *)
(* stream holds none, or one of which the callbacks would miss the other.     *)
LEMMA NotLive ==
    ASSUME IInv, pc \in {"voice", "pair", "createInput", "createOutput"},
           pc = "createOutput" => "output" \in sides
    PROVE  /\ \A u \in Units \cup {VoiceUnit} : unit[u] \notin {"initialized", "running"}
           /\ \A u \in Fresh : u # held["input"] /\ u # held["output"]
<1>1. \A u \in Units \cup {VoiceUnit} : unit[u] \notin {"initialized", "running"}
  BY DEF IInv, TypeOK, Progress, Unheld, CallbacksFindAll, Held, Scopes
<1>2. \A u \in Fresh : u # held["input"] /\ u # held["output"]
  BY UnitsAssumption DEF IInv, NoLeakedUnit, Fresh, Held, Scopes
<1> QED
  BY <1>1, <1>2

LEMMA CreateVoiceInvariant == ASSUME IInv, CreateVoice PROVE IInv'
<1> USE ListenersAre DEF CreateVoice, At
<1>1. CASE Goto("pair") /\ UNCHANGED core
  BY <1>1, PassesInvariant DEF Passes, listening, IInv, TypeOK, Places
<1>2. CASE ~(Goto("pair") /\ UNCHANGED core)
  <2> USE <1>2 DEF Goto
  <2>1. Unheld /\ ~handle
    BY DEF IInv, Progress
  <2>2. TypeOK'
    BY DEF IInv, TypeOK, Places, Scopes, listening, flags, life
  <2>3. NoLeakedUnit' /\ VoiceUnitReturned'
    BY <2>1, <2>2, UnitsAssumption
    DEF IInv, TypeOK, NoLeakedUnit, VoiceUnitReturned, Held, Unheld, Scopes
  <2>4. CallbacksFindAll'
    BY NotLive DEF IInv, TypeOK, CallbacksFindAll
  <2>5. Shape'
    BY <2>2, UnitsAssumption DEF Shape, Scopes
  <2>6. Progress' /\ Ready'
    BY <2>2, UnitsAssumption
    DEF IInv, TypeOK, Progress, Ready, Complete, SetupPlaces, Scopes, life, flags
  <2> QED
    BY <2>2, <2>3, <2>4, <2>5, <2>6 DEF IInv
<1> QED
  BY <1>1, <1>2

LEMMA CreatePairInvariant == ASSUME IInv, CreatePair PROVE IInv'
<1> USE ListenersAre DEF CreatePair, At
<1>1. CASE Goto("createInput") /\ UNCHANGED core
  BY <1>1, PassesInvariant DEF Passes, listening, IInv, TypeOK, Places
<1>2. CASE ~(Goto("createInput") /\ UNCHANGED core)
  <2> USE <1>2 DEF Goto
  <2>1. PICK u \in Fresh, v \in Fresh :
            /\ u # v
            /\ held' = [s \in Scopes |-> IF s = "input" THEN u ELSE v]
            /\ unit' = [unit EXCEPT ![u] = "made", ![v] = "made"]
    OBVIOUS
  <2>2. u \in Units /\ v \in Units /\ Unheld /\ ~handle /\ u # VoiceUnit /\ v # VoiceUnit
    BY UnitsAssumption DEF IInv, Progress, Fresh
  <2>3. held'["input"] = u /\ held'["output"] = v
    BY <2>1 DEF Scopes
  <2>4. TypeOK'
    BY <2>1, <2>2 DEF IInv, TypeOK, Places, Scopes, listening, flags, life
  <2>5. NoLeakedUnit'
    <3>1. Held = {} /\ Held' = {u, v}
      BY <2>2, <2>3, UnitsAssumption DEF Unheld, Held, Scopes
    <3> QED
      BY <2>1, <2>2, <3>1 DEF IInv, TypeOK, NoLeakedUnit
  <2>6. VoiceUnitReturned'
    BY <2>1, <2>2, <2>3 DEF IInv, TypeOK, VoiceUnitReturned, Held, Scopes
  <2>7. CallbacksFindAll'
    BY <2>1, <2>2, NotLive DEF IInv, TypeOK, CallbacksFindAll
  <2>8. Shape'
    BY <2>1, <2>2, <2>3 DEF Shape
  <2>9. Progress' /\ Ready'
    BY <2>2, <2>3, UnitsAssumption
    DEF IInv, TypeOK, Progress, Ready, Complete, SetupPlaces, Scopes, life, flags
  <2> QED
    BY <2>4, <2>5, <2>6, <2>7, <2>8, <2>9 DEF IInv
<1> QED
  BY <1>1, <1>2

(* create_audiounit for one side. *)
LEMMA CreateOneInvariant ==
    ASSUME IInv, NEW s \in Scopes, NEW u \in Fresh,
           held' = [held EXCEPT ![s] = u], unit' = [unit EXCEPT ![u] = "made"],
           paired' = FALSE,
           UNCHANGED <<handle, aggregate, resampler, flags, listening, unitsRunning, life>>,
           \/ pc = "createInput" /\ s = "input" /\ "input" \in sides /\ Goto("createOutput")
           \/ pc = "createOutput" /\ s = "output" /\ "output" \in sides
                /\ Goto("configureInput")
    PROVE  IInv'
<1> USE DEF Goto
<1>1. /\ u \in Units /\ u # VoiceUnit /\ u # NoUnit /\ unit[u] = "none"
      /\ held[s] = NoUnit /\ ~handle
  BY UnitsAssumption DEF IInv, Progress, Unheld, Fresh
<1>2. held'[s] = u /\ \A r \in Scopes \ {s} : held'[r] = held[r] /\ held[r] # u
  BY NotLive DEF IInv, TypeOK, Scopes
<1>3. TypeOK'
  BY <1>1 DEF IInv, TypeOK, Places, listening, flags, life
<1>4. Held' = Held \cup {u}
  BY <1>1, <1>2 DEF Held
<1>5. NoLeakedUnit' /\ VoiceUnitReturned'
  BY <1>1, <1>4 DEF IInv, TypeOK, NoLeakedUnit, VoiceUnitReturned
<1>6. CallbacksFindAll'
  BY <1>1, NotLive DEF IInv, TypeOK, CallbacksFindAll
<1>7. Shape'
  BY <1>1, <1>2 DEF IInv, Shape, Scopes
<1>8. Progress' /\ Ready'
  <2>1. CASE s = "input"
    BY <2>1, <1>1, <1>2, ListenersAre
    DEF IInv, TypeOK, Progress, Unheld, Ready, SetupPlaces, Scopes, life, flags
  <2>2. CASE s = "output"
    <3>1. Complete'
      BY <2>2, <1>1, <1>2 DEF IInv, TypeOK, Progress, Complete, Scopes, life
    <3> QED
      BY <2>2, <3>1, <1>1, <1>2, ListenersAre
      DEF IInv, TypeOK, Progress, Unheld, Ready, SetupPlaces, Scopes, life, flags
  <2> QED
    BY <2>1, <2>2 DEF Scopes
<1> QED
  BY <1>3, <1>5, <1>6, <1>7, <1>8 DEF IInv

LEMMA CreateInputInvariant == ASSUME IInv, CreateInput PROVE IInv'
<1> USE DEF CreateInput, At
<1>1. CASE "input" \notin sides /\ Goto("createOutput") /\ UNCHANGED <<core, flags>>
  BY <1>1, PassesInvariant DEF Passes, listening, IInv, TypeOK, Places
<1>2. CASE "input" \in sides /\ Fails("create") /\ UNCHANGED core
  BY <1>2, ErrInvariant DEF Fails, SetupPlaces, life
<1>3. CASE "input" \in sides /\ ~(Fails("create") /\ UNCHANGED core)
  BY <1>3, CreateOneInvariant DEF Scopes, life, listening, flags
<1> QED
  BY <1>1, <1>2, <1>3

LEMMA CreateOutputInvariant == ASSUME IInv, CreateOutput PROVE IInv'
<1> USE DEF CreateOutput, At
<1>1. CASE "output" \notin sides /\ Goto("configureInput") /\ UNCHANGED <<core, flags>>
  BY <1>1, PassesInvariant DEF Passes, listening, IInv, TypeOK, Places
<1>2. CASE /\ "output" \in sides /\ paired' = FALSE /\ Goto("configureInput")
           /\ \E u \in Fresh : /\ held' = [held EXCEPT !["output"] = u]
                              /\ unit' = [unit EXCEPT ![u] = "made"]
           /\ UNCHANGED <<handle, aggregate, resampler, flags>>
  BY <1>2, CreateOneInvariant DEF Scopes, life, listening, flags
<1>3. CASE /\ "output" \in sides /\ Fails("create") /\ held' = [held EXCEPT !["input"] = NoUnit]
           /\ unit' = [u \in DOMAIN unit |-> IF u = held["input"] THEN "none" ELSE unit[u]]
           /\ UNCHANGED <<handle, aggregate, resampler, paired>>
  <2> USE <1>3 DEF Fails, Err, Become, Return
  <2>1. /\ unit' = [u \in DOMAIN unit |-> IF u = held["input"] THEN "none" ELSE unit[u]]
        /\ held["output"] = NoUnit /\ ~handle /\ held["input"] # VoiceUnit
        /\ UNCHANGED <<handle, aggregate, resampler, paired>>
    BY UnitsAssumption DEF IInv, Progress, Shape, Goto
  <2>2. Unheld' /\ Held \subseteq {held["input"]} /\ Held' = {}
    BY <2>1 DEF IInv, TypeOK, Unheld, Held, Scopes
  <2>3. TypeOK'
    BY <2>1, ListenersAre DEF IInv, TypeOK, Places, Jobs, Scopes, listening, life
  <2>4. NoLeakedUnit' /\ VoiceUnitReturned'
    BY <2>1, <2>2 DEF IInv, TypeOK, NoLeakedUnit, VoiceUnitReturned
  <2>5. CallbacksFindAll'
    BY <2>1, NotLive DEF IInv, TypeOK, CallbacksFindAll
  <2>6. Shape'
    BY <2>1, <2>2, UnitsAssumption DEF Unheld, Shape
  <2>7. Progress'
    BY <2>1, <2>2, UnitsAssumption, ListenersAre
    DEF IInv, TypeOK, Progress, SetupPlaces, life
  <2>8. Ready'
    BY <2>1, <2>2, ListenersAre DEF IInv, Progress, SetupPlaces, Ready, Unheld
  <2> QED
    BY <2>3, <2>4, <2>5, <2>6, <2>7, <2>8 DEF IInv
<1> QED
  BY <1>1, <1>2, <1>3

LEMMA ConfigureInvariant == ASSUME IInv, ConfigureInput \/ ConfigureOutput PROVE IInv'
<1>1. CASE ConfigureInput
  BY <1>1, PassesInvariant, ErrInvariant
  DEF ConfigureInput, At, Fails, SetupPlaces, listening, life, IInv, TypeOK, Places
<1>2. CASE ConfigureOutput
  BY <1>2, PassesInvariant, ErrInvariant
  DEF ConfigureOutput, At, Fails, SetupPlaces, listening, life, IInv, TypeOK, Places
<1> QED
  BY <1>1, <1>2

LEMMA ResamplerInvariant == ASSUME IInv, CreateResampler PROVE IInv'
<1> USE ListenersAre DEF CreateResampler, At, Goto
<1>1. TypeOK'
  BY DEF IInv, TypeOK, Places, listening, flags, life
<1>2. NoLeakedUnit' /\ VoiceUnitReturned' /\ CallbacksFindAll' /\ Shape'
  BY DEF IInv, NoLeakedUnit, VoiceUnitReturned, CallbacksFindAll, Shape, Held, life
<1>3. Progress' /\ Ready'
  BY DEF IInv, TypeOK, Progress, Ready, Complete, SetupPlaces, Unheld, life, flags
<1> QED
  BY <1>1, <1>2, <1>3 DEF IInv

(* A unit that the stream holds gets another state.                           *)
LEMMA UnitMoves ==
    ASSUME IInv, NEW u \in Held, NEW st \in {"made", "initialized", "running"},
           unit' = [unit EXCEPT ![u] = st],
           st # "made" => Complete /\ resampler,
           UNCHANGED <<held, handle, aggregate, resampler, paired, sides>>
    PROVE  NoLeakedUnit' /\ VoiceUnitReturned' /\ CallbacksFindAll'
<1>1. u \in Units \cup {VoiceUnit} /\ Held' = Held
  BY UnitsAssumption DEF IInv, TypeOK, Held
<1>2. NoLeakedUnit'
  BY <1>1, UnitsAssumption DEF IInv, TypeOK, NoLeakedUnit
<1>3. VoiceUnitReturned'
  BY <1>1 DEF IInv, TypeOK, VoiceUnitReturned
<1>4. CallbacksFindAll'
  BY <1>1 DEF IInv, TypeOK, CallbacksFindAll, Complete
<1> QED
  BY <1>2, <1>3, <1>4

LEMMA InitializeInvariant ==
    ASSUME IInv, NEW s \in Scopes, NEW from \in {"initInput", "initOutput"},
           NEW to \in {"initOutput", "mute"}, InitializeUnit(from, s, to),
           from = "initInput" <=> to = "initOutput"
    PROVE  IInv'
<1> USE DEF InitializeUnit, At
<1>1. CASE Passes(to) /\ UNCHANGED unit
  BY <1>1, PassesInvariant DEF core, listening, IInv, TypeOK, Places
<1>2. CASE Fails("initialize") /\ UNCHANGED unit
  BY <1>2, ErrInvariant DEF Fails, SetupPlaces, core, life
<1>3. CASE held[s] # NoUnit /\ Passes(to) /\ unit' = [unit EXCEPT ![held[s]] = "initialized"]
  <2> USE <1>3, ListenersAre DEF Passes, Goto
  <2>1. held[s] \in Held /\ Complete /\ resampler
    BY DEF IInv, Ready, Held
  <2>2. TypeOK'
    BY DEF IInv, TypeOK, Places, listening, flags, life
  <2>3. NoLeakedUnit' /\ VoiceUnitReturned' /\ CallbacksFindAll'
    BY <2>1, UnitMoves DEF life
  <2>4. Shape' /\ Progress' /\ Ready'
    BY <2>1 DEF IInv, TypeOK, Shape, Progress, Ready, Complete, SetupPlaces, Unheld, life, flags
  <2> QED
    BY <2>2, <2>3, <2>4 DEF IInv
<1> QED
  BY <1>1, <1>2, <1>3

LEMMA MuteInvariant == ASSUME IInv, SetInputMute PROVE IInv'
BY PassesInvariant, ErrInvariant, ListenersAre
DEF SetInputMute, At, Fails, SetupPlaces, listening, life, IInv, TypeOK, Places

LEMMA ListenInvariant ==
    ASSUME IInv, NEW s \in Scopes, NEW l \in Listeners, NEW wanted \in BOOLEAN,
           NEW to \in Listeners \cup {"idle", "startInput"}, Listen(l, s, wanted, to)
    PROVE  IInv'
<1> USE DEF Listen, At
<1>1. CASE Fails("listen") /\ UNCHANGED listening
  BY <1>1, ErrInvariant DEF Fails, SetupPlaces, life
<1>2. CASE ~(Fails("listen") /\ UNCHANGED listening)
  <2>1. listeners' \in SUBSET Listeners /\ installed' \in SUBSET Listeners
    BY <1>2 DEF IInv, TypeOK, listening
  <2>2. CASE to # "idle"
    BY <1>2, <2>1, <2>2, PassesInvariant, ListenersAre DEF Passes, Places
  <2>3. CASE to = "idle"
    <3> USE <1>2, <2>3, ListenersAre DEF Return
    <3>1. TypeOK'
      BY <2>1 DEF IInv, TypeOK, Places, Jobs, core, flags, life
    <3>2. Progress'
      BY DEF IInv, TypeOK, Progress, Unheld, SetupPlaces, core, life
    <3>3. Ready'
      BY DEF IInv, TypeOK, Ready, Unheld, Complete, core, life, flags
    <3> QED
      BY <3>1, <3>2, <3>3, CoreUnchanged DEF life
  <2> QED
    BY <2>2, <2>3
<1> QED
  BY <1>1, <1>2

(* Closing. *)
LEMMA QuietInputInvariant == ASSUME IInv, QuietInput PROVE IInv'
<1> USE ListenersAre DEF QuietInput, At, Goto
<1>1. TypeOK'
  BY DEF IInv, TypeOK, Places, Scopes, listening, flags, life
<1>2. /\ held'["input"] = held["input"]
      /\ held'["output"] =
             IF held["input"] # NoUnit /\ handle THEN NoUnit ELSE held["output"]
      /\ \A u \in DOMAIN unit : unit'[u] = IF u = held["input"] THEN "made" ELSE unit[u]
      /\ DOMAIN unit' = Units \cup {VoiceUnit} /\ DOMAIN unit = Units \cup {VoiceUnit}
  BY DEF IInv, TypeOK, Scopes
<1>3. Held' = Held
  BY <1>2, UnitsAssumption DEF IInv, Shape, Held, Scopes
<1>4. NoLeakedUnit' /\ VoiceUnitReturned'
  BY <1>2, <1>3, UnitsAssumption
  DEF IInv, TypeOK, NoLeakedUnit, VoiceUnitReturned, Shape, Held, Scopes
<1>5. CallbacksFindAll'
  BY <1>2, <1>3, UnitsAssumption
  DEF IInv, TypeOK, CallbacksFindAll, Shape, Held, Scopes, life
<1>6. Shape'
  BY <1>2 DEF IInv, Shape
<1>7. Ready'
  BY DEF IInv, Progress, Ready, SetupPlaces, life, flags
<1>8. unit'[VoiceUnit] = "made" /\ (held'["input"] # NoUnit => unit'[held'["input"]] = "made")
  BY <1>2, UnitsAssumption DEF IInv, TypeOK, Shape, VoiceUnitReturned, Scopes
<1>9. Progress'
  BY <1>1, <1>2, <1>8 DEF IInv, TypeOK, Progress, SetupPlaces, Shape, Unheld, life
<1> QED
  BY <1>1, <1>4, <1>5, <1>6, <1>7, <1>9 DEF IInv

LEMMA FreeOutputInvariant == ASSUME IInv, FreeOutput PROVE IInv'
<1> USE ListenersAre DEF FreeOutput, At, Goto
<1>1. TypeOK'
  BY DEF IInv, TypeOK, Places, Scopes, listening, flags, life
<1>2. /\ held'["input"] = held["input"] /\ held'["output"] = NoUnit
      /\ \A u \in DOMAIN unit : unit'[u] = IF u = held["output"] THEN "none" ELSE unit[u]
      /\ DOMAIN unit' = Units \cup {VoiceUnit} /\ DOMAIN unit = Units \cup {VoiceUnit}
      /\ VoiceUnit # held["output"]
      /\ held["input"] # NoUnit => held["input"] # held["output"]
  BY UnitsAssumption DEF IInv, TypeOK, Shape, Progress, Scopes
<1>3. Held' = Held \ {held["output"]}
  BY <1>2, UnitsAssumption DEF Held, Scopes
<1>4. NoLeakedUnit' /\ VoiceUnitReturned'
  BY <1>2, <1>3, UnitsAssumption DEF IInv, TypeOK, NoLeakedUnit, VoiceUnitReturned
<1>5. CallbacksFindAll'
  BY <1>2, <1>3 DEF IInv, TypeOK, CallbacksFindAll, Progress, Held, Scopes
<1>6. Shape' /\ Ready'
  BY <1>2, UnitsAssumption DEF IInv, Shape, Progress, Ready, SetupPlaces, life, flags
<1>7. unit'[VoiceUnit] = "made" /\ (held'["input"] # NoUnit => unit'[held'["input"]] = "made")
  BY <1>2 DEF IInv, TypeOK, Progress, Scopes
<1>8. Progress'
  BY <1>1, <1>2, <1>7 DEF IInv, TypeOK, Progress, SetupPlaces, Unheld, life
<1> QED
  BY <1>1, <1>4, <1>5, <1>6, <1>8 DEF IInv

LEMMA FreeInputInvariant == ASSUME IInv, FreeInput PROVE IInv'
<1> USE ListenersAre DEF FreeInput, At, Goto
<1>1. TypeOK'
  BY DEF IInv, TypeOK, Places, Scopes, listening, flags, life
<1>2. /\ held'["input"] = NoUnit /\ held'["output"] = NoUnit
      /\ \A u \in DOMAIN unit :
             unit'[u] = IF u = held["input"] /\ ~handle THEN "none" ELSE unit[u]
      /\ DOMAIN unit' = Units \cup {VoiceUnit} /\ DOMAIN unit = Units \cup {VoiceUnit}
      /\ held["output"] = NoUnit
      /\ handle => held["input"] \in {VoiceUnit, NoUnit}
      /\ ~handle => held["input"] # VoiceUnit
  BY DEF IInv, TypeOK, Shape, Progress, Scopes
<1>3. Held \subseteq {held["input"]} /\ Held' = {}
  BY <1>2 DEF Held, Scopes
<1>4. NoLeakedUnit' /\ VoiceUnitReturned'
  BY <1>2, <1>3, UnitsAssumption
  DEF IInv, TypeOK, NoLeakedUnit, VoiceUnitReturned, Held, Scopes
<1>5. CallbacksFindAll'
  BY <1>2, <1>3 DEF IInv, TypeOK, CallbacksFindAll, Progress, Held, Scopes
<1>6. Shape' /\ Ready'
  BY <1>2, UnitsAssumption DEF IInv, Shape, Progress, Ready, SetupPlaces, life, flags
<1>7. Progress'
  BY <1>2 DEF IInv, TypeOK, Progress, SetupPlaces, Unheld, life
<1> QED
  BY <1>1, <1>4, <1>5, <1>6, <1>7 DEF IInv

LEMMA FreeRestInvariant == ASSUME IInv, FreeRest PROVE IInv'
<1> USE ListenersAre DEF FreeRest, At, Goto
<1>1. TypeOK'
  BY DEF IInv, TypeOK, Places, listening, flags, life
<1>2. Unheld /\ Held = {} /\ unit[VoiceUnit] = "made"
  BY DEF IInv, Progress, Unheld, Held, Scopes
<1>3. NoLeakedUnit' /\ VoiceUnitReturned' /\ CallbacksFindAll'
  BY <1>2 DEF IInv, NoLeakedUnit, VoiceUnitReturned, CallbacksFindAll, Held, life
<1>4. Shape' /\ Progress' /\ Ready'
  BY <1>2, UnitsAssumption
  DEF IInv, TypeOK, Shape, Progress, Ready, Unheld, SetupPlaces, life, flags
<1> QED
  BY <1>1, <1>3, <1>4 DEF IInv

LEMMA UnlistenSystemInvariant ==
    ASSUME IInv, NEW from \in {"unlistenSystem", "leaveSystem"},
           NEW to \in {"unlistenDevice", "leaveDevice"},
           from = "unlistenSystem" <=> to = "unlistenDevice",
           UnlistenSystem(from, to)
    PROVE  IInv'
<1> USE ListenersAre DEF UnlistenSystem, Unlisten, At, Goto
<1>1. TypeOK'
  BY DEF IInv, TypeOK, Places, core, flags, life
<1>2. Progress' /\ Ready'
  BY DEF IInv, TypeOK, Progress, Ready, Complete, Unheld, SetupPlaces, core, life, flags
<1> QED
  BY <1>1, <1>2, CoreUnchanged DEF life

LEMMA UnlistenDeviceInvariant ==
    ASSUME IInv,
           \/ UnlistenDevice("unlistenDevice", AfterClose)
           \/ UnlistenDevice("leaveDevice", StopToDestroy)
    PROVE  IInv'
<1> USE ListenersAre
<1>1. /\ listeners' \in SUBSET Listeners /\ installed' \in SUBSET Listeners
      /\ UNCHANGED <<core, unitsRunning, life>>
  BY DEF IInv, TypeOK, UnlistenDevice, Unlisten
<1>2. CASE At("unlistenDevice") /\ AfterClose
  <2> USE <1>1, <1>2 DEF AfterClose, At, Goto, Become, Return
  <2>1. TypeOK'
    BY DEF IInv, TypeOK, Places, Jobs, core, flags, life
  <2>2. Progress' /\ Ready'
    BY DEF IInv, TypeOK, Progress, Ready, Complete, Unheld, SetupPlaces, core, life, flags
  <2> QED
    BY <2>1, <2>2, CoreUnchanged DEF life
<1>3. CASE At("leaveDevice") /\ StopToDestroy
  <2> USE <1>1, <1>3 DEF StopToDestroy, At, Goto
  <2>1. TypeOK'
    BY DEF IInv, TypeOK, Places, core, flags, life
  <2>2. Progress' /\ Ready'
    BY DEF IInv, TypeOK, Progress, Ready, Complete, Unheld, SetupPlaces, core, life, flags
  <2> QED
    BY <2>1, <2>2, CoreUnchanged DEF life
<1> QED
  BY <1>2, <1>3 DEF UnlistenDevice

(* Starting and stopping.                                                     *)
(* Of the units some go from one state to another, of which all need the      *)
(* same.                                                                      *)
LEMMA UnitsMove ==
    ASSUME IInv, NEW us \in SUBSET Held, NEW st \in {"initialized", "running"},
           unit' = [u \in DOMAIN unit |-> IF u \in us THEN st ELSE unit[u]],
           us # {} => Complete /\ resampler, pc # "freeRest",
           UNCHANGED <<held, handle, aggregate, resampler, paired, sides>>
    PROVE  NoLeakedUnit' /\ VoiceUnitReturned' /\ CallbacksFindAll' /\ Shape'
<1>1. /\ Held' = Held /\ us \subseteq Units \cup {VoiceUnit}
      /\ \A u \in Held : u \in Units => unit[u] # "none"
      /\ \A u \in Units \cup {VoiceUnit} : unit'[u] = IF u \in us THEN st ELSE unit[u]
  BY UnitsAssumption DEF IInv, TypeOK, NoLeakedUnit, Held
<1>2. NoLeakedUnit'
  BY <1>1, UnitsAssumption DEF IInv, TypeOK, NoLeakedUnit
<1>3. VoiceUnitReturned'
  BY <1>1 DEF IInv, TypeOK, VoiceUnitReturned
<1>4. CallbacksFindAll'
  BY <1>1 DEF IInv, TypeOK, CallbacksFindAll, Complete
<1> QED
  BY <1>2, <1>3, <1>4 DEF IInv, Shape

LEMMA StartInputInvariant == ASSUME IInv, StartInput PROVE IInv'
<1> USE ListenersAre DEF StartInput, At
<1>1. CASE held["input"] # NoUnit /\ Fails("start") /\ UNCHANGED unit
  BY <1>1, ErrInvariant DEF Fails, core, life
<1>2. CASE Run("input")
  <2>1. \E us \in SUBSET Held :
            /\ unit' = [u \in DOMAIN unit |-> IF u \in us THEN "running" ELSE unit[u]]
            /\ us # {} => ~Unheld
    <3>1. {held["input"]} \ {NoUnit} \in SUBSET Held
      BY DEF Held, Scopes
    <3>2. unit' = [u \in DOMAIN unit |-> IF u \in {held["input"]} \ {NoUnit}
                                            THEN "running" ELSE unit[u]]
      BY <1>2, UnitsAssumption DEF Run, IInv, TypeOK
    <3> QED
      BY <3>1, <3>2 DEF Unheld
  <2>2. NoLeakedUnit' /\ VoiceUnitReturned' /\ CallbacksFindAll' /\ Shape'
    BY <2>1, UnitsMove DEF IInv, Ready, life
  <2>3. unit' \in [Units \cup {VoiceUnit} -> {"none", "made", "initialized", "running"}]
    BY <1>2 DEF Run, IInv, TypeOK
  <2>4. pc' \in {"idle", "startOutput", "leaveSystem", "quietInput"}
           /\ (pc' = "idle" <=> job' = "none") /\ job' \in Jobs
           /\ flags' \in BOOLEAN \X BOOLEAN \X BOOLEAN
    BY DEF Fails, Err, Started, Passes, Return, Become, Goto, IInv, TypeOK, Jobs, flags
  <2>5. TypeOK'
    BY <2>3, <2>4 DEF IInv, TypeOK, Places, listening, flags, life
  <2>6. Progress'
    BY <2>4 DEF IInv, TypeOK, Progress, SetupPlaces, Unheld, life, Fails, Err, Started,
                Passes, Goto, Return, Become
  <2>7. Ready'
    <3>1. CASE Started \/ Passes("startOutput")
      BY <3>1 DEF IInv, Ready, Unheld, Complete, SetupPlaces, life, flags, Started, Passes,
                  Goto, Return
    <3>2. CASE Fails("start")
      BY <3>2 DEF IInv, Ready, Unheld, Complete, SetupPlaces, life, Fails, Err, Return,
                  Become
    <3> QED
      BY <3>1, <3>2
  <2> QED
    BY <2>2, <2>5, <2>6, <2>7 DEF IInv
<1> QED
  BY <1>1, <1>2

LEMMA StartOutputInvariant == ASSUME IInv, StartOutput PROVE IInv'
<1> USE ListenersAre DEF StartOutput, At
<1>1. CASE held["output"] # NoUnit /\ Fails("start") /\ UNCHANGED <<unit, unitsRunning>>
  BY <1>1, ErrInvariant DEF Fails, core, life
<1>2. CASE Run("output") /\ unitsRunning' = TRUE /\ Started
  <2> USE <1>2 DEF Started, Return
  <2>1. \E us \in SUBSET Held :
            /\ unit' = [u \in DOMAIN unit |-> IF u \in us THEN "running" ELSE unit[u]]
            /\ us # {} => ~Unheld
    <3>1. {held["output"]} \ {NoUnit} \in SUBSET Held
      BY DEF Held, Scopes
    <3>2. unit' = [u \in DOMAIN unit |-> IF u \in {held["output"]} \ {NoUnit}
                                            THEN "running" ELSE unit[u]]
      BY UnitsAssumption DEF Run, IInv, TypeOK
    <3> QED
      BY <3>1, <3>2 DEF Unheld
  <2>2. NoLeakedUnit' /\ VoiceUnitReturned' /\ CallbacksFindAll' /\ Shape'
    BY <2>1, UnitsMove DEF IInv, Ready, life
  <2>3. TypeOK'
    BY DEF Run, IInv, TypeOK, Places, Jobs, listening, life
  <2>4. Progress' /\ Ready'
    BY DEF IInv, TypeOK, Progress, Ready, Unheld, Complete, SetupPlaces, life
  <2> QED
    BY <2>2, <2>3, <2>4 DEF IInv
<1> QED
  BY <1>1, <1>2

LEMMA StopUnitsInvariant == ASSUME IInv, StopUnits PROVE IInv'
<1> USE ListenersAre DEF StopUnits, At, AfterStop, Goto, Return
<1>1. LET us == {u \in Held : unit[u] = "running"}
      IN  /\ us \in SUBSET Held
          /\ unit' = [u \in DOMAIN unit |-> IF u \in us THEN "initialized" ELSE unit[u]]
          /\ us # {} => Complete /\ resampler
  <2>1. \A u \in DOMAIN unit : u \in {held[s] : s \in Scopes} <=> u \in Held
    BY UnitsAssumption DEF IInv, TypeOK, Held
  <2>2. \A u \in Held : u \in DOMAIN unit
    BY DEF IInv, TypeOK, Held
  <2> QED
    BY <2>1, <2>2 DEF Halt, IInv, CallbacksFindAll, Complete
<1>2. NoLeakedUnit' /\ VoiceUnitReturned' /\ CallbacksFindAll' /\ Shape'
  BY <1>1, UnitsMove DEF life
<1>3. TypeOK'
  <2>1. unit' \in [Units \cup {VoiceUnit} -> {"none", "made", "initialized", "running"}]
    BY DEF Halt, IInv, TypeOK
  <2>2. pc' \in Places /\ job' \in Jobs /\ (pc' = "idle" <=> job' = "none")
    BY DEF IInv, TypeOK, Places, Jobs
  <2> QED
    BY <2>1, <2>2 DEF IInv, TypeOK, listening, flags, life
<1>4. Progress' /\ Ready'
  BY DEF IInv, TypeOK, Progress, Ready, Unheld, Complete, SetupPlaces, life, flags
<1> QED
  BY <1>2, <1>3, <1>4 DEF IInv

(* The jobs of the queue. *)
LEMMA JobInvariant ==
    ASSUME IInv,
           \/ StreamInit \/ Start \/ Stop \/ DeviceChanges \/ DeviceDies \/ Destroy
           \/ Reinit \/ LookUp \/ Free
    PROVE  IInv'
<1> USE ListenersAre DEF Idle, At, Goto, Return, Become, Passes
<1>1. CASE StreamInit
  <2> USE <1>1 DEF StreamInit
  <2>1. TypeOK'
    BY DEF IInv, TypeOK, Places, Jobs, Scopes, core, listening, flags
  <2>2. Unheld /\ ~handle /\ Held = {} /\ pc = "idle"
    BY DEF IInv, Progress, Unheld, Held, Scopes
  <2>3. NoLeakedUnit' /\ VoiceUnitReturned' /\ CallbacksFindAll'
    BY <2>2 DEF IInv, NoLeakedUnit, VoiceUnitReturned, CallbacksFindAll, Held, core
  <2>4. Shape'
    BY <2>2, UnitsAssumption DEF Shape, Unheld, core
  <2>5. Progress'
    BY <2>2 DEF Progress, Unheld, SetupPlaces, core
  <2>6. Ready'
    BY DEF Ready, SetupPlaces
  <2> QED
    BY <2>1, <2>3, <2>4, <2>5, <2>6 DEF IInv
<1>2. CASE Start \/ Stop \/ DeviceChanges \/ DeviceDies \/ Destroy
  <2> USE <1>2 DEF Start, Stop, DeviceChanges, DeviceDies, Destroy
  <2>1. pc = "idle" /\ phase = "live" /\ UNCHANGED <<core, life>>
    OBVIOUS
  <2>2. TypeOK'
    BY DEF IInv, TypeOK, Places, Jobs, core, listening, flags, life
  <2>3. Progress'
    BY DEF IInv, TypeOK, Progress, Unheld, SetupPlaces, core, life
  <2>4. Ready'
    BY DEF IInv, TypeOK, Ready, Unheld, Complete, SetupPlaces, core, life, flags
  <2> QED
    BY <2>1, <2>2, <2>3, <2>4, CoreUnchanged DEF life
<1>3. CASE Reinit
  <2> USE <1>3 DEF Reinit
  <2>1. TypeOK' /\ Progress' /\ Ready'
    BY DEF IInv, TypeOK, Places, Progress, Ready, Unheld, Complete, SetupPlaces, core,
           listening, life, flags
  <2> QED
    BY <2>1, CoreUnchanged DEF life
<1>4. CASE LookUp
  BY <1>4, PassesInvariant, ErrInvariant
  DEF LookUp, Fails, listening, life, IInv, TypeOK, Places
<1>5. CASE Free
  <2> USE <1>5 DEF Free
  <2>1. TypeOK' /\ Progress' /\ Ready'
    BY DEF IInv, TypeOK, Places, Jobs, Progress, Ready, Unheld, Complete, SetupPlaces, core,
           listening, life, flags
  <2> QED
    BY <2>1, CoreUnchanged
<1> QED
  BY <1>1, <1>2, <1>3, <1>4, <1>5

LEMMA SetupInvariant == ASSUME IInv, Setup PROVE IInv'
<1> USE ListenersAre DEF Scopes
<1>1. CASE \/ CreateVoice \/ CreatePair \/ CreateInput \/ CreateOutput
           \/ ConfigureInput \/ ConfigureOutput \/ CreateResampler \/ SetInputMute
  BY <1>1, CreateVoiceInvariant, CreatePairInvariant, CreateInputInvariant,
     CreateOutputInvariant, ConfigureInvariant, ResamplerInvariant, MuteInvariant
<1>2. CASE \/ InitializeUnit("initInput", "input", "initOutput")
           \/ InitializeUnit("initOutput", "output", "mute")
  BY <1>2, InitializeInvariant
<1>3. CASE \/ Listen("defaultOutput", "output", "output" \in follows, "defaultInput")
           \/ Listen("defaultInput", "input", "input" \in follows, "sourceOutput")
           \/ Listen("sourceOutput", "output", TRUE, "aliveOutput")
           \/ Listen("aliveOutput", "output", "output" \notin follows, "sourceInput")
           \/ Listen("sourceInput", "input", TRUE, "aliveInput")
           \/ Listen("aliveInput", "input", "input" \notin follows, AfterSetup)
  <2>1. AfterSetup \in {"idle", "startInput"} /\ ("output" \in follows) \in BOOLEAN
            /\ ("input" \in follows) \in BOOLEAN /\ ("output" \notin follows) \in BOOLEAN
            /\ ("input" \notin follows) \in BOOLEAN
    BY DEF AfterSetup
  <2>2. CASE Listen("defaultOutput", "output", "output" \in follows, "defaultInput")
    BY <2>1, <2>2, ListenInvariant
  <2>3. CASE Listen("defaultInput", "input", "input" \in follows, "sourceOutput")
    BY <2>1, <2>3, ListenInvariant
  <2>4. CASE Listen("sourceOutput", "output", TRUE, "aliveOutput")
    BY <2>4, ListenInvariant
  <2>5. CASE Listen("aliveOutput", "output", "output" \notin follows, "sourceInput")
    BY <2>1, <2>5, ListenInvariant
  <2>6. CASE Listen("sourceInput", "input", TRUE, "aliveInput")
    BY <2>6, ListenInvariant
  <2>7. CASE Listen("aliveInput", "input", "input" \notin follows, AfterSetup)
    BY <2>1, <2>7, ListenInvariant
  <2> QED
    BY <1>3, <2>2, <2>3, <2>4, <2>5, <2>6, <2>7
<1> QED
  BY <1>1, <1>2, <1>3 DEF Setup

LEMMA StepInvariant == IInv /\ [Next]_vars => IInv'
<1> SUFFICES ASSUME IInv, [Next]_vars PROVE IInv'
  OBVIOUS
<1>1. CASE StreamInit \/ Start \/ Stop \/ DeviceChanges \/ DeviceDies \/ Destroy
             \/ Reinit \/ LookUp
  BY <1>1, JobInvariant
<1>2. CASE Setup
  BY <1>2, SetupInvariant
<1>3. CASE CloseUnits
  BY <1>3, QuietInputInvariant, FreeOutputInvariant, FreeInputInvariant, FreeRestInvariant
  DEF CloseUnits
<1>4. CASE CloseListeners \/ Destroying
  BY <1>4, UnlistenSystemInvariant, UnlistenDeviceInvariant, JobInvariant
  DEF CloseListeners, Destroying
<1>5. CASE StartInput \/ StartOutput \/ StopUnits
  BY <1>5, StartInputInvariant, StartOutputInvariant, StopUnitsInvariant
<1>6. CASE UNCHANGED vars
  BY <1>6 DEF vars, core, listening, flags, life, IInv, TypeOK, NoLeakedUnit,
              VoiceUnitReturned, CallbacksFindAll, Shape, Progress, Ready, Unheld, Complete,
              Held
<1> QED
  BY <1>1, <1>2, <1>3, <1>4, <1>5, <1>6 DEF Next

THEOREM Invariant == Spec => []IInv
BY InitInvariant, StepInvariant, PTL DEF Spec

(* The state of a stream's core is always of its type.                        *)
THEOREM TypeCorrect == Spec => []TypeOK
<1>1. IInv => TypeOK
  BY DEF IInv
<1> QED
  BY <1>1, Invariant, PTL

(* However setup, start, reinit and destroy fail, the audio units that exist  *)
(* are those the stream holds.                                                *)
THEOREM NoLeak == Spec => []NoLeakedUnit
<1>1. IInv => NoLeakedUnit
  BY DEF IInv
<1> QED
  BY <1>1, Invariant, PTL

(* The voice processing unit always comes back to the pool, stopped and       *)
(* uninitialized.                                                             *)
THEOREM VoiceUnitIsReturned == Spec => []VoiceUnitReturned
<1>1. IInv => VoiceUnitReturned
  BY DEF IInv
<1> QED
  BY <1>1, Invariant, PTL

(* No callback can find the unit of another side, the resampler or the        *)
(* aggregate device gone.                                                     *)
THEOREM CallbacksAreSafe == Spec => []CallbacksFindAll
<1>1. IInv => CallbacksFindAll
  BY DEF IInv
<1> QED
  BY <1>1, Invariant, PTL
-----------------------------------------------------------------------------
(* What the listeners promise, if CoreAudio forgets those it is told to.      *)

(* The listeners a stream that is set up has, and those of them that setup     *)
(* registers before it comes to one.                                           *)
Wanted ==
    {Default(s) : s \in follows} \cup {Source(s) : s \in sides}
        \cup {Alive(s) : s \in sides \ follows}

Before(l) ==
    CASE l = "defaultOutput" -> {}
      [] l = "defaultInput" -> {"defaultOutput"}
      [] l = "sourceOutput" -> {"defaultOutput", "defaultInput"}
      [] l = "aliveOutput" -> {"defaultOutput", "defaultInput", "sourceOutput"}
      [] l = "sourceInput" -> Listeners \ {"sourceInput", "aliveInput"}
      [] l = "aliveInput" -> Listeners \ {"aliveInput"}

NoneRunning == \A u \in DOMAIN unit : unit[u] # "running"

(* What close forgets CoreAudio forgets too, so that setup starts with no      *)
(* listener and registers each of the wanted ones once; a unit is only started *)
(* when all of them are there.                                                 *)
WatchInv ==
    /\ installed = listeners
    /\ \A s \in Scopes \ sides : held[s] = NoUnit
    /\ pc \in (SetupPlaces \ Listeners) \cup {"lookUp"} \/ phase = "new" => listeners = {}
    /\ pc = "unlistenDevice" => listeners \cap SystemListeners = {}
    /\ pc \in Listeners => listeners = Wanted \cap Before(pc)
    /\ pc \in SetupPlaces => NoneRunning
    /\ pc \in {"startInput", "startOutput"} \/ ((pc = "idle" \/ job = "stop") /\ ~delayedReinit)
          => Unheld \/ listeners = Wanted
    /\ pc = "idle" => NoneRunning \/ listeners = Wanted

LEMMA UnheldIsQuiet == ASSUME IInv, Unheld PROVE NoneRunning
BY DEF IInv, CallbacksFindAll, NoneRunning, Held, Unheld, Scopes

LEMMA HaltedIsQuiet == ASSUME IInv, Halt PROVE NoneRunning'
<1>1. \A u \in DOMAIN unit : unit[u] = "running" => u \in {held[s] : s \in Scopes}
  BY DEF IInv, CallbacksFindAll, Held
<1> QED
  BY <1>1 DEF Halt, NoneRunning

(* A side that the stream has not got has no unit. *)
OneSided == \A s \in Scopes \ sides : held[s] = NoUnit

(* Closing, stopping, and all else that neither sets up nor ends a job. *)
LEMMA WatchElsewhere ==
    ASSUME IInv, WatchInv, UNCHANGED <<listening, sides>>, OneSided',
           pc' \in {"reinit", "stopUnits", "quietInput", "freeOutput", "freeInput",
                    "freeRest", "unlistenSystem", "leaveSystem"},
           phase' # "new", job' # "stop"
    PROVE  WatchInv'
BY ListenersAre DEF WatchInv, SetupPlaces, listening, OneSided

(* create_audiounits and what follows it, before the listeners.               *)
LEMMA WatchSetup ==
    ASSUME IInv, IInv', WatchInv, UNCHANGED <<listening, life, job>>, OneSided', NoneRunning',
           pc \in (SetupPlaces \ Listeners) \cup {"lookUp"},
           pc' \in (SetupPlaces \ Listeners) \cup {"defaultOutput"}
    PROVE  WatchInv'
<1> USE ListenersAre
<1>1. listeners = {} /\ job # "stop"
  BY DEF WatchInv, IInv, Progress, SetupPlaces
<1>2. Before("defaultOutput") = {}
  BY DEF Before
<1> QED
  BY <1>1, <1>2 DEF WatchInv, SetupPlaces, listening, life, OneSided

LEMMA WatchErr ==
    ASSUME IInv, WatchInv, Err, UNCHANGED <<core, listening, life>>,
           pc \in SetupPlaces \cup {"lookUp", "startInput", "startOutput"}
    PROVE  WatchInv'
<1> USE ListenersAre DEF Err, Become, Return
<1>1. OneSided' /\ phase' # "new"
  BY DEF WatchInv, OneSided, core, life, IInv, Progress, SetupPlaces
<1>2. CASE job \in {"init", "reinit"}
  BY <1>1, <1>2, WatchElsewhere DEF life
<1>3. CASE job \notin {"init", "reinit"}
  <2>1. job # "delayed" => pc \in {"startInput", "startOutput"}
    BY <1>3 DEF IInv, Progress, SetupPlaces
  <2>2. Wanted' = Wanted /\ (Unheld' <=> Unheld) /\ (NoneRunning' <=> NoneRunning)
    BY DEF Wanted, Unheld, NoneRunning, core, life
  <2>3. NoneRunning \/ listeners = Wanted
    <3>1. CASE pc \in SetupPlaces
      BY <3>1 DEF WatchInv
    <3>2. CASE pc = "lookUp"
      BY <3>2, UnheldIsQuiet DEF IInv, Progress
    <3>3. CASE pc \in {"startInput", "startOutput"}
      BY <3>3, UnheldIsQuiet DEF WatchInv
    <3> QED
      BY <3>1, <3>2, <3>3
  <2>4. ~delayedReinit' => Unheld \/ listeners = Wanted
    BY <2>1 DEF IInv, Ready, WatchInv
  <2> QED
    BY <1>1, <1>3, <2>2, <2>3, <2>4 DEF WatchInv, OneSided, SetupPlaces, listening
<1> QED
  BY <1>2, <1>3

LEMMA WatchListen ==
    ASSUME IInv, IInv', WatchInv, NEW s \in Scopes, NEW l \in Listeners, NEW wanted,
           NEW to, Listen(l, s, wanted, to),
           s \in sides /\ wanted <=> l \in Wanted,
           \/ to \in Listeners /\ Before(to) = Before(l) \cup {l}
           \/ to = AfterSetup /\ Listeners = Before(l) \cup {l}
    PROVE  WatchInv'
<1> USE ListenersAre DEF Listen, At
<1>1. CASE Fails("listen") /\ UNCHANGED listening
  BY <1>1, WatchErr DEF Fails, SetupPlaces, life
<1>2. CASE ~(Fails("listen") /\ UNCHANGED listening)
  <2>1. held[s] # NoUnit <=> s \in sides
    BY DEF IInv, Ready, Complete, WatchInv
  <2>2. listeners = Wanted \cap Before(l) /\ installed = listeners /\ NoneRunning
    BY DEF WatchInv, SetupPlaces
  <2>3. listeners' = Wanted \cap (Before(l) \cup {l}) /\ installed' = listeners'
    BY <1>2, <2>1, <2>2 DEF listening
  <2>4. Wanted' = Wanted /\ NoneRunning' /\ OneSided' /\ phase' # "new"
    BY <2>2 DEF Wanted, NoneRunning, OneSided, WatchInv, core, life, IInv, Progress
  <2>5. job \in {"init", "reinit", "delayed"}
    BY DEF IInv, Progress, SetupPlaces
  <2>6. CASE to \in Listeners /\ Before(to) = Before(l) \cup {l}
    <3>1. pc' = to /\ job' = job
      BY <1>2, <2>6 DEF Goto, Fails
    <3>2. listeners' = Wanted' \cap (Before(pc))'
      BY <2>3, <2>4, <2>6, <3>1 DEF Before
    <3> QED
      BY <2>3, <2>4, <2>5, <2>6, <3>1, <3>2 DEF WatchInv, OneSided, SetupPlaces
  <2>7. CASE to = AfterSetup /\ Listeners = Before(l) \cup {l}
    <3>1. Wanted \subseteq Listeners
      BY DEF IInv, TypeOK, Wanted, Scopes
    <3>2. listeners' = Wanted'
      BY <2>3, <2>4, <2>7, <3>1
    <3>3. /\ pc' \in {"idle", "startInput"} /\ job' # "stop"
      BY <1>2, <2>5, <2>7 DEF AfterSetup, Goto, Return, Fails
    <3> QED
      BY <2>3, <2>4, <3>2, <3>3 DEF WatchInv, OneSided, SetupPlaces
  <2> QED
    BY <2>6, <2>7
<1> QED
  BY <1>1, <1>2

LEMMA WatchSetupSteps == ASSUME IInv, IInv', WatchInv, Setup PROVE WatchInv'
<1> USE ListenersAre DEF At, Goto
<1>0. OneSided /\ (pc \in SetupPlaces => NoneRunning)
  BY DEF WatchInv, OneSided
<1>1. CASE CreateVoice
  <2>1. OneSided' /\ NoneRunning'
    BY <1>0, <1>1 DEF CreateVoice, OneSided, NoneRunning, core, life, SetupPlaces
  <2> QED
    BY <1>1, <2>1, WatchSetup DEF CreateVoice, SetupPlaces
<1>2. CASE CreatePair
  <2>1. OneSided'
    BY <1>0, <1>2 DEF CreatePair, OneSided, core, life
  <2>2. NoneRunning'
    BY <1>0, <1>2 DEF CreatePair, NoneRunning, core, SetupPlaces
  <2> QED
    BY <1>2, <2>1, <2>2, WatchSetup DEF CreatePair, SetupPlaces
<1>3. CASE CreateInput
  <2>1. CASE "input" \in sides /\ Fails("create") /\ UNCHANGED core
    BY <1>3, <2>1, WatchErr DEF CreateInput, Fails, SetupPlaces
  <2>2. CASE ~("input" \in sides /\ Fails("create") /\ UNCHANGED core)
    <3>1. OneSided'
      BY <1>0, <1>3, <2>2 DEF CreateInput, OneSided, core, life, IInv, TypeOK
    <3>2. NoneRunning'
      BY <1>0, <1>3, <2>2 DEF CreateInput, NoneRunning, core, SetupPlaces
    <3> QED
      BY <1>3, <2>2, <3>1, <3>2, WatchSetup DEF CreateInput, SetupPlaces
  <2> QED
    BY <2>1, <2>2
<1>4. CASE CreateOutput
  <2>1. OneSided'
    BY <1>0, <1>4 DEF CreateOutput, OneSided, core, life, IInv, TypeOK
  <2>2. NoneRunning'
    BY <1>0, <1>4 DEF CreateOutput, NoneRunning, core, SetupPlaces
  <2>3. CASE /\ "output" \in sides /\ Fails("create")
             /\ held' = [held EXCEPT !["input"] = NoUnit]
    <3>1. Unheld'
      BY <1>4, <2>3 DEF CreateOutput, IInv, TypeOK, Progress, Unheld, Scopes
    <3>2. UNCHANGED <<listening, life>> /\ Err
      BY <1>4, <2>3 DEF CreateOutput, Fails
    <3>3. phase' # "new" /\ installed' = listeners' /\ job \in {"init", "reinit", "delayed"}
      BY <1>4, <3>2 DEF CreateOutput, IInv, Progress, WatchInv, SetupPlaces, life, listening
    <3> QED
      BY <2>1, <2>2, <3>1, <3>2, <3>3
      DEF Err, Become, Return, WatchInv, OneSided, SetupPlaces
  <2>4. CASE pc' = "configureInput" /\ job' = job
    BY <1>4, <2>1, <2>2, <2>4, WatchSetup DEF CreateOutput, SetupPlaces
  <2> QED
    BY <1>4, <2>3, <2>4 DEF CreateOutput
<1>5. CASE ConfigureInput \/ ConfigureOutput
  <2>1. UNCHANGED <<core, listening, life>> /\ pc \in {"configureInput", "configureOutput"}
    BY <1>5 DEF ConfigureInput, ConfigureOutput
  <2>2. OneSided' /\ NoneRunning'
    BY <1>0, <2>1 DEF OneSided, NoneRunning, core, life, SetupPlaces
  <2>3. CASE Fails("configure")
    BY <2>1, <2>3, WatchErr DEF Fails, SetupPlaces
  <2>4. CASE ~Fails("configure")
    BY <1>5, <2>1, <2>2, <2>4, WatchSetup
    DEF ConfigureInput, ConfigureOutput, Passes, SetupPlaces
  <2> QED
    BY <2>3, <2>4
<1>6. CASE CreateResampler
  <2>1. OneSided' /\ NoneRunning'
    BY <1>0, <1>6 DEF CreateResampler, OneSided, NoneRunning, life, SetupPlaces
  <2> QED
    BY <1>6, <2>1, WatchSetup DEF CreateResampler, SetupPlaces
<1>7. ASSUME NEW s \in Scopes, NEW from \in {"initInput", "initOutput"},
             NEW to \in {"initOutput", "mute"}, InitializeUnit(from, s, to)
      PROVE  WatchInv'
  <2>1. CASE Fails("initialize") /\ UNCHANGED unit
    BY <1>7, <2>1, WatchErr DEF InitializeUnit, Fails, SetupPlaces, core
  <2>2. CASE ~(Fails("initialize") /\ UNCHANGED unit)
    <3>1. Passes(to)
      BY <1>7, <2>2 DEF InitializeUnit
    <3>2. OneSided' /\ NoneRunning'
      BY <1>0, <1>7, <2>2 DEF InitializeUnit, OneSided, NoneRunning, life, SetupPlaces
    <3> QED
      BY <1>7, <3>1, <3>2, WatchSetup DEF InitializeUnit, Passes, SetupPlaces
  <2> QED
    BY <2>1, <2>2
<1>8. CASE SetInputMute
  <2>1. UNCHANGED <<core, listening, life>> /\ pc = "mute"
    BY <1>8 DEF SetInputMute
  <2>2. OneSided' /\ NoneRunning'
    BY <1>0, <2>1 DEF OneSided, NoneRunning, core, life, SetupPlaces
  <2>3. CASE Fails("mute")
    BY <2>1, <2>3, WatchErr DEF Fails, SetupPlaces
  <2>4. CASE ~Fails("mute")
    BY <1>8, <2>1, <2>2, <2>4, WatchSetup DEF SetInputMute, Passes, SetupPlaces
  <2> QED
    BY <2>3, <2>4
<1>9. /\ "defaultOutput" \in Wanted <=> "output" \in follows
      /\ "defaultInput" \in Wanted <=> "input" \in follows
      /\ "sourceOutput" \in Wanted <=> "output" \in sides
      /\ "sourceInput" \in Wanted <=> "input" \in sides
      /\ "aliveOutput" \in Wanted <=> "output" \in sides /\ "output" \notin follows
      /\ "aliveInput" \in Wanted <=> "input" \in sides /\ "input" \notin follows
      /\ follows \subseteq sides /\ sides \subseteq Scopes
  BY DEF Wanted, IInv, TypeOK, Scopes
<1>10. /\ Before("defaultInput") = Before("defaultOutput") \cup {"defaultOutput"}
       /\ Before("sourceOutput") = Before("defaultInput") \cup {"defaultInput"}
       /\ Before("aliveOutput") = Before("sourceOutput") \cup {"sourceOutput"}
       /\ Before("sourceInput") = Before("aliveOutput") \cup {"aliveOutput"}
       /\ Before("aliveInput") = Before("sourceInput") \cup {"sourceInput"}
       /\ Listeners = Before("aliveInput") \cup {"aliveInput"}
  BY DEF Before
<1> HIDE ListenersAre DEF At, Goto
<1> Listeners = {"defaultInput", "defaultOutput", "sourceInput", "sourceOutput",
                 "aliveInput", "aliveOutput"}
  BY ListenersAre
<1>11. CASE Listen("defaultOutput", "output", "output" \in follows, "defaultInput")
  BY <1>9, <1>10, <1>11, WatchListen DEF Scopes
<1>12. CASE Listen("defaultInput", "input", "input" \in follows, "sourceOutput")
  BY <1>9, <1>10, <1>12, WatchListen DEF Scopes
<1>13. CASE Listen("sourceOutput", "output", TRUE, "aliveOutput")
  BY <1>9, <1>10, <1>13, WatchListen DEF Scopes
<1>14. CASE Listen("aliveOutput", "output", "output" \notin follows, "sourceInput")
  BY <1>9, <1>10, <1>14, WatchListen DEF Scopes
<1>15. CASE Listen("sourceInput", "input", TRUE, "aliveInput")
  BY <1>9, <1>10, <1>15, WatchListen DEF Scopes
<1>16. CASE Listen("aliveInput", "input", "input" \notin follows, AfterSetup)
  BY <1>9, <1>10, <1>16, WatchListen DEF Scopes
<1>17. CASE \/ InitializeUnit("initInput", "input", "initOutput")
            \/ InitializeUnit("initOutput", "output", "mute")
  BY <1>7, <1>17 DEF Scopes
<1> QED
  BY <1>1, <1>2, <1>3, <1>4, <1>5, <1>6, <1>8, <1>11, <1>12, <1>13, <1>14, <1>15, <1>16,
     <1>17 DEF Setup

LEMMA WatchCloseUnits == ASSUME IInv, WatchInv, CloseUnits PROVE WatchInv'
<1> USE DEF CloseUnits, QuietInput, FreeOutput, FreeInput, FreeRest, At, Goto
<1>1. OneSided'
  BY DEF WatchInv, OneSided, IInv, TypeOK, life
<1>2. phase' # "new" /\ job' # "stop"
  BY DEF IInv, Progress, life
<1> QED
  BY <1>1, <1>2, WatchElsewhere DEF life

LEMMA WatchUnlisten ==
    ASSUME "unlisten" \notin Failures, IInv, WatchInv,
           \/ UnlistenSystem("unlistenSystem", "unlistenDevice")
           \/ UnlistenSystem("leaveSystem", "leaveDevice")
           \/ UnlistenDevice("unlistenDevice", AfterClose)
           \/ UnlistenDevice("leaveDevice", StopToDestroy)
    PROVE  WatchInv'
<1> USE ListenersAre DEF At, Goto
<1>1. OneSided /\ installed = listeners /\ listeners \subseteq Listeners
  BY DEF WatchInv, OneSided, IInv, TypeOK
<1>2. CASE \/ UnlistenSystem("unlistenSystem", "unlistenDevice")
           \/ UnlistenSystem("leaveSystem", "leaveDevice")
  <2>1. /\ listeners' = listeners \ SystemListeners /\ installed' = listeners'
        /\ UNCHANGED <<core, life, job>> /\ pc' \in {"unlistenDevice", "leaveDevice"}
    BY <1>1, <1>2 DEF UnlistenSystem, Unlisten
  <2>2. phase # "new" /\ job # "stop"
    BY <1>2 DEF UnlistenSystem, IInv, Progress
  <2> QED
    BY <1>1, <2>1, <2>2 DEF WatchInv, OneSided, SetupPlaces, core, life
<1>3. CASE \/ UnlistenDevice("unlistenDevice", AfterClose)
           \/ UnlistenDevice("leaveDevice", StopToDestroy)
  <2>1. /\ listeners' = listeners \ DeviceListeners /\ installed' = listeners'
        /\ UNCHANGED <<core, life>>
    BY <1>1, <1>3 DEF UnlistenDevice, Unlisten
  <2>2. phase # "new" /\ job # "stop"
    BY <1>3 DEF UnlistenDevice, IInv, Progress
  <2>3. CASE pc = "leaveDevice" /\ StopToDestroy
    BY <1>1, <2>1, <2>2, <2>3 DEF StopToDestroy, WatchInv, OneSided, SetupPlaces, core, life
  <2>4. CASE pc = "unlistenDevice" /\ AfterClose
    <3>1. listeners' = {}
      BY <1>1, <2>1, <2>4 DEF WatchInv, Listeners
    <3>2. Unheld' /\ NoneRunning'
      BY <2>1, <2>4, UnheldIsQuiet DEF IInv, Progress, Unheld, NoneRunning, core
    <3>3. pc' \in {"lookUp", "stopUnits", "free", "idle"} /\ job' # "stop"
      BY <2>2, <2>4 DEF AfterClose, Become, Return
    <3> QED
      BY <1>1, <2>1, <2>2, <3>1, <3>2, <3>3
      DEF WatchInv, OneSided, SetupPlaces, core, life
  <2> QED
    BY <1>3, <2>3, <2>4 DEF UnlistenDevice
<1> QED
  BY <1>2, <1>3

LEMMA WatchStart == ASSUME IInv, IInv', WatchInv, StartInput \/ StartOutput PROVE WatchInv'
<1> USE ListenersAre DEF At
<1>1. CASE \/ StartInput /\ Fails("start") /\ UNCHANGED unit
           \/ StartOutput /\ Fails("start") /\ UNCHANGED unit
  BY <1>1, WatchErr DEF StartInput, StartOutput, Fails, core, life
<1>2. CASE Run("input") \/ Run("output")
  <2>1. /\ UNCHANGED <<held, listening, life>> /\ Wanted' = Wanted /\ (Unheld' <=> Unheld)
        /\ pc \in {"startInput", "startOutput"}
    BY <1>2 DEF StartInput, StartOutput, Wanted, Unheld, life
  <2>2. Unheld \/ listeners = Wanted
    BY <2>1 DEF WatchInv
  <2>3. NoneRunning' \/ listeners' = Wanted'
    <3>1. CASE Unheld
      <4>1. unit' = unit
        BY <1>2, <3>1, UnitsAssumption DEF Run, Unheld, IInv, TypeOK
      <4> QED
        BY <3>1, <4>1, UnheldIsQuiet DEF NoneRunning
    <3>2. CASE ~Unheld
      BY <2>1, <2>2, <3>2 DEF listening
    <3> QED
      BY <3>1, <3>2
  <2>4. /\ OneSided' /\ installed' = listeners' /\ phase' # "new"
    BY <2>1 DEF WatchInv, OneSided, listening, life, IInv, Progress
  <2>5. pc' \in {"idle", "startOutput", "leaveSystem", "quietInput"} /\ job' # "stop"
    BY <1>2, <2>1
    DEF StartInput, StartOutput, Started, Passes, Fails, Err, Return, Become, Goto, IInv,
        Progress
  <2> QED
    BY <2>1, <2>2, <2>3, <2>4, <2>5 DEF WatchInv, OneSided, SetupPlaces, listening
<1> QED
  BY <1>1, <1>2 DEF StartInput, StartOutput

LEMMA WatchStop == ASSUME IInv, WatchInv, StopUnits PROVE WatchInv'
<1> USE ListenersAre DEF StopUnits, At, AfterStop, Goto, Return
<1>1. OneSided' /\ phase' # "new"
  BY DEF WatchInv, OneSided, life, IInv, Progress
<1>2. CASE job # "stop"
  BY <1>1, <1>2, WatchElsewhere DEF life
<1>3. CASE job = "stop"
  <2>1. NoneRunning'
    BY HaltedIsQuiet
  <2>2. /\ ~delayedReinit' => Unheld' \/ listeners' = Wanted'
        /\ installed' = listeners' /\ pc' = "idle" /\ job' = "none"
    BY <1>3 DEF WatchInv, Unheld, Wanted, listening, life, flags
  <2> QED
    BY <1>1, <2>1, <2>2 DEF WatchInv, OneSided, SetupPlaces
<1> QED
  BY <1>2, <1>3

LEMMA WatchJobs ==
    ASSUME IInv, IInv', WatchInv,
           \/ StreamInit \/ Start \/ Stop \/ DeviceChanges \/ DeviceDies \/ Destroy
           \/ Reinit \/ LookUp \/ Free
    PROVE  WatchInv'
<1> USE ListenersAre DEF Idle, At, Goto, Return, Become, Passes
<1>1. CASE StreamInit
  <2>1. Unheld /\ NoneRunning /\ listeners = {} /\ installed = {}
    BY <1>1, UnheldIsQuiet DEF StreamInit, IInv, Progress, WatchInv
  <2> QED
    BY <1>1, <2>1
    DEF StreamInit, WatchInv, SetupPlaces, Unheld, NoneRunning, Scopes, core, listening
<1>2. CASE Start \/ Stop \/ DeviceChanges \/ DeviceDies \/ Destroy
  <2>1. /\ UNCHANGED <<core, listening, life>> /\ pc = "idle" /\ phase = "live"
        /\ Wanted' = Wanted /\ (Unheld' <=> Unheld) /\ (NoneRunning' <=> NoneRunning)
    BY <1>2 DEF Start, Stop, DeviceChanges, DeviceDies, Destroy, Wanted, Unheld,
                NoneRunning, core, life
  <2>2. /\ pc' \in {"idle", "startInput", "stopUnits", "leaveSystem"}
        /\ job' = "stop" \/ pc' = "startInput" \/ pc' = "idle" =>
               (~delayedReinit' => ~delayedReinit) /\ (pc' = "startInput" => ~delayedReinit)
    BY <1>2, <2>1 DEF Start, Stop, DeviceChanges, DeviceDies, Destroy
  <2> QED
    BY <2>1, <2>2 DEF WatchInv, SetupPlaces, core, listening, life
<1>3. CASE Reinit
  <2>1. OneSided' /\ phase' # "new" /\ job' # "stop"
    BY <1>3 DEF Reinit, WatchInv, OneSided, core, life, IInv, Progress
  <2> QED
    BY <1>3, <2>1, WatchElsewhere DEF Reinit, life
<1>4. CASE LookUp
  <2>1. CASE Passes("voice")
    <3>1. NoneRunning' /\ OneSided'
      BY <1>4, UnheldIsQuiet
      DEF LookUp, IInv, Progress, NoneRunning, WatchInv, OneSided, core, life
    <3> QED
      BY <1>4, <2>1, <3>1, WatchSetup DEF LookUp, SetupPlaces
  <2>2. CASE Fails("lookUp")
    BY <1>4, <2>2, WatchErr DEF LookUp, Fails
  <2> QED
    BY <1>4, <2>1, <2>2 DEF LookUp
<1>5. CASE Free
  <2>1. Unheld /\ NoneRunning
    BY <1>5, UnheldIsQuiet DEF Free, IInv, Progress
  <2> QED
    BY <1>5, <2>1
    DEF Free, WatchInv, SetupPlaces, Unheld, NoneRunning, core, listening
<1> QED
  BY <1>1, <1>2, <1>3, <1>4, <1>5

LEMMA WatchStep ==
    ASSUME "unlisten" \notin Failures, IInv, IInv', WatchInv, [Next]_vars
    PROVE  WatchInv'
<1>1. CASE UNCHANGED vars
  BY <1>1 DEF vars, core, listening, flags, life, WatchInv, Wanted, NoneRunning, Unheld,
              Before
<1> QED
  BY <1>1, WatchSetupSteps, WatchCloseUnits, WatchUnlisten, WatchStart, WatchStop, WatchJobs
  DEF Next, CloseListeners, Destroying

LEMMA Watch ==
    ASSUME "unlisten" \notin Failures PROVE Spec => [](IInv /\ WatchInv)
<1>1. Init => WatchInv
  BY ListenersAre DEF Init, WatchInv, SetupPlaces, NoneRunning, Unheld, Scopes
<1>2. IInv /\ WatchInv /\ [Next]_vars => (IInv /\ WatchInv)'
  BY StepInvariant, WatchStep
<1> QED
  BY <1>1, <1>2, InitInvariant, PTL DEF Spec

(* If CoreAudio never refuses to forget a listener, no listener is registered *)
(* while the one before it is in use: the assertions of                       *)
(* install_system_changed_callback and install_device_changed_callback hold.  *)
THEOREM RegistersUnused ==
    ASSUME "unlisten" \notin Failures PROVE Spec => []RegisterUnused
<1>1. IInv /\ WatchInv => RegisterUnused
  <2> SUFFICES ASSUME IInv, WatchInv PROVE pc \notin listeners
    BY DEF RegisterUnused
  <2>1. CASE pc \in Listeners
    <3>1. pc \notin Before(pc)
      BY <2>1, ListenersAre DEF Before
    <3> QED
      BY <2>1, <3>1 DEF WatchInv
  <2>2. CASE pc \notin Listeners
    BY <2>2 DEF IInv, TypeOK
  <2> QED
    BY <2>1, <2>2
<1> QED
  BY <1>1, Watch, PTL

(* Under the same assumption a stream that runs hears of every change of its  *)
(* devices, whatever failed before.                                           *)
THEOREM RunningWatched ==
    ASSUME "unlisten" \notin Failures PROVE Spec => []RunningIsWatched
<1>1. IInv /\ WatchInv => RunningIsWatched
  <2> SUFFICES ASSUME IInv, WatchInv, pc = "idle", ~NoneRunning
               PROVE  \A s \in sides :
                          /\ Source(s) \in installed
                          /\ Default(s) \in installed <=> s \in follows
                          /\ Alive(s) \in installed <=> s \notin follows
    BY DEF RunningIsWatched, NoneRunning
  <2>1. installed = Wanted
    BY DEF WatchInv
  <2> QED
    BY <2>1, ListenersAre DEF Wanted, IInv, TypeOK, Scopes
<1> QED
  BY <1>1, Watch, PTL

(* A stream without units has nothing else either, from the end of close to   *)
(* create_audiounits and wherever that was given up.                          *)
LeftInv ==
    /\ phase = "gone" => pc = "idle" /\ Unheld
    /\ pc \in {"lookUp", "voice", "pair", "createInput", "createOutput", "unlistenSystem",
               "unlistenDevice"} \/ phase = "new" => ~aggregate /\ ~resampler
    /\ pc = "free" \/ (Unheld /\ (pc \in {"idle", "startInput", "startOutput"} \/ job = "stop"))
          => ~aggregate /\ ~resampler /\ listeners = {}

LEMMA LeftElsewhere ==
    ASSUME IInv, LeftInv, pc # "idle", UNCHANGED phase, job' # "stop",
           \/ pc' \in {"configureInput", "configureOutput", "resample", "initInput", "initOutput",
                       "mute", "leaveSystem", "leaveDevice", "quietInput", "freeOutput",
                       "freeInput", "freeRest", "reinit", "stopUnits"} \cup Listeners
           \/ pc' \in {"startInput", "idle"} /\ ~Unheld'
    PROVE  LeftInv'
BY ListenersAre DEF LeftInv, IInv, Progress

LEMMA LeftSetup == ASSUME IInv, IInv', WatchInv, LeftInv, Setup PROVE LeftInv'
<1> USE ListenersAre DEF At, Goto
<1>1. /\ pc # "idle" /\ phase' = phase /\ pc \in SetupPlaces
      /\ job' \in {job, "none", "destroy", "giveUp"} /\ job # "stop"
  <2>1. pc \in SetupPlaces /\ phase' = phase
    BY DEF Setup, CreateVoice, CreatePair, CreateInput, CreateOutput, ConfigureInput,
           ConfigureOutput, CreateResampler, InitializeUnit, SetInputMute, Listen,
           SetupPlaces, life
  <2>2. job' \in {job, "none", "destroy", "giveUp"}
    BY DEF Setup, CreateVoice, CreatePair, CreateInput, CreateOutput, ConfigureInput,
           ConfigureOutput, CreateResampler, InitializeUnit, SetInputMute, Listen, Passes,
           Fails, Err, Become, Return
  <2> QED
    BY <2>1, <2>2 DEF SetupPlaces, IInv, Progress
<1>2. CASE pc \in {"voice", "pair", "createInput", "createOutput"}
  <2>1. listeners = {} /\ ~aggregate /\ ~resampler /\ phase # "gone"
    BY <1>1, <1>2 DEF WatchInv, LeftInv, SetupPlaces
  <2>2. CASE pc' = "configureInput"
    BY <1>1, <2>2, LeftElsewhere
  <2>3. CASE pc' # "configureInput"
    <3>1. UNCHANGED <<aggregate, resampler, listening>> /\ pc' # "free"
      BY <1>2, <2>3
      DEF Setup, CreateVoice, CreatePair, CreateInput, CreateOutput, ConfigureInput,
          ConfigureOutput, CreateResampler, InitializeUnit, SetInputMute, Listen, core,
          Fails, Err, Become, Return
    <3> QED
      BY <1>1, <2>1, <3>1 DEF LeftInv, listening
  <2> QED
    BY <2>2, <2>3
<1>3. CASE pc \notin {"voice", "pair", "createInput", "createOutput"}
  <2>1. /\ UNCHANGED held
        /\ pc' \in {"configureOutput", "resample", "initInput", "initOutput", "mute",
                    "leaveSystem", "quietInput", "startInput", "idle"} \cup Listeners
    BY <1>3
    DEF Setup, CreateVoice, CreatePair, CreateInput, CreateOutput, ConfigureInput,
        ConfigureOutput, CreateResampler, InitializeUnit, SetInputMute, Listen, core, Passes,
        Fails, Err, Become, Return, AfterSetup
  <2>2. ~Unheld'
    <3>1. Complete /\ sides # {} /\ sides \subseteq Scopes
      BY <1>1, <1>3 DEF IInv, TypeOK, Ready, Progress, SetupPlaces
    <3>2. PICK s \in sides : held[s] # NoUnit
      BY <3>1 DEF Complete
    <3> QED
      BY <2>1, <3>1, <3>2 DEF Unheld, Scopes
  <2> QED
    BY <1>1, <2>1, <2>2, LeftElsewhere
<1> QED
  BY <1>2, <1>3

LEMMA LeftClose ==
    ASSUME "unlisten" \notin Failures, IInv, WatchInv, LeftInv,
           CloseUnits \/ CloseListeners \/ Destroying
    PROVE  LeftInv'
<1> USE ListenersAre DEF At, Goto
<1>1. CASE CloseUnits
  <2>1. job # "stop" /\ phase # "new" /\ phase # "gone"
    BY <1>1 DEF CloseUnits, QuietInput, FreeOutput, FreeInput, FreeRest, IInv, Progress,
                LeftInv
  <2> QED
    BY <1>1, <2>1
    DEF CloseUnits, QuietInput, FreeOutput, FreeInput, FreeRest, LeftInv, life
<1>2. CASE \/ UnlistenSystem("unlistenSystem", "unlistenDevice")
           \/ UnlistenSystem("leaveSystem", "leaveDevice")
  <2>1. job # "stop" /\ phase # "new" /\ phase # "gone"
    BY <1>2 DEF UnlistenSystem, IInv, Progress, LeftInv
  <2> QED
    BY <1>2, <2>1 DEF UnlistenSystem, LeftInv, core, life
<1>3. CASE \/ UnlistenDevice("unlistenDevice", AfterClose)
           \/ UnlistenDevice("leaveDevice", StopToDestroy)
  <2>1. job # "stop" /\ phase # "new" /\ phase # "gone"
    BY <1>3 DEF UnlistenDevice, IInv, Progress, LeftInv
  <2>2. CASE pc = "leaveDevice" /\ StopToDestroy
    BY <1>3, <2>1, <2>2 DEF UnlistenDevice, StopToDestroy, LeftInv, core, life
  <2>3. CASE pc = "unlistenDevice" /\ AfterClose
    <3>1. listeners' = {}
      <4>1. listeners' = listeners \ DeviceListeners
        BY <1>3, <2>3 DEF UnlistenDevice, Unlisten
      <4> QED
        BY <2>3, <4>1 DEF WatchInv, Listeners, IInv, TypeOK
    <3>2. /\ pc' \in {"lookUp", "stopUnits", "free", "idle"} /\ job' # "stop"
          /\ UNCHANGED <<core, life>>
      BY <1>3, <2>1, <2>3 DEF AfterClose, Become, Return, UnlistenDevice
    <3> QED
      BY <2>1, <2>3, <3>1, <3>2 DEF LeftInv, core, life
  <2> QED
    BY <1>3, <2>2, <2>3 DEF UnlistenDevice
<1>4. CASE Free
  <2>1. Unheld /\ ~aggregate /\ ~resampler /\ listeners = {}
    BY <1>4 DEF Free, LeftInv, IInv, Progress
  <2> QED
    BY <1>4, <2>1 DEF Free, Return, LeftInv, Unheld, core, listening
<1> QED
  BY <1>1, <1>2, <1>3, <1>4 DEF CloseListeners, Destroying

LEMMA LeftRest ==
    ASSUME IInv, IInv', WatchInv, LeftInv,
           \/ StreamInit \/ Start \/ Stop \/ DeviceChanges \/ DeviceDies \/ Destroy
           \/ StartInput \/ StartOutput \/ StopUnits \/ Reinit \/ LookUp
    PROVE  LeftInv'
<1> USE DEF At, Goto, Return, Become
<1>1. UNCHANGED <<held, aggregate, resampler, listening>> /\ (Unheld' <=> Unheld)
  BY DEF StreamInit, Start, Stop, DeviceChanges, DeviceDies, Destroy, StartInput, StartOutput,
         StopUnits, Reinit, LookUp, core, Unheld
<1>2. CASE StreamInit
  BY <1>1, <1>2 DEF StreamInit, LeftInv
<1>3. CASE Start \/ Stop \/ DeviceChanges \/ DeviceDies \/ Destroy
  BY <1>1, <1>3
  DEF Start, Stop, DeviceChanges, DeviceDies, Destroy, Idle, LeftInv, life, listening
<1>4. CASE StartInput \/ StartOutput
  BY <1>1, <1>4
  DEF StartInput, StartOutput, Started, Passes, Fails, Err, LeftInv, life, listening, IInv,
      Progress
<1>5. CASE StopUnits \/ Reinit
  BY <1>1, <1>5
  DEF StopUnits, AfterStop, Reinit, Passes, LeftInv, life, listening, IInv, Progress
<1>6. CASE LookUp
  BY <1>1, <1>6
  DEF LookUp, Passes, Fails, Err, LeftInv, life, listening, IInv, Progress, WatchInv
<1> QED
  BY <1>2, <1>3, <1>4, <1>5, <1>6

LEMMA Left == ASSUME "unlisten" \notin Failures PROVE Spec => []LeftInv
<1>1. Init => LeftInv
  BY DEF Init, LeftInv
<1>2. (IInv /\ WatchInv) /\ (IInv /\ WatchInv)' /\ LeftInv /\ [Next]_vars => LeftInv'
  <2> SUFFICES ASSUME IInv, WatchInv, IInv', LeftInv, [Next]_vars PROVE LeftInv'
    OBVIOUS
  <2>1. CASE UNCHANGED vars
    BY <2>1 DEF vars, core, listening, life, LeftInv, Unheld
  <2> QED
    BY <2>1, LeftSetup, LeftClose, LeftRest DEF Next
<1> QED
  BY <1>1, <1>2, Invariant, Watch, PTL DEF Spec

(* If CoreAudio never refuses to forget a listener, a stream without units,   *)
(* and one that is destroyed, has nothing that CoreAudio gave it: handle,     *)
(* aggregate device, resampler or listener.                                   *)
THEOREM LeavesNothing == ASSUME "unlisten" \notin Failures PROVE Spec => []NothingLeft
<1>1. IInv /\ WatchInv /\ LeftInv => NothingLeft
  <2> SUFFICES ASSUME IInv, WatchInv, LeftInv, (pc = "idle" /\ Held = {}) \/ phase = "gone"
               PROVE  /\ Held = {} /\ ~handle /\ ~aggregate /\ ~resampler
                      /\ listeners = {} /\ installed = {}
    BY DEF NothingLeft
  <2>1. Unheld /\ pc = "idle" /\ Held = {}
    BY DEF LeftInv, Unheld, Held, Scopes
  <2> QED
    BY <2>1 DEF LeftInv, WatchInv, IInv, Shape, Unheld
<1> QED
  BY <1>1, Invariant, Watch, Left, PTL

-----------------------------------------------------------------------------
(* The core as the tasks of the stream see it.                                *)

States == {"null", "idle", "running"}

LEMMA UnitOfType ==
    /\ \A s \in Scopes : UnitOf(s) \in States
    /\ \A s \in Scopes : UnitOf(s) = "null" <=> held[s] = NoUnit
    /\ \A s \in Scopes : UnitOf(s) = "running" <=>
                             held[s] # NoUnit /\ unit[held[s]] = "running"
BY DEF UnitOf, States

(* How a step looks from outside: as nothing, as setting up, starting or      *)
(* lowering.                                                                  *)
LEMMA CoreSame ==
    ASSUME \A s \in Scopes : UnitOf(s)' = UnitOf(s), UNCHANGED sides,
           listeners' = {} <=> listeners = {}
    PROVE  UNCHANGED Contract!svars
BY DEF Contract!svars

LEMMA CoreSetsUp ==
    ASSUME listeners = {}, NoneRunning, IInv, UNCHANGED sides,
           \A s \in Scopes : \/ UnitOf(s)' = UnitOf(s)
                             \/ s \in sides /\ held[s] = NoUnit /\ UnitOf(s)' = "idle",
           listeners' # {} => \A s \in sides : held'[s] # NoUnit
    PROVE  Contract!SetUp
<1>1. \A s \in Scopes : UnitOf(s) # "running"
  BY UnitOfType DEF NoneRunning, IInv, TypeOK
<1>2. \A s \in Scopes : UnitOf(s)' \in {"null", "idle"}
  BY <1>1, UnitOfType DEF States
<1>3. \A s \in Scopes : UnitOf(s)' = "null" <=> held'[s] = NoUnit
  BY DEF UnitOf
<1> QED
  BY <1>1, <1>2, <1>3, UnitOfType DEF Contract!SetUp, Contract!Running, Contract!Scopes,
     Scopes, IInv, TypeOK

LEMMA CoreStarts ==
    ASSUME \/ Unheld /\ listeners = {}
           \/ (\A s \in sides : held[s] # NoUnit) /\ listeners # {},
           UNCHANGED <<sides, listeners>>, sides \subseteq Scopes,
           \A s \in Scopes : \/ UnitOf(s)' = UnitOf(s)
                             \/ UnitOf(s) = "idle" /\ UnitOf(s)' = "running"
    PROVE  Contract!Start
<1>1. \A s \in Scopes : UnitOf(s)' \in States
  BY DEF UnitOf, States
<1>2. Contract!Closed \/ (Contract!Complete /\ listeners # {})
  BY UnitOfType DEF Contract!Closed, Contract!Complete, Contract!Scopes, Scopes, Unheld
<1> QED
  BY <1>1, <1>2 DEF Contract!Start, Contract!Scopes, Scopes, States

LEMMA CoreLowers ==
    ASSUME UNCHANGED sides, listeners' \subseteq listeners,
           \A s \in Scopes : \/ UnitOf(s)' = UnitOf(s)
                             \/ held'[s] = NoUnit
                             \/ held[s] # NoUnit /\ UnitOf(s)' = "idle"
    PROVE  Contract!Lower
<1>1. \A s \in Scopes : UnitOf(s)' \in States /\ (held'[s] = NoUnit => UnitOf(s)' = "null")
  BY DEF UnitOf, States
<1>2. \A s \in Scopes : UnitOf(s)' \in Contract!Below(UnitOf(s))
  BY <1>1, UnitOfType DEF Contract!Below, States
<1> QED
  BY <1>1, <1>2 DEF Contract!Lower, Contract!Scopes, Scopes, States

(* Steps that change neither a unit nor who holds it.                         *)
LEMMA CoreKept ==
    ASSUME UNCHANGED <<held, unit, sides>>, listeners' \subseteq listeners
    PROVE  Contract!Lower
BY CoreLowers DEF UnitOf

LEMMA CoreUntouched ==
    ASSUME UNCHANGED <<held, unit, sides, listeners>>
    PROVE  UNCHANGED Contract!svars
BY CoreSame DEF UnitOf

(* A side that has none gets a unit that is not running.                      *)
LEMMA CoreGainsUnit ==
    ASSUME IInv, IInv', WatchInv, NEW new \in SUBSET sides,
           pc \in {"voice", "pair", "createInput", "createOutput"},
           \A s \in new : held[s] = NoUnit /\ held'[s] # NoUnit
                              /\ unit'[held'[s]] # "running",
           \A s \in Scopes \ new : UnitOf(s)' = UnitOf(s),
           UNCHANGED <<sides, listeners>>
    PROVE  Contract!SetUp
<1>1. listeners = {} /\ listeners' = {} /\ NoneRunning
  BY ListenersAre DEF WatchInv, SetupPlaces
<1>2. \A s \in new : UnitOf(s)' = "idle"
  BY DEF UnitOf
<1> QED
  BY <1>1, <1>2, CoreSetsUp

LEMMA CoreCreates ==
    ASSUME IInv, IInv', WatchInv, CreateVoice \/ CreatePair \/ CreateInput \/ CreateOutput
    PROVE  [Contract!Next]_(Contract!svars)
<1> USE DEF At
<1>1. CASE CreateVoice
  <2>1. CASE UNCHANGED core
    BY <1>1, <2>1, CoreUntouched DEF CreateVoice, core, listening, life
  <2>2. CASE ~UNCHANGED core
    <3>1. /\ held' = [s \in Scopes |-> IF s \in sides THEN VoiceUnit ELSE NoUnit]
          /\ UNCHANGED <<unit, sides, listeners>> /\ pc = "voice" /\ Unheld
      BY <1>1, <2>2 DEF CreateVoice, listening, life, IInv, Progress
    <3>2. \A s \in sides : held[s] = NoUnit /\ held'[s] # NoUnit
                               /\ unit'[held'[s]] # "running"
      BY <3>1, NotLive, UnitsAssumption DEF Unheld, Scopes, IInv, TypeOK
    <3>3. \A s \in Scopes \ sides : UnitOf(s)' = UnitOf(s)
      BY <3>1 DEF UnitOf, Unheld, Scopes
    <3> QED
      BY <3>1, <3>2, <3>3, CoreGainsUnit DEF Contract!Next
  <2> QED
    BY <2>1, <2>2
<1>2. CASE CreatePair
  <2>1. CASE UNCHANGED core
    BY <1>2, <2>1, CoreUntouched DEF CreatePair, core, listening, life
  <2>2. CASE ~UNCHANGED core
    <3>1. PICK u \in Fresh, v \in Fresh :
              /\ u # v
              /\ held' = [s \in Scopes |-> IF s = "input" THEN u ELSE v]
              /\ unit' = [unit EXCEPT ![u] = "made", ![v] = "made"]
      BY <1>2, <2>2 DEF CreatePair
    <3>2. UNCHANGED <<sides, listeners>> /\ pc = "pair" /\ Unheld /\ sides = Scopes
      BY <1>2, <2>2 DEF CreatePair, listening, life, IInv, Progress
    <3>3. \A s \in sides : held[s] = NoUnit /\ held'[s] # NoUnit
                               /\ unit'[held'[s]] # "running"
      BY <3>1, <3>2, UnitsAssumption DEF Unheld, Fresh, Scopes, IInv, TypeOK
    <3> QED
      BY <3>2, <3>3, CoreGainsUnit DEF Contract!Next
  <2> QED
    BY <2>1, <2>2
<1>3. CASE CreateInput \/ CreateOutput
  <2>1. CASE UNCHANGED core
    BY <1>3, <2>1, CoreUntouched DEF CreateInput, CreateOutput, core, listening, life
  <2>2. ASSUME NEW s \in sides, NEW u \in Fresh,
               held' = [held EXCEPT ![s] = u], unit' = [unit EXCEPT ![u] = "made"],
               held[s] = NoUnit, pc \in {"createInput", "createOutput"},
               pc = "createOutput" => s = "output", UNCHANGED <<sides, listeners>>
        PROVE  [Contract!Next]_(Contract!svars)
    <3>1. s \in Scopes /\ u \in Units /\ u # NoUnit
      BY <2>2, UnitsAssumption DEF Fresh, IInv, TypeOK
    <3>2. held'[s] = u /\ unit'[u] = "made" /\ held[s] = NoUnit
      BY <2>2, <3>1 DEF IInv, TypeOK
    <3>3. \A r \in Scopes \ {s} : held'[r] = held[r] /\ held[r] # u
      BY <2>2, <3>1, NotLive DEF Scopes, IInv, TypeOK
    <3>4. \A r \in Scopes \ {s} : UnitOf(r)' = UnitOf(r)
      BY <2>2, <3>3, <3>1 DEF UnitOf, IInv, TypeOK
    <3>5. {s} \in SUBSET sides /\ \A r \in {s} : held[r] = NoUnit /\ held'[r] # NoUnit
                                                 /\ unit'[held'[r]] # "running"
      BY <3>1, <3>2
    <3>6. Contract!SetUp
      BY <2>2, <3>4, <3>5, CoreGainsUnit
    <3> QED
      BY <3>6 DEF Contract!Next
  <2>3. CASE CreateInput /\ ~UNCHANGED core
    <3>1. pc = "createInput" /\ Unheld /\ "input" \in sides /\ UNCHANGED <<sides, listeners>>
      BY <2>3 DEF CreateInput, IInv, Progress, listening, life
    <3>2. PICK u \in Fresh : held' = [held EXCEPT !["input"] = u]
                                /\ unit' = [unit EXCEPT ![u] = "made"]
      BY <2>3 DEF CreateInput
    <3> QED
      BY <2>2, <3>1, <3>2 DEF Unheld
  <2>4. CASE CreateOutput /\ ~UNCHANGED core
    <3>1. pc = "createOutput" /\ held["output"] = NoUnit /\ "output" \in sides
            /\ UNCHANGED <<sides, listeners>>
      BY <2>4 DEF CreateOutput, IInv, Progress, listening, life
    <3>2. CASE \E u \in Fresh : held' = [held EXCEPT !["output"] = u]
                                /\ unit' = [unit EXCEPT ![u] = "made"]
      BY <2>2, <3>1, <3>2
    <3>3. CASE held' = [held EXCEPT !["input"] = NoUnit]
      <4>1. held'["input"] = NoUnit /\ held'["output"] = NoUnit
        BY <3>1, <3>3 DEF IInv, TypeOK, Scopes
      <4> QED
        BY <3>1, <4>1, CoreLowers DEF Scopes, Contract!Next
    <3> QED
      BY <2>4, <3>2, <3>3 DEF CreateOutput
  <2> QED
    BY <1>3, <2>1, <2>3, <2>4
<1> QED
  BY <1>1, <1>2, <1>3

LEMMA CoreRest ==
    ASSUME IInv, IInv', WatchInv, Setup,
           ~(CreateVoice \/ CreatePair \/ CreateInput \/ CreateOutput)
    PROVE  [Contract!Next]_(Contract!svars)
<1>1. CASE \/ ConfigureInput \/ ConfigureOutput \/ CreateResampler \/ SetInputMute
  BY <1>1, CoreUntouched
  DEF ConfigureInput, ConfigureOutput, CreateResampler, SetInputMute, core, listening, life
<1>2. CASE \/ InitializeUnit("initInput", "input", "initOutput")
           \/ InitializeUnit("initOutput", "output", "mute")
  <2>1. UNCHANGED <<held, sides, listeners>> /\ pc \in SetupPlaces
    BY <1>2 DEF InitializeUnit, listening, life, At, SetupPlaces
  <2>2. NoneRunning
    BY <2>1 DEF WatchInv
  <2>3. \A u \in DOMAIN unit : unit'[u] # "running"
    BY <1>2, <2>2 DEF InitializeUnit, NoneRunning, IInv, TypeOK
  <2>4. \A s \in Scopes : UnitOf(s)' = UnitOf(s)
    BY <2>1, <2>2, <2>3 DEF UnitOf, NoneRunning, IInv, TypeOK
  <2> QED
    BY <2>1, <2>4, CoreSame
<1>3. ASSUME NEW l \in Listeners, NEW s \in Scopes, NEW wanted \in BOOLEAN, NEW to,
             Listen(l, s, wanted, to)
      PROVE  [Contract!Next]_(Contract!svars)
  <2>1. UNCHANGED <<held, unit, sides>> /\ pc = l
    BY <1>3 DEF Listen, core, life, At
  <2>2. CASE listeners' = {} <=> listeners = {}
    BY <2>1, <2>2, CoreSame DEF UnitOf
  <2>3. CASE ~(listeners' = {} <=> listeners = {})
    <3>1. listeners = {}
      BY <1>3, <2>3 DEF Listen, listening
    <3>2. Complete /\ NoneRunning
      BY <2>1 DEF IInv, Ready, WatchInv, SetupPlaces
    <3>3. \A r \in sides : held'[r] # NoUnit
      BY <2>1, <3>2 DEF Complete
    <3> QED
      BY <2>1, <3>1, <3>2, <3>3, CoreSetsUp DEF UnitOf, Contract!Next
  <2> QED
    BY <2>2, <2>3
<1>4. /\ ("output" \in follows) \in BOOLEAN /\ ("input" \in follows) \in BOOLEAN
      /\ ("output" \notin follows) \in BOOLEAN /\ ("input" \notin follows) \in BOOLEAN
      /\ "input" \in Scopes /\ "output" \in Scopes /\ TRUE \in BOOLEAN
      /\ {"defaultOutput", "defaultInput", "sourceOutput", "aliveOutput", "sourceInput",
          "aliveInput"} \subseteq Listeners
  BY ListenersAre DEF Scopes
<1> QED
  BY <1>1, <1>2, <1>3, <1>4 DEF Setup

(* close takes the units away one after the other, then the listeners.        *)
LEMMA CoreCloses ==
    ASSUME IInv, IInv', CloseUnits \/ CloseListeners \/ Destroying
    PROVE  [Contract!Next]_(Contract!svars)
<1>1. CASE QuietInput \/ FreeOutput \/ FreeInput
  <2>1. /\ UNCHANGED <<sides, listeners>>
        /\ \A s \in Scopes : held'[s] \in {held[s], NoUnit}
        /\ \A u \in DOMAIN unit : unit'[u] = unit[u] \/ unit'[u] # "running"
    BY <1>1 DEF QuietInput, FreeOutput, FreeInput, listening, life, IInv, TypeOK, Scopes
  <2>2. ASSUME NEW s \in Scopes, held'[s] # NoUnit
        PROVE  UnitOf(s)' = UnitOf(s) \/ (held[s] # NoUnit /\ UnitOf(s)' = "idle")
    <3>1. held'[s] = held[s] /\ held[s] \in DOMAIN unit
      BY <2>1, <2>2 DEF IInv, TypeOK
    <3> QED
      BY <2>1, <2>2, <3>1 DEF UnitOf
  <2> QED
    BY <2>1, <2>2, CoreLowers DEF Contract!Next
<1>2. CASE FreeRest
  BY <1>2, CoreUntouched DEF FreeRest, listening, life
<1>3. CASE \/ UnlistenSystem("unlistenSystem", "unlistenDevice")
           \/ UnlistenSystem("leaveSystem", "leaveDevice")
           \/ UnlistenDevice("unlistenDevice", AfterClose)
           \/ UnlistenDevice("leaveDevice", StopToDestroy)
  <2>1. UNCHANGED <<held, unit, sides>> /\ listeners' \subseteq listeners
    BY <1>3 DEF UnlistenSystem, UnlistenDevice, Unlisten, core, life
  <2> QED
    BY <2>1, CoreKept DEF Contract!Next
<1>4. CASE Free
  BY <1>4, CoreUntouched DEF Free, core, listening
<1> QED
  BY <1>1, <1>2, <1>3, <1>4 DEF CloseUnits, CloseListeners, Destroying

(* A stream that is started is complete and has its listeners, or is closed.  *)
LEMMA CoreIsWhole ==
    ASSUME IInv, WatchInv, LeftInv, pc \in {"startInput", "startOutput"}
    PROVE  \/ Unheld /\ listeners = {}
           \/ (\A s \in sides : held[s] # NoUnit) /\ listeners # {}
<1>1. CASE Unheld
  BY <1>1 DEF LeftInv
<1>2. CASE ~Unheld
  <2>1. Complete /\ listeners = Wanted
    BY <1>2 DEF IInv, Ready, WatchInv
  <2>2. sides # {}
    BY DEF IInv, Progress
  <2> QED
    BY <2>1, <2>2 DEF Complete, Wanted
<1> QED
  BY <1>1, <1>2

LEMMA CoreIsStarted ==
    ASSUME IInv, IInv', WatchInv, LeftInv, StartInput \/ StartOutput
    PROVE  [Contract!Next]_(Contract!svars)
<1>1. UNCHANGED <<held, sides, listeners>> /\ pc \in {"startInput", "startOutput"}
  BY DEF StartInput, StartOutput, At, listening, life
<1>2. sides \subseteq Scopes
  BY DEF IInv, TypeOK
<1>3. \A u \in DOMAIN unit : unit'[u] \in {unit[u], "running"}
  BY DEF StartInput, StartOutput, Run
<1>4. ASSUME NEW s \in Scopes
      PROVE  UnitOf(s)' = UnitOf(s) \/ (UnitOf(s) = "idle" /\ UnitOf(s)' = "running")
  BY <1>1, <1>3 DEF UnitOf, IInv, TypeOK
<1>5. \/ Unheld /\ listeners = {}
      \/ (\A s \in sides : held[s] # NoUnit) /\ listeners # {}
  BY <1>1, CoreIsWhole
<1>6. \A s \in Scopes : \/ UnitOf(s)' = UnitOf(s)
                        \/ UnitOf(s) = "idle" /\ UnitOf(s)' = "running"
  BY <1>4
<1>7. Contract!Start
  BY <1>1, <1>2, <1>5, <1>6, CoreStarts
<1> QED
  BY <1>7 DEF Contract!Next

LEMMA CoreIsStopped ==
    ASSUME IInv, IInv', StopUnits PROVE [Contract!Next]_(Contract!svars)
<1>1. UNCHANGED <<held, sides, listeners>>
  BY DEF StopUnits, listening, life
<1>2. \A u \in DOMAIN unit : unit'[u] \in {unit[u], "initialized"}
  BY DEF StopUnits, Halt
<1>3. ASSUME NEW s \in Scopes
      PROVE  UnitOf(s)' = UnitOf(s) \/ (held[s] # NoUnit /\ UnitOf(s)' = "idle")
  BY <1>1, <1>2 DEF UnitOf, IInv, TypeOK
<1> QED
  BY <1>1, <1>3, CoreLowers DEF Contract!Next

(* The sides of a stream are settled when it is made. *)
NewIsEmpty == phase = "new" => sides = {}

LEMMA NewIsEmptyStep ==
    ASSUME IInv, NewIsEmpty, [Next]_vars PROVE NewIsEmpty'
<1>1. StreamInit \/ UNCHANGED <<phase, sides>> \/ Free
  BY DEF vars, life, Next, Start, Stop, DeviceChanges, DeviceDies, Destroy, Setup, CreateVoice,
         CreatePair, CreateInput, CreateOutput, ConfigureInput, ConfigureOutput,
         CreateResampler, InitializeUnit, SetInputMute, Listen, CloseUnits, QuietInput,
         FreeOutput, FreeInput, FreeRest, CloseListeners, UnlistenSystem, UnlistenDevice,
         StartInput, StartOutput, StopUnits, Reinit, LookUp, Destroying
<1> QED
  BY <1>1 DEF NewIsEmpty, StreamInit, Free

LEMMA CoreJobs ==
    ASSUME IInv, IInv', WatchInv, NewIsEmpty,
           \/ StreamInit \/ Start \/ Stop \/ DeviceChanges \/ DeviceDies \/ Destroy
           \/ Reinit \/ LookUp
    PROVE  [Contract!Next]_(Contract!svars)
<1>1. CASE StreamInit
  <2>1. Unheld /\ listeners = {} /\ sides = {} /\ sides' \in SUBSET Scopes
    BY <1>1 DEF StreamInit, IInv, TypeOK, Progress, WatchInv, NewIsEmpty
  <2>2. UNCHANGED <<held, unit, listeners>>
    BY <1>1 DEF StreamInit, core, listening
  <2>3. Contract!Create
    <3>1. \A s \in Scopes : UnitOf(s) = "null" /\ UnitOf(s)' = UnitOf(s)
      BY <2>1, <2>2 DEF UnitOf, Unheld, Scopes
    <3> QED
      BY <2>1, <2>2, <3>1 DEF Contract!Create, Contract!Closed, Contract!Scopes, Scopes
  <2> QED
    BY <2>3 DEF Contract!Next
<1>2. CASE ~StreamInit
  BY <1>2, CoreUntouched
  DEF Start, Stop, DeviceChanges, DeviceDies, Destroy, Reinit, LookUp, core, listening, life
<1> QED
  BY <1>1, <1>2

(* If CoreAudio never refuses to forget a listener, setup, start_audiounits,  *)
(* stop_audiounits and close keep, step by step and whatever fails in them,   *)
(* what the tasks of the stream rely on (StreamCore).                         *)
THEOREM CoreImplementsContract == ASSUME "unlisten" \notin Failures PROVE Spec => ImplementsCore
<1>1. Init => Contract!Init /\ NewIsEmpty
  <2> SUFFICES ASSUME Init PROVE Contract!Init /\ NewIsEmpty
    OBVIOUS
  <2>1. \A s \in Scopes : UnitOf(s) = "null"
    BY DEF Init, UnitOf
  <2> QED
    BY <2>1 DEF Init, NewIsEmpty, Contract!Init, Contract!Scopes, Scopes
<1>2. IInv /\ NewIsEmpty /\ [Next]_vars => NewIsEmpty'
  BY NewIsEmptyStep
<1>3. /\ IInv /\ IInv' /\ WatchInv /\ LeftInv /\ NewIsEmpty /\ [Next]_vars
      => [Contract!Next]_(Contract!svars)
  <2> SUFFICES ASSUME IInv, IInv', WatchInv, LeftInv, NewIsEmpty, [Next]_vars
               PROVE  [Contract!Next]_(Contract!svars)
    OBVIOUS
  <2>1. CASE UNCHANGED vars
    BY <2>1, CoreUntouched DEF vars, core, listening, life
  <2>2. CASE Next
    BY <2>2, CoreJobs, CoreCreates, CoreRest, CoreCloses, CoreIsStarted, CoreIsStopped
    DEF Next
  <2> QED
    BY <2>1, <2>2
<1>4. Spec => []LeftInv
  BY Left
<1> QED
  BY <1>1, <1>2, <1>3, <1>4, Invariant, Watch, PTL DEF Spec, ImplementsCore, Contract!Spec
=============================================================================
