--------------------------- MODULE SharedStorage ---------------------------
(* The pool of voice processing units of a context (src/backend/mod.rs:       *)
(* SharedStorage, OwningHandle and SharedVoiceProcessingUnitManager).         *)
(*                                                                            *)
(* A stream that needs such a unit takes one from the pool, or creates one,   *)
(* and recycles it when it is closed.  The units in the pool are disposed of  *)
(* some time after the last one in use has been recycled, by a task that does *)
(* nothing if a unit has been taken since: generation tells.  A mutex guards  *)
(* each access, but recycling and scheduling the task are separate accesses.  *)
EXTENDS Naturals, FiniteSets

CONSTANTS
    Users,     \* the streams
    VPUnits,   \* the units that may exist at once
    NoUnit,    \* "no unit"
    MaxTakes   \* bound: units taken or created

ASSUME UsersAssumption == IsFiniteSet(Users)
ASSUME NoUnitAssumption == NoUnit \notin VPUnits

VARIABLES
    elements,     \* the units in the pool; which one pop() returns is left open
    outstanding,  \* outstanding_element_count
    generation,
    held,         \* held[s]: the unit of the handle stream s owns, or NoUnit
    pc,           \* pc[s]: "recycled" and "clearing" are inside the handle's drop
    seen,         \* seen[s]: the generation read there
    timers,       \* the delayed tasks: who made them, for which generation
    final         \* the manager has been dropped (run_final)

vars == <<elements, outstanding, generation, held, pc, seen, timers, final>>

TypeOK ==
    /\ elements \in SUBSET VPUnits
    /\ outstanding \in Nat
    /\ generation \in Nat
    /\ held \in [Users -> VPUnits \cup {NoUnit}]
    /\ pc \in [Users -> {"idle", "holding", "recycled", "clearing"}]
    /\ \A s \in Users : held[s] # NoUnit <=> pc[s] = "holding"
    /\ seen \in [Users -> Nat]
    /\ timers \in SUBSET (Users \X Nat)
    /\ final \in BOOLEAN

Init ==
    /\ elements = {}
    /\ outstanding = 0
    /\ generation = 0
    /\ held = [s \in Users |-> NoUnit]
    /\ pc = [s \in Users |-> "idle"]
    /\ seen = [s \in Users |-> 0]
    /\ timers = {}
    /\ final = FALSE

Holders == {s \in Users : held[s] # NoUnit}
InUse == {held[s] : s \in Holders}

-----------------------------------------------------------------------------
(* A unit leaves the pool, or is new: either way it counts as outstanding and  *)
(* the tasks made so far are outdated.                                         *)
HandOut(s, e) ==
    /\ pc[s] = "idle" /\ ~final
    /\ generation < MaxTakes
    /\ outstanding' = outstanding + 1
    /\ generation' = generation + 1
    /\ held' = [held EXCEPT ![s] = e]
    /\ pc' = [pc EXCEPT ![s] = "holding"]

(* Mutant: the unit stays in the pool. *)
TakeShared(s) ==
    \E e \in elements :
        /\ HandOut(s, e)
        /\ UNCHANGED <<elements, seen, timers, final>>

Take(s) ==
    \E e \in elements :
        /\ HandOut(s, e)
        /\ elements' = elements \ {e}
        /\ UNCHANGED <<seen, timers, final>>

(* Only when there is none to take.  Creating a unit may fail, which changes   *)
(* nothing.                                                                    *)
Create(s) ==
    /\ elements = {}
    /\ \E e \in VPUnits \ InUse : HandOut(s, e)
    /\ UNCHANGED <<elements, seen, timers, final>>

(* Dropping the handle, first half: recycle. *)
Recycle(s) ==
    /\ pc[s] = "holding"
    /\ outstanding' = outstanding - 1
    /\ elements' = elements \cup {held[s]}
    /\ held' = [held EXCEPT ![s] = NoUnit]
    /\ pc' = [pc EXCEPT ![s] = "recycled"]
    /\ UNCHANGED <<generation, seen, timers, final>>

(* Second half, clear_if_all_idle_async: the counters are read under the lock, *)
CheckIdle(s) ==
    /\ pc[s] = "recycled"
    /\ IF outstanding > 0
         THEN pc' = [pc EXCEPT ![s] = "idle"] /\ UNCHANGED seen
         ELSE /\ pc' = [pc EXCEPT ![s] = "clearing"]
              /\ seen' = [seen EXCEPT ![s] = generation]
    /\ UNCHANGED <<elements, outstanding, generation, held, timers, final>>

(* and the delayed task is handed to the queue after it is released. *)
ScheduleClear(s) ==
    /\ pc[s] = "clearing"
    /\ timers' = timers \cup {<<s, seen[s]>>}
    /\ pc' = [pc EXCEPT ![s] = "idle"] /\ seen' = [seen EXCEPT ![s] = 0]
    /\ UNCHANGED <<elements, outstanding, generation, held, final>>

(* Mutant: the task clears the pool whatever happened since. *)
ClearAlways(t) ==
    /\ t \in timers
    /\ timers' = timers \ {t}
    /\ elements' = IF final THEN elements ELSE {}
    /\ UNCHANGED <<outstanding, generation, held, pc, seen, final>>

(* Mutant: the task expects the generation before the one it was made for. *)
ClearPrevious(t) ==
    /\ t \in timers
    /\ timers' = timers \ {t}
    /\ elements' = IF ~final /\ t[2] + 1 = generation THEN {} ELSE elements
    /\ UNCHANGED <<outstanding, generation, held, pc, seen, final>>

(* The idle timeout of a task has passed.  After run_final it is skipped. *)
ClearIfUnused(t) ==
    /\ t \in timers
    /\ timers' = timers \ {t}
    /\ elements' = IF ~final /\ t[2] = generation THEN {} ELSE elements
    /\ UNCHANGED <<outstanding, generation, held, pc, seen, final>>

(* The context is dropped, after its streams (each handle asserts that the    *)
(* pool outlives it).                                                         *)
DropManager ==
    /\ ~final
    /\ \A s \in Users : pc[s] = "idle"
    /\ final' = TRUE
    /\ elements' = {}
    /\ UNCHANGED <<outstanding, generation, held, pc, seen, timers>>

Drop(s) == Recycle(s) \/ CheckIdle(s) \/ ScheduleClear(s)

Next ==
    \/ \E s \in Users : Take(s) \/ Create(s) \/ Drop(s)
    \/ \E t \in timers : ClearIfUnused(t)
    \/ DropManager

(* A drop that has begun ends, and timers fire; streams may keep their units. *)
Fairness ==
    /\ \A s \in Users : WF_vars(CheckIdle(s) \/ ScheduleClear(s))
    /\ WF_vars(\E t \in timers : ClearIfUnused(t))

Spec == Init /\ [][Next]_vars
FairSpec == Spec /\ Fairness

-----------------------------------------------------------------------------
(* Each unit has one owner: the pool or one stream; and the count that decides *)
(* about disposal is the number of streams with a unit.                        *)
OneOwner ==
    /\ outstanding = Cardinality(Holders)
    /\ InUse \cap elements = {}
    /\ \A s, u \in Holders : held[s] = held[u] => s = u

(* A task that may still clear the pool was made when no unit was in use, and  *)
(* none is now: the two counters, read once and compared much later, agree.    *)
CurrentTimerMeansIdle ==
    /\ \A t \in timers : t[2] = generation => Holders = {}
    /\ \A s \in Users : pc[s] = "clearing" /\ seen[s] = generation => Holders = {}

(* "Dispose of either all VoiceProcessingIO units, or none at all": a step     *)
(* that disposes of a unit is one that leaves none in use or in the pool.      *)
DisposeAllOrNone ==
    [][~(elements \cup InUse \subseteq elements' \cup InUse')
         => Holders = {} /\ elements' = {}]_vars

(* Nothing stays in the pool of a dropped context. *)
NothingAfterDrop == final => elements = {} /\ Holders = {}

(* Units nobody uses are disposed of, unless one is taken again. *)
IdleUnitsReleased ==
    (Holders = {} /\ elements # {}) ~> (Holders # {} \/ elements = {})
=============================================================================
