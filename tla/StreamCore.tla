----------------------------- MODULE StreamCore -----------------------------
(* What the tasks of a stream's queue may rely on when they call the core of  *)
(* the stream (src/backend/mod.rs: setup, start_audiounits, stop_audiounits   *)
(* and close of CoreStreamData), whatever fails in it: it is only set up when *)
(* it has no listeners and runs nothing; it only has listeners once it has    *)
(* all its units; and it is only started as a whole, or when it has nothing.  *)
(* AudioUnitStream calls the core, CoreStreamData is it.                      *)

Scopes == {"input", "output"}

VARIABLES
    sides,    \* has_input, has_output
    unit,     \* the unit of each side: "null", "idle" or "running"
    listening \* it has property listeners

svars == <<sides, unit, listening>>

Closed == (\A s \in Scopes : unit[s] = "null") /\ ~listening
Complete == \A s \in sides : unit[s] # "null"
Running == \E s \in Scopes : unit[s] = "running"

(* A stream to be, or one that stream_init has set up. *)
Init ==
    /\ sides \in SUBSET Scopes
    /\ \/ /\ unit = [s \in Scopes |-> "null"]
          /\ listening = FALSE
       \/ /\ unit = [s \in Scopes |-> IF s \in sides THEN "idle" ELSE "null"]
          /\ listening = TRUE

Create ==
    /\ sides = {} /\ Closed
    /\ sides' \in SUBSET Scopes
    /\ UNCHANGED <<unit, listening>>

(* setup, or a step of it: it may fail after each. *)
SetUp ==
    /\ ~listening /\ ~Running
    /\ unit' \in [Scopes -> {"null", "idle"}]
    /\ \A s \in Scopes : unit'[s] = unit[s] \/ (s \in sides /\ unit[s] = "null")
    /\ listening' \in BOOLEAN
    /\ listening' => \A s \in sides : unit'[s] # "null"
    /\ UNCHANGED sides

(* start_audiounits starts them one by one, and stays where it fails. *)
Start ==
    /\ Closed \/ (Complete /\ listening)
    /\ unit' \in [Scopes -> {"null", "idle", "running"}]
    /\ \A s \in Scopes : unit'[s] = unit[s] \/ (unit[s] = "idle" /\ unit'[s] = "running")
    /\ UNCHANGED <<sides, listening>>

(* stop_audiounits, close, and their steps: down from where each unit is. *)
Below(state) ==
    {"null"} \cup (IF state = "null" THEN {} ELSE {"idle"})
             \cup (IF state = "running" THEN {"running"} ELSE {})

Lower ==
    /\ unit' \in [Scopes -> {"null", "idle", "running"}]
    /\ \A s \in Scopes : unit'[s] \in Below(unit[s])
    /\ listening' \in BOOLEAN /\ (listening' => listening)
    /\ UNCHANGED sides

Next == Create \/ SetUp \/ Start \/ Lower

Spec == Init /\ [][Next]_svars
=============================================================================
