--------------------------- MODULE QueueContract ---------------------------
(* What coreaudio-sys-utils/src/dispatch.rs promises of its queues: the works *)
(* handed to a queue are taken in the order they were handed over; one is     *)
(* performed at a time, over all the queues, for they share one target; and   *)
(* when a final work of a queue has been performed the queue is closed: what  *)
(* it still holds is dropped without being performed (its test                *)
(* run_final_task).                                                           *)
(*                                                                            *)
(* DispatchQueue implements it; AudioUnitStream and DeviceCollection, whose   *)
(* tasks are executed by such a queue, behave as it says.                     *)
EXTENDS Sequences

CONSTANTS Queues, Works

VARIABLES waiting,    \* waiting[q]: the works handed to q and not yet taken
          performing, \* {<<q, w>>}: the work w of q is being performed
          final,      \* the works handed over by run_final
          closed      \* closed[q]: a final work has been performed on q

cvars == <<waiting, performing, final, closed>>

Init ==
    /\ waiting = [q \in Queues |-> <<>>]
    /\ performing = {}
    /\ final \in SUBSET Works
    /\ closed = [q \in Queues |-> FALSE]

HandOver(q, w) ==
    /\ waiting' = [waiting EXCEPT ![q] = Append(@, w)]
    /\ final' \in {final, final \cup {w}}
    /\ UNCHANGED <<performing, closed>>

Take(q) ==
    /\ performing = {}
    /\ waiting[q] # <<>>
    /\ waiting' = [waiting EXCEPT ![q] = Tail(@)]
    /\ UNCHANGED <<final, closed>>

Perform(q) ==
    /\ Take(q)
    /\ closed[q] => Head(waiting[q]) \in final
    /\ performing' = {<<q, Head(waiting[q])>>}

Drop(q) ==
    /\ Take(q)
    /\ closed[q] /\ Head(waiting[q]) \notin final
    /\ UNCHANGED performing

Finish(q, w) ==
    /\ performing = {<<q, w>>}
    /\ performing' = {}
    /\ closed' = IF w \in final THEN [closed EXCEPT ![q] = TRUE] ELSE closed
    /\ UNCHANGED <<waiting, final>>

Next ==
    \E q \in Queues :
        \/ Perform(q) \/ Drop(q)
        \/ \E w \in Works : HandOver(q, w) \/ Finish(q, w)

Spec == Init /\ [][Next]_cvars
=============================================================================
