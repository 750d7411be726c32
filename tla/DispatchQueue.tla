--------------------------- MODULE DispatchQueue ---------------------------
(* The serial task queues of coreaudio-sys-utils/src/dispatch.rs.             *)
(*                                                                            *)
(* Every Queue of the backend targets, directly or through other queues, the  *)
(* process-wide singleton queue, so that the tasks of all of them run one at  *)
(* a time; each Queue owns an AtomicBool, should_cancel, that its closures    *)
(* read when they are executed.  libdispatch itself (what dispatch_async_f,   *)
(* dispatch_sync_f and dispatch_after_f do with a closure) is external.       *)
EXTENDS Naturals, Sequences, FiniteSets

CONSTANTS Threads,   \* the threads that hand closures to the queues
          Queues,    \* the queues, all targeting the singleton queue
          Tasks,     \* the closures; each is handed over at most once
          NoTask     \* "no closure"

ASSUME NoTaskAssumption == NoTask \notin Tasks
ASSUME QueuesAssumption == Queues # {}

VARIABLES
    fifo,         \* fifo[q]: closures enqueued on q, in order
    delayed,      \* closures given to dispatch_after_f that are not yet due
    running,      \* the closure the singleton queue executes, or NoTask
    state,        \* what has become of each closure
    kind,         \* the call that handed it over
    queue,        \* and the queue it was handed to
    shouldCancel, \* the AtomicBool of each queue
    waiting       \* waiting[c]: the closure thread c waits for, or NoTask

vars == <<fifo, delayed, running, state, kind, queue, shouldCancel, waiting>>

Kinds  == {"async", "after", "sync", "final"}
States == {"new", "delayed", "queued", "running", "performed", "skipped"}

TypeOK ==
    /\ fifo \in [Queues -> Seq(Tasks)]
    /\ running \in Tasks \cup {NoTask}
    /\ state \in [Tasks -> States]
    /\ delayed = {t \in Tasks : state[t] = "delayed"}
    /\ \A t \in Tasks : state[t] = "running" <=> running = t
    /\ kind \in [Tasks -> Kinds]
    /\ queue \in [Tasks -> Queues]
    /\ shouldCancel \in [Queues -> BOOLEAN]
    /\ waiting \in [Threads -> Tasks \cup {NoTask}]

(* kind and queue are read only once their task has been handed over: until *)
(* then they hold an arbitrary value.                                       *)
Init ==
    /\ fifo = [q \in Queues |-> <<>>]
    /\ delayed = {}
    /\ running = NoTask
    /\ state = [t \in Tasks |-> "new"]
    /\ kind = [t \in Tasks |-> "async"]
    /\ queue = [t \in Tasks |-> CHOOSE q \in Queues : TRUE]
    /\ shouldCancel = [q \in Queues |-> FALSE]
    /\ waiting = [c \in Threads |-> NoTask]

-----------------------------------------------------------------------------
(* dispatch_async_f: the closure t, made by a call of kind k, goes to the end *)
(* of q.                                                                      *)
Enqueue(q, t, k) ==
    /\ state[t] = "new"
    /\ state' = [state EXCEPT ![t] = "queued"]
    /\ kind' = [kind EXCEPT ![t] = k]
    /\ queue' = [queue EXCEPT ![t] = q]
    /\ fifo' = [fifo EXCEPT ![q] = Append(@, t)]

RunAsync(c, q, t) ==
    /\ waiting[c] = NoTask
    /\ Enqueue(q, t, "async")
    /\ UNCHANGED <<delayed, running, shouldCancel, waiting>>

(* run_after with a time that has passed is run_async; with a later one the *)
(* closure is held until it is due.                                         *)
RunAfter(c, q, t) ==
    /\ waiting[c] = NoTask
    /\ state[t] = "new"
    /\ state' = [state EXCEPT ![t] = "delayed"]
    /\ kind' = [kind EXCEPT ![t] = "after"]
    /\ queue' = [queue EXCEPT ![t] = q]
    /\ delayed' = delayed \cup {t}
    /\ UNCHANGED <<fifo, running, shouldCancel, waiting>>

(* dispatch_sync_f: the calling thread waits for its closure.  A call from a  *)
(* closure of the queue itself would wait forever; the callers rule it out    *)
(* (debug_assert_not_running_serially).                                       *)
RunSync(c, q, t) ==
    /\ waiting[c] = NoTask
    /\ Enqueue(q, t, "sync")
    /\ waiting' = [waiting EXCEPT ![c] = t]
    /\ UNCHANGED <<delayed, running, shouldCancel>>

RunFinal(c, q, t) ==
    /\ waiting[c] = NoTask
    /\ Enqueue(q, t, "final")
    /\ waiting' = [waiting EXCEPT ![c] = t]
    /\ UNCHANGED <<delayed, running, shouldCancel>>

(* A delayed closure becomes due and joins the end of its queue. *)
Due(t) ==
    /\ t \in delayed
    /\ delayed' = delayed \ {t}
    /\ state' = [state EXCEPT ![t] = "queued"]
    /\ fifo' = [fifo EXCEPT ![queue[t]] = Append(@, t)]
    /\ UNCHANGED <<running, kind, queue, shouldCancel, waiting>>

-----------------------------------------------------------------------------
(* Mutant: closures of dispatch_after_f do not look at should_cancel. *)
CancelledNotDelayed(t) == kind[t] \notin {"final", "after"} /\ shouldCancel[queue[t]]

(* What the closure made for t does first: all but the one of run_final       *)
(* return at once when should_cancel is set.                                  *)
Cancelled(t) == kind[t] # "final" /\ shouldCancel[queue[t]]

(* The singleton queue takes the next closure of q and calls it. *)
Begin(q) ==
    /\ running = NoTask
    /\ fifo[q] # <<>>
    /\ LET t == Head(fifo[q]) IN
         /\ fifo' = [fifo EXCEPT ![q] = Tail(@)]
         /\ IF Cancelled(t)
              THEN /\ state' = [state EXCEPT ![t] = "skipped"]
                   /\ running' = NoTask
              ELSE /\ state' = [state EXCEPT ![t] = "running"]
                   /\ running' = t
    /\ UNCHANGED <<delayed, kind, queue, shouldCancel, waiting>>

(* The work of the running closure is over; the closure of run_final then sets *)
(* should_cancel.                                                              *)
End ==
    /\ running # NoTask
    /\ state' = [state EXCEPT ![running] = "performed"]
    /\ running' = NoTask
    /\ shouldCancel' = IF kind[running] = "final"
                         THEN [shouldCancel EXCEPT ![queue[running]] = TRUE]
                         ELSE shouldCancel
    /\ UNCHANGED <<fifo, delayed, kind, queue, waiting>>

(* Mutant: a skipped sync closure never wakes its caller. *)
ReturnPerformed(c) ==
    /\ waiting[c] # NoTask
    /\ state[waiting[c]] = "performed"
    /\ waiting' = [waiting EXCEPT ![c] = NoTask]
    /\ UNCHANGED <<fifo, delayed, running, state, kind, queue, shouldCancel>>

(* dispatch_sync_f returns; run_sync answers None exactly for a skipped work. *)
Return(c) ==
    /\ waiting[c] # NoTask
    /\ state[waiting[c]] \in {"performed", "skipped"}
    /\ waiting' = [waiting EXCEPT ![c] = NoTask]
    /\ UNCHANGED <<fifo, delayed, running, state, kind, queue, shouldCancel>>

Submit ==
    \E c \in Threads, q \in Queues, t \in Tasks :
        \/ RunAsync(c, q, t)
        \/ RunAfter(c, q, t)
        \/ RunSync(c, q, t)
        \/ RunFinal(c, q, t)

Next ==
    \/ Submit
    \/ \E t \in Tasks : Due(t)
    \/ \E q \in Queues : Begin(q)
    \/ End
    \/ \E c \in Threads : Return(c)

(* libdispatch keeps executing what it is given, and timers expire. *)
Fairness ==
    /\ \A q \in Queues : SF_vars(Begin(q))
    /\ WF_vars(End)
    /\ \A t \in Tasks : WF_vars(Due(t))
    /\ \A c \in Threads : WF_vars(Return(c))

Spec == Init /\ [][Next]_vars
FairSpec == Spec /\ Fairness

-----------------------------------------------------------------------------
Performed(q) == {t \in Tasks : state[t] = "performed" /\ queue[t] = q}

(* Nothing but a final work is in progress on a queue whose final work has    *)
(* been performed: what AudioUnitStream::drop relies on when it frees the     *)
(* stream that closures still in the queue point to (dispatch.rs run_final).  *)
NothingRunsAfterFinal ==
    \A t \in Tasks :
        /\ state[t] = "running"
        /\ kind[t] # "final"
        => \A f \in Performed(queue[t]) : kind[f] # "final"

(* A sync caller is only left without an answer by an earlier final work: the *)
(* unwrap() of every run_sync in mod.rs cannot fail while the owner has not   *)
(* called run_final.                                                          *)
NoneOnlyAfterFinal ==
    \A t \in Tasks :
        state[t] = "skipped" =>
            \E f \in Performed(queue[t]) : kind[f] = "final"

(* No closure is lost or executed twice: one that is still to be executed is  *)
(* in the queue it was handed to, once, and no other closure is in any queue. *)
InPlace ==
    /\ \A t \in Tasks :
         state[t] = "queued" => \E i \in DOMAIN fifo[queue[t]] : fifo[queue[t]][i] = t
    /\ \A q \in Queues : \A i, j \in DOMAIN fifo[q] :
         /\ state[fifo[q][i]] = "queued"
         /\ queue[fifo[q][i]] = q
         /\ fifo[q][i] = fifo[q][j] => i = j

(* A thread that calls run_sync or run_final gets control back, whatever the  *)
(* other threads hand over meanwhile.                                         *)
SyncCallerReturns ==
    \A c \in Threads : (waiting[c] # NoTask) ~> (waiting[c] = NoTask)

(* The queues keep their contract.  A work joins its queue when its closure   *)
(* does (one of run_after, when it is due), and is performed when its closure *)
(* has not found should_cancel set.                                           *)
Contract == INSTANCE QueueContract
              WITH Works <- Tasks,
                   waiting <- fifo,
                   performing <- IF running = NoTask THEN {}
                                 ELSE {<<queue[running], running>>},
                   final <- {t \in Tasks : kind[t] = "final" /\ state[t] # "new"},
                   closed <- shouldCancel

ImplementsContract == Contract!Spec
=============================================================================
