-------------------------- MODULE MCDispatchQueue --------------------------
(* An instance of DispatchQueue for TLC: two threads (a client and a HAL or   *)
(* render thread), a stream's queue and its context's.                        *)
EXTENDS DispatchQueue

CONSTANTS client, hal, streamQueue, contextQueue, t1, t2, t3

MCThreads == {client, hal}
MCQueues == {streamQueue, contextQueue}
MCTasks == {t1, t2, t3}
=============================================================================
