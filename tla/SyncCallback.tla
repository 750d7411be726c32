---------------------------- MODULE SyncCallback ----------------------------
(* Calls that change a property and wait for the system to report the change: *)
(*   "buffer"  set_buffer_size_sync       (src/backend/mod.rs)                 *)
(*   "blank"   create_blank_device_sync   (src/backend/aggregate_device.rs)    *)
(*   "sub"     set_sub_devices_sync       (src/backend/aggregate_device.rs)    *)
(*                                                                            *)
(* Each allocates a pair (Mutex, Condvar), gives its address to a listener of *)
(* its own, and waits on the pair with a timeout.  A global registry of the   *)
(* addresses in use tells a listener's callback whether the pair is there:    *)
(* removing a listener does not wait for a callback that has been called.     *)
(*                                                                            *)
(* The calls are made one at a time: every context's queue targets the one    *)
(* serial queue of the process (coreaudio-sys-utils/src/dispatch.rs).         *)
EXTENDS Naturals, FiniteSets

CONSTANTS
    Calls,      \* the calls, each made once
    Kind,       \* Kind[c]: which function is called
    Addresses,  \* where the allocator may put a pair
    HalThreads, \* the threads on which the system calls listeners
    NoOne,      \* "no thread", "no call", "no address"
    MaxNotices  \* bound: notifications delivered

ASSUME CallsAssumption ==
    /\ Kind \in [Calls -> {"buffer", "blank", "sub"}]
    /\ NoOne \notin Calls \cup Addresses \cup HalThreads
    /\ Calls \cap HalThreads = {}

VARIABLES
    pc,         \* pc[c]: where call c is
    addr,       \* addr[c]: where its pair is, from its allocation on
    live,       \* the addresses of pairs that are allocated
    registered, \* SYNC_CALLBACK_REGISTRY
    registry,   \* the callback thread inside with_sync_callback_ptr, or NoOne
    lock,       \* lock[a]: the call or callback thread with the lock of the pair at a
    value,      \* value[a]: the call whose listener wrote the pair last, or NoOne
    present,    \* the calls whose blank device exists
    listening,  \* the listeners: the call that added it and the address it gave
    owed,       \* the listeners the system has a device to report to
    hal,        \* hal[h]: where the callback of thread h is, and its listener
    notices     \* notifications so far

vars == <<pc, addr, live, registered, registry, lock, value, present,
          listening, owed, hal, notices>>

Listeners == Calls \X Addresses
Places == {"start", "listen", "change", "lock", "checked", "waiting", "woken",
           "expired", "remove", "unregister", "free", "unlock", "done"}

HalStates == [at : {"idle"}] \cup [at : {"called", "registry", "pair"}, of : Listeners]

TypeOK ==
    /\ pc \in [Calls -> Places]
    /\ addr \in [Calls -> Addresses \cup {NoOne}]
    /\ \A c \in Calls : addr[c] = NoOne <=> pc[c] = "start"
    /\ live \in SUBSET Addresses
    /\ registered \in SUBSET live
    /\ registry \in HalThreads \cup {NoOne}
    /\ lock \in [Addresses -> Calls \cup HalThreads \cup {NoOne}]
    /\ value \in [Addresses -> Calls \cup {NoOne}]
    /\ present \in SUBSET Calls
    /\ listening \in SUBSET Listeners
    /\ owed \in SUBSET listening
    /\ hal \in [HalThreads -> HalStates]
    /\ \A h \in HalThreads : registry = h <=> hal[h].at \in {"registry", "pair"}
    /\ notices \in Nat

Init ==
    /\ pc = [c \in Calls |-> "start"]
    /\ addr = [c \in Calls |-> NoOne]
    /\ live = {} /\ registered = {}
    /\ registry = NoOne
    /\ lock = [a \in Addresses |-> NoOne]
    /\ value = [a \in Addresses |-> NoOne]
    /\ present = {} /\ listening = {} /\ owed = {}
    /\ hal = [h \in HalThreads |-> [at |-> "idle"]]
    /\ notices = 0

Goto(c, place) == pc' = [pc EXCEPT ![c] = place]

(* Mutant: set_sub_devices_sync takes any report for that of its device. *)
ReportedByAny(c) ==
    IF Kind[c] = "blank" THEN c \in present ELSE value[addr[c]] # NoOne

(* What call c waits for: its device is there, or its pair has been written;   *)
(* set_sub_devices_sync also compares the device.                              *)
Reported(c) ==
    CASE Kind[c] = "buffer" -> value[addr[c]] # NoOne
      [] Kind[c] = "blank"  -> c \in present
      [] Kind[c] = "sub"    -> value[addr[c]] = c

-----------------------------------------------------------------------------
(* The call. *)

Running(c) == pc[c] \notin {"start", "done"}

(* Box::into_raw and sync_callback_registry_register. *)
Register(c) ==
    /\ pc[c] = "start" /\ registry = NoOne
    /\ \A d \in Calls : ~Running(d)
    /\ \E a \in Addresses \ live :
          /\ addr' = [addr EXCEPT ![c] = a]
          /\ live' = live \cup {a}
          /\ registered' = registered \cup {a}
          /\ value' = [value EXCEPT ![a] = NoOne]
          /\ lock' = [lock EXCEPT ![a] = NoOne]
    /\ Goto(c, "listen")
    /\ UNCHANGED <<registry, present, listening, owed, hal, notices>>

(* Only set_sub_devices_sync goes on when the listener cannot be added. *)
AddListener(c) ==
    /\ pc[c] = "listen"
    /\ \/ Goto(c, "change") /\ listening' = listening \cup {<<c, addr[c]>>}
       \/ Kind[c] = "sub" /\ Goto(c, "unregister") /\ UNCHANGED listening
    /\ UNCHANGED <<addr, live, registered, registry, lock, value, present, owed,
                   hal, notices>>

(* The property is set.  If that fails a teardown runs when the function       *)
(* returns, except in set_sub_devices_sync, which just returns.                *)
Change(c) ==
    /\ pc[c] = "change"
    /\ \/ Goto(c, "lock")
       \/ Kind[c] # "sub" /\ Goto(c, "remove")
       \/ Kind[c] = "sub" /\ Goto(c, "done")
    /\ UNCHANGED <<addr, live, registered, registry, lock, value, present,
                   listening, owed, hal, notices>>

(* The guard goes out of scope before the teardown runs; set_sub_devices_sync  *)
(* calls its cleanup with the guard in scope unless it was woken as expected.  *)
KeepsGuard(c) == Kind[c] = "sub" /\ (pc[c] \in {"woken", "expired"} => ~Reported(c))

(* Mutant: the teardown is declared after the guard, and so runs before. *)
LeaveLocked(c) ==
    /\ Goto(c, "remove")
    /\ lock' = [lock EXCEPT ![addr[c]] = c]

Leave(c) ==
    /\ Goto(c, "remove")
    /\ lock' = [lock EXCEPT ![addr[c]] = IF KeepsGuard(c) THEN c ELSE NoOne]

(* The pair is locked and looked at. *)
Look(c) ==
    /\ pc[c] = "lock" /\ lock[addr[c]] = NoOne
    /\ \/ Reported(c) /\ Leave(c)
       \/ /\ ~Reported(c) /\ Goto(c, "checked")
          /\ lock' = [lock EXCEPT ![addr[c]] = c]
    /\ UNCHANGED <<addr, live, registered, registry, value, present, listening,
                   owed, hal, notices>>

Wait(c) ==
    /\ pc[c] = "checked"
    /\ Goto(c, "waiting")
    /\ lock' = [lock EXCEPT ![addr[c]] = NoOne]
    /\ UNCHANGED <<addr, live, registered, registry, value, present, listening,
                   owed, hal, notices>>

(* The time is over; a spurious wakeup has the same effect. *)
Expire(c) ==
    /\ pc[c] = "waiting"
    /\ Goto(c, "expired")
    /\ UNCHANGED <<addr, live, registered, registry, lock, value, present,
                   listening, owed, hal, notices>>

(* The lock is taken again.  Only create_blank_device_sync (wait_timeout_while) *)
(* goes on waiting when it is woken for something else.                         *)
Resume(c) ==
    /\ pc[c] \in {"woken", "expired"} /\ lock[addr[c]] = NoOne
    /\ IF pc[c] = "woken" /\ Kind[c] = "blank" /\ ~Reported(c)
         THEN Goto(c, "checked") /\ lock' = [lock EXCEPT ![addr[c]] = c]
         ELSE Leave(c)
    /\ UNCHANGED <<addr, live, registered, registry, value, present, listening,
                   owed, hal, notices>>

(* The teardown (or cleanup): three steps. *)
RemoveListener(c) ==
    /\ pc[c] = "remove"
    /\ listening' = listening \ {<<c, addr[c]>>}
    /\ owed' = owed \ {<<c, addr[c]>>}
    /\ Goto(c, "unregister")
    /\ UNCHANGED <<addr, live, registered, registry, lock, value, present, hal,
                   notices>>

(* Mutant: unregister does not take the registry's lock. *)
UnregisterUnlocked(c) ==
    /\ pc[c] = "unregister"
    /\ registered' = registered \ {addr[c]}
    /\ Goto(c, "free")
    /\ UNCHANGED <<addr, live, registry, lock, value, present, listening, owed,
                   hal, notices>>

Unregister(c) ==
    /\ pc[c] = "unregister" /\ registry = NoOne
    /\ registered' = registered \ {addr[c]}
    /\ Goto(c, "free")
    /\ UNCHANGED <<addr, live, registry, lock, value, present, listening, owed,
                   hal, notices>>

Free(c) ==
    /\ pc[c] = "free"
    /\ live' = live \ {addr[c]}
    /\ Goto(c, IF lock[addr[c]] = c THEN "unlock" ELSE "done")
    /\ UNCHANGED <<addr, registered, registry, lock, value, present, listening,
                   owed, hal, notices>>

(* set_sub_devices_sync returns: the guard it still has unlocks a mutex that is *)
(* gone.                                                                        *)
UnlockFreed(c) ==
    /\ pc[c] = "unlock"
    /\ lock' = [lock EXCEPT ![addr[c]] = NoOne]
    /\ Goto(c, "done")
    /\ UNCHANGED <<addr, live, registered, registry, value, present, listening,
                   owed, hal, notices>>

-----------------------------------------------------------------------------
(* The system. *)

(* The blank device of a call shows up: get_devices contains it. *)
Appear(c) ==
    /\ Kind[c] = "blank" /\ c \notin present
    /\ pc[c] \in {"lock", "checked", "waiting", "woken"}
    /\ present' = present \cup {c}
    /\ owed' = owed \cup {<<c, addr[c]>>}
    /\ UNCHANGED <<pc, addr, live, registered, registry, lock, value, listening,
                   hal, notices>>

(* A listener is called, for this change of the property or for another one;   *)
(* the device a blank call waits for is always reported.                       *)
Notify(h, l) ==
    /\ hal[h].at = "idle" /\ l \in listening
    /\ notices < MaxNotices \/ l \in owed
    /\ notices' = IF notices < MaxNotices THEN notices + 1 ELSE notices
    /\ owed' = owed \ {l}
    /\ hal' = [hal EXCEPT ![h] = [at |-> "called", of |-> l]]
    /\ UNCHANGED <<pc, addr, live, registered, registry, lock, value, present,
                   listening>>

(* with_sync_callback_ptr: the callback does nothing for an unknown address. *)
Enter(h) ==
    /\ hal[h].at = "called" /\ registry = NoOne
    /\ IF hal[h].of[2] \in registered
         THEN /\ registry' = h
              /\ hal' = [hal EXCEPT ![h].at = "registry"]
         ELSE /\ hal' = [hal EXCEPT ![h] = [at |-> "idle"]]
              /\ UNCHANGED registry
    /\ UNCHANGED <<pc, addr, live, registered, lock, value, present, listening,
                   owed, notices>>

(* Mutant: the callback notifies without the lock of the pair. *)
LockPairNever(h) ==
    /\ hal[h].at = "registry"
    /\ hal' = [hal EXCEPT ![h].at = "pair"]
    /\ UNCHANGED <<pc, addr, live, registered, registry, lock, value, present,
                   listening, owed, notices>>

LockPair(h) ==
    /\ hal[h].at = "registry"
    /\ lock[hal[h].of[2]] = NoOne
    /\ lock' = [lock EXCEPT ![hal[h].of[2]] = h]
    /\ hal' = [hal EXCEPT ![h].at = "pair"]
    /\ UNCHANGED <<pc, addr, live, registered, registry, value, present,
                   listening, owed, notices>>

(* The callback writes what its own call waits for, notifies, and unlocks. *)
Report(h) ==
    LET c == hal[h].of[1]
        a == hal[h].of[2]
    IN /\ hal[h].at = "pair"
       /\ value' = IF Kind[c] = "blank" THEN value ELSE [value EXCEPT ![a] = c]
       /\ pc' = [d \in Calls |-> IF addr[d] = a /\ pc[d] = "waiting"
                                   THEN "woken" ELSE pc[d]]
       /\ lock' = [lock EXCEPT ![a] = IF @ = h THEN NoOne ELSE @]
       /\ registry' = IF registry = h THEN NoOne ELSE registry
       /\ hal' = [hal EXCEPT ![h] = [at |-> "idle"]]
       /\ UNCHANGED <<addr, live, registered, present, listening, owed, notices>>

-----------------------------------------------------------------------------
Call(c) ==
    \/ Register(c) \/ AddListener(c) \/ Change(c)
    \/ Look(c) \/ Wait(c) \/ Expire(c) \/ Resume(c)
    \/ RemoveListener(c) \/ Unregister(c) \/ Free(c) \/ UnlockFreed(c)

Callback(h) == Enter(h) \/ LockPair(h) \/ Report(h)

Next ==
    \/ \E c \in Calls : Call(c) \/ Appear(c)
    \/ \E h \in HalThreads : Callback(h) \/ (\E l \in listening : Notify(h, l))

(* Threads run, and the mutexes are fair enough: std makes no such promise,    *)
(* but only finitely many callbacks compete with a call.                       *)
Fairness ==
    /\ \A c \in Calls : SF_vars(Call(c))
    /\ \A h \in HalThreads : SF_vars(Callback(h))

Spec == Init /\ [][Next]_vars
FairSpec == Spec /\ Fairness

-----------------------------------------------------------------------------
(* A callback only touches a pair that is allocated and whose address is still *)
(* registered, however late it is called: unregister waits for it.             *)
CallbackFindsPair ==
    \A h \in HalThreads :
        hal[h].at \in {"registry", "pair"} => hal[h].of[2] \in registered \cap live

(* A pair is dropped unlocked ("Safe to drop: callback has either completed or *)
(* will exit early"): no guard outlives the mutex it unlocks.                  *)
DroppedUnlocked == \A a \in Addresses \ live : lock[a] = NoOne

(* The call waits for a callback that waits for the guard the call keeps: the   *)
(* code reaches this in set_sub_devices_sync (README, section 4).               *)
Stuck(c) ==
    \E h \in HalThreads :
        /\ pc[c] = "unregister" /\ registry = h
        /\ hal[h].at = "registry" /\ lock[hal[h].of[2]] = c

(* "Unregister blocks if callback is in-flight (holds registry lock)", but not *)
(* for ever: that callback is not itself waiting for the caller's guard.       *)
UnregisterUnblocks == \A c \in Calls : ~Stuck(c)

(* Only set_sub_devices_sync drops a pair that is locked, and it unlocks it    *)
(* before another call can find the memory.                                    *)
OnlySubDropsLocked ==
    \A a \in Addresses \ live :
        lock[a] # NoOne => \E c \in Calls :
            lock[a] = c /\ Kind[c] = "sub" /\ pc[c] = "unlock"

(* A call that waits for a device that is there will be woken: a callback is   *)
(* on its way, or is still to be made.                                         *)
NoLostWakeup ==
    \A c \in Calls :
        pc[c] = "waiting" /\ Reported(c) =>
            \/ <<c, addr[c]>> \in owed
            \/ \E h \in HalThreads : hal[h].at # "idle" /\ hal[h].of[2] = addr[c]

(* A callback reports to the call that added its listener.  The code does not *)
(* keep this when an address is reused (README, section 4).                   *)
OwnPairOnly ==
    \A h \in HalThreads :
        hal[h].at \in {"registry", "pair"} =>
            LET l == hal[h].of
            IN addr[l[1]] = l[2] /\ pc[l[1]] \notin {"start", "free", "done"}
=============================================================================
