----------------------- MODULE AggregateDeviceProof -----------------------
(* The registry keeps callbacks off dropped pairs, no wakeup is lost, and what *)
(* the builds of aggregate devices make of it, for any calls, builds,          *)
(* addresses and callback threads.                                             *)
EXTENDS AggregateDevice, TLAPS

-----------------------------------------------------------------------------
(* The registry                                                               *)

(* A call owns the memory at its address from its allocation to its Free. *)
Active(c) == pc[c] \notin {"start", "unlock", "done"}

Owned ==
    /\ \A c \in Calls : Active(c) => addr[c] \in live
    /\ \A c, d \in Calls : Active(c) /\ Active(d) /\ addr[c] = addr[d] => c = d
    /\ \A c \in Calls : pc[c] = "free" => addr[c] \notin registered

(* While it is there the listener of a call is the one it added. *)
Listens ==
    \A c \in Calls :
        pc[c] \in {"change", "lock", "checked", "waiting", "woken", "expired", "remove"}
            => <<c, addr[c]>> \in listening

IInv == TypeOK /\ Owned /\ Listens /\ CallbackFindsPair

LEMMA InitInvariant == Init => IInv
<1> SUFFICES ASSUME Init PROVE IInv
  OBVIOUS
<1>1. TypeOK
  BY CallsAssumption DEF Init, TypeOK, Places, HalStates, Listeners
<1> QED
  BY <1>1 DEF Init, IInv, Owned, Active, Listens, CallbackFindsPair

(* A step of a call that moves its own pc and touches neither the registry nor *)
(* the callbacks.                                                              *)
LEMMA CallMoves ==
    ASSUME IInv, NEW c \in Calls, NEW place \in Places \ {"start", "free"},
           Active(c), Goto(c, place),
           lock' \in [Addresses -> Calls \cup HalThreads \cup {NoOne}],
           place \in {"change", "lock", "checked", "waiting", "woken", "expired", "remove"}
               => <<c, addr[c]>> \in listening',
           \A d \in Calls \ {c} : <<d, addr[d]>> \in listening => <<d, addr[d]>> \in listening',
           listening' \in SUBSET Listeners, owed' \in SUBSET listening',
           UNCHANGED <<addr, live, registered, registry, value, present, hal, notices>>
    PROVE  IInv'
<1>1. pc'[c] = place /\ pc[c] # "start" /\ \A d \in Calls \ {c} : pc'[d] = pc[d]
  BY DEF IInv, TypeOK, Goto, Active
<1>2. TypeOK'
  <2>1. pc' \in [Calls -> Places]
    BY DEF IInv, TypeOK, Goto
  <2>2. \A d \in Calls : addr'[d] = NoOne <=> pc'[d] = "start"
    BY <1>1 DEF IInv, TypeOK
  <2> QED
    BY <2>1, <2>2 DEF IInv, TypeOK
<1>3. Owned'
  BY <1>1 DEF IInv, Owned, Active
<1>4. Listens'
  BY <1>1 DEF IInv, Listens
<1>5. CallbackFindsPair'
  BY DEF IInv, CallbackFindsPair
<1> QED
  BY <1>2, <1>3, <1>4, <1>5 DEF IInv

LEMMA RegisterInvariant ==
    ASSUME IInv, NEW c \in Calls, Register(c)
    PROVE  IInv'
<1>1. PICK a \in Addresses \ live :
          /\ addr' = [addr EXCEPT ![c] = a]
          /\ live' = live \cup {a}
          /\ registered' = registered \cup {a}
          /\ value' = [value EXCEPT ![a] = NoOne]
          /\ lock' = [lock EXCEPT ![a] = NoOne]
  BY DEF Register
<1>2. /\ pc'[c] = "listen" /\ addr'[c] = a /\ a # NoOne
      /\ \A d \in Calls \ {c} : pc'[d] = pc[d] /\ addr'[d] = addr[d]
  BY <1>1, CallsAssumption DEF IInv, TypeOK, Register, Goto
<1>3. TypeOK'
  <2>1. pc' \in [Calls -> Places] /\ addr' \in [Calls -> Addresses \cup {NoOne}]
    BY <1>1 DEF IInv, TypeOK, Register, Goto, Places
  <2>2. \A d \in Calls : addr'[d] = NoOne <=> pc'[d] = "start"
    BY <1>2 DEF IInv, TypeOK
  <2>3. /\ value' \in [Addresses -> Calls \cup {NoOne}]
        /\ lock' \in [Addresses -> Calls \cup HalThreads \cup {NoOne}]
        /\ registered' \in SUBSET live' /\ live' \in SUBSET Addresses
    BY <1>1 DEF IInv, TypeOK
  <2> QED
    BY <2>1, <2>2, <2>3 DEF IInv, TypeOK, Register
<1>4. Owned'
  BY <1>1, <1>2 DEF IInv, Owned, Active
<1>5. Listens'
  BY <1>2 DEF IInv, Listens, Register
<1>6. CallbackFindsPair'
  BY <1>1 DEF IInv, CallbackFindsPair, Register
<1> QED
  BY <1>3, <1>4, <1>5, <1>6 DEF IInv

LEMMA UnregisterInvariant ==
    ASSUME IInv, NEW c \in Calls, Unregister(c)
    PROVE  IInv'
<1>1. /\ pc[c] = "unregister" /\ pc'[c] = "free"
      /\ \A d \in Calls \ {c} : pc'[d] = pc[d]
  BY DEF IInv, TypeOK, Unregister, Goto
<1>2. TypeOK'
  <2>1. pc' \in [Calls -> Places]
    BY DEF IInv, TypeOK, Unregister, Goto, Places
  <2>2. \A d \in Calls : addr'[d] = NoOne <=> pc'[d] = "start"
    BY <1>1 DEF IInv, TypeOK, Unregister
  <2> QED
    BY <2>1, <2>2 DEF IInv, TypeOK, Unregister
<1>3. Owned'
  BY <1>1 DEF IInv, Owned, Active, Unregister
<1>4. Listens'
  BY <1>1 DEF IInv, Listens, Unregister
<1>5. \A h \in HalThreads : hal[h].at \notin {"registry", "pair"}
  BY CallsAssumption DEF IInv, TypeOK, Unregister
<1>6. CallbackFindsPair'
  BY <1>5 DEF CallbackFindsPair, Unregister
<1> QED
  BY <1>2, <1>3, <1>4, <1>6 DEF IInv

LEMMA FreeInvariant ==
    ASSUME IInv, NEW c \in Calls, Free(c)
    PROVE  IInv'
<1>1. /\ pc[c] = "free" /\ pc'[c] \in {"unlock", "done"} /\ live' = live \ {addr[c]}
      /\ \A d \in Calls \ {c} : pc'[d] = pc[d]
  BY DEF IInv, TypeOK, Free, Goto
<1>2. addr[c] \notin registered
  BY <1>1 DEF IInv, Owned
<1>3. TypeOK'
  <2>1. pc' \in [Calls -> Places]
    BY DEF IInv, TypeOK, Free, Goto, Places
  <2>2. \A d \in Calls : addr'[d] = NoOne <=> pc'[d] = "start"
    BY <1>1 DEF IInv, TypeOK, Free
  <2> QED
    BY <1>1, <1>2, <2>1, <2>2 DEF IInv, TypeOK, Free
<1>4. Owned'
  BY <1>1 DEF IInv, Owned, Active, Free
<1>5. Listens'
  BY <1>1 DEF IInv, Listens, Free
<1>6. CallbackFindsPair'
  BY <1>1, <1>2 DEF IInv, CallbackFindsPair, Free
<1> QED
  BY <1>3, <1>4, <1>5, <1>6 DEF IInv

-----------------------------------------------------------------------------
LEMMA CallInvariant ==
    ASSUME IInv, NEW c \in Calls, Call(c)
    PROVE  IInv'
<1> USE DEF Goto, Active
<1>0. /\ lock \in [Addresses -> Calls \cup HalThreads \cup {NoOne}]
      /\ listening \in SUBSET Listeners /\ owed \in SUBSET listening
      /\ addr[c] \in Addresses \cup {NoOne}
      /\ pc[c] # "start" => addr[c] \in Addresses
  BY DEF IInv, TypeOK
<1>1. CASE AddListener(c)
  <2>1. /\ listening' \in SUBSET Listeners /\ owed' \in SUBSET listening'
        /\ pc[c] = "listen"
    BY <1>0, <1>1 DEF AddListener, Listeners
  <2>2. CASE pc' = [pc EXCEPT ![c] = "change"]
             /\ listening' = listening \cup {<<c, addr[c]>>}
    BY <1>0, <1>1, <2>1, <2>2, CallMoves DEF AddListener, Places
  <2>3. CASE pc' = [pc EXCEPT ![c] = "unregister"] /\ UNCHANGED listening
    BY <1>0, <1>1, <2>1, <2>3, CallMoves DEF AddListener, Places
  <2> QED
    BY <1>1, <2>2, <2>3 DEF AddListener
<1>2. CASE Change(c)
  <2>1. <<c, addr[c]>> \in listening /\ pc[c] = "change"
    BY <1>2 DEF Change, IInv, Listens
  <2>2. PICK place \in {"lock", "remove", "done"} : pc' = [pc EXCEPT ![c] = place]
    BY <1>2 DEF Change
  <2> QED
    BY <1>0, <1>2, <2>1, <2>2, CallMoves DEF Change, Places
<1>3. CASE Look(c) \/ Wait(c) \/ Expire(c) \/ Resume(c)
  <2>1. /\ <<c, addr[c]>> \in listening
        /\ pc[c] \in {"lock", "checked", "waiting", "woken", "expired"}
    BY <1>3 DEF Look, Wait, Expire, Resume, IInv, Listens
  <2>2. PICK place \in {"remove", "checked", "waiting", "expired"} :
            pc' = [pc EXCEPT ![c] = place]
    BY <1>3 DEF Look, Wait, Expire, Resume, Leave
  <2>3. lock' = lock \/ \E x \in {c, NoOne} : lock' = [lock EXCEPT ![addr[c]] = x]
    BY <1>3 DEF Look, Wait, Expire, Resume, Leave
  <2>4. lock' \in [Addresses -> Calls \cup HalThreads \cup {NoOne}]
    BY <1>0, <2>3
  <2>5. UNCHANGED <<addr, live, registered, registry, value, present, listening,
                    owed, hal, notices>>
    BY <1>3 DEF Look, Wait, Expire, Resume
  <2> QED
    BY <1>0, <2>1, <2>2, <2>4, <2>5, CallMoves DEF Places
<1>4. CASE RemoveListener(c)
  <2>1. \A d \in Calls \ {c} : <<d, addr[d]>> # <<c, addr[c]>>
    OBVIOUS
  <2> QED
    BY <1>0, <1>4, <2>1, CallMoves DEF RemoveListener, Places
<1>5. CASE Register(c) \/ Unregister(c) \/ Free(c)
  BY <1>5, RegisterInvariant, UnregisterInvariant, FreeInvariant
<1>6. CASE UnlockFreed(c)
  <2>1. /\ pc[c] = "unlock" /\ pc'[c] = "done"
        /\ \A d \in Calls \ {c} : pc'[d] = pc[d]
    BY <1>6 DEF UnlockFreed, IInv, TypeOK
  <2>2. pc' \in [Calls -> Places]
    BY <1>6 DEF UnlockFreed, IInv, TypeOK, Places
  <2>3. lock' \in [Addresses -> Calls \cup HalThreads \cup {NoOne}]
    BY <1>0, <1>6 DEF UnlockFreed
  <2>4. TypeOK'
    <3>1. \A d \in Calls : addr'[d] = NoOne <=> pc'[d] = "start"
      BY <1>6, <2>1 DEF UnlockFreed, IInv, TypeOK
    <3> QED
      BY <1>6, <2>2, <2>3, <3>1 DEF UnlockFreed, IInv, TypeOK
  <2>5. Owned' /\ Listens' /\ CallbackFindsPair'
    BY <1>6, <2>1 DEF UnlockFreed, IInv, Owned, Listens, CallbackFindsPair
  <2> QED
    BY <2>4, <2>5 DEF IInv
<1> QED
  BY <1>1, <1>2, <1>3, <1>4, <1>5, <1>6 DEF Call

-----------------------------------------------------------------------------
(* The system's steps change neither the memory nor the registered addresses;  *)
(* a callback thread goes to state r.                                          *)
LEMMA HalMoves ==
    ASSUME IInv, NEW h \in HalThreads, NEW r \in HalStates,
           hal' = [hal EXCEPT ![h] = r],
           r.at \in {"registry", "pair"} => r.of[2] \in registered,
           registry' = (IF r.at \in {"registry", "pair"} THEN h ELSE NoOne),
           registry \in {h, NoOne},
           \A d \in Calls : pc'[d] = pc[d] \/ (pc[d] = "waiting" /\ pc'[d] = "woken"),
           pc' \in [Calls -> Places],
           lock' \in [Addresses -> Calls \cup HalThreads \cup {NoOne}],
           value' \in [Addresses -> Calls \cup {NoOne}],
           UNCHANGED <<addr, live, registered, present, listening, owed, notices>>
    PROVE  IInv'
<1>1. /\ hal'[h] = r /\ \A g \in HalThreads \ {h} : hal'[g] = hal[g]
      /\ hal' \in [HalThreads -> HalStates]
  BY DEF IInv, TypeOK
<1>2. h # NoOne /\ \A g \in HalThreads \ {h} : hal[g].at \notin {"registry", "pair"}
  BY CallsAssumption DEF IInv, TypeOK
<1>3. \A g \in HalThreads : registry' = g <=> hal'[g].at \in {"registry", "pair"}
  BY <1>1, <1>2, CallsAssumption
<1>4. TypeOK'
  <2>1. \A d \in Calls : addr'[d] = NoOne <=> pc'[d] = "start"
    BY DEF IInv, TypeOK
  <2>2. registry' \in HalThreads \cup {NoOne}
    OBVIOUS
  <2> QED
    BY <1>1, <1>3, <2>1, <2>2 DEF IInv, TypeOK
<1>5. Owned'
  BY DEF IInv, Owned, Active
<1>6. Listens'
  BY DEF IInv, Listens
<1>7. CallbackFindsPair'
  BY <1>1, <1>2 DEF IInv, CallbackFindsPair, TypeOK
<1> QED
  BY <1>4, <1>5, <1>6, <1>7 DEF IInv

(* A state of a callback with another place. *)
LEMMA Place ==
    ASSUME NEW s \in HalStates, s.at # "idle", NEW at \in {"called", "registry", "pair"}
    PROVE  /\ [s EXCEPT !.at = at] \in HalStates
           /\ [s EXCEPT !.at = at].at = at
           /\ [s EXCEPT !.at = at].of = s.of
           /\ s.of \in Calls \X Addresses
BY DEF HalStates, Listeners

LEMMA Idle == [at |-> "idle"] \in HalStates /\ [at |-> "idle"].at = "idle"
BY DEF HalStates

LEMMA CallbackInvariant ==
    ASSUME IInv, NEW h \in HalThreads, Callback(h)
    PROVE  IInv'
<1>1. /\ hal[h] \in HalStates /\ h # NoOne
      /\ registry = h <=> hal[h].at \in {"registry", "pair"}
      /\ pc \in [Calls -> Places]
      /\ lock \in [Addresses -> Calls \cup HalThreads \cup {NoOne}]
      /\ value \in [Addresses -> Calls \cup {NoOne}]
  BY CallsAssumption DEF IInv, TypeOK
<1>2. hal[h].at \in {"registry", "pair"} => hal[h].of[2] \in registered
  BY DEF IInv, CallbackFindsPair
<1>3. CASE Enter(h)
  <2>1. CASE hal[h].of[2] \in registered
    <3> DEFINE r == [hal[h] EXCEPT !.at = "registry"]
    <3>1. hal' = [hal EXCEPT ![h] = r]
      BY <1>3, <2>1 DEF Enter
    <3>2. r \in HalStates /\ r.at = "registry" /\ r.of = hal[h].of
      BY <1>1, <1>3, Place DEF Enter
    <3>3. r.of[2] \in registered
      BY <2>1, <3>2
    <3> HIDE DEF r
    <3> QED
      BY <1>1, <1>3, <2>1, <3>1, <3>2, <3>3, HalMoves DEF Enter
  <2>2. CASE hal[h].of[2] \notin registered
    BY <1>1, <1>3, <2>2, Idle, HalMoves DEF Enter
  <2> QED
    BY <2>1, <2>2
<1>4. CASE LockPair(h)
  <2> DEFINE r == [hal[h] EXCEPT !.at = "pair"]
  <2>1. hal' = [hal EXCEPT ![h] = r]
    BY <1>4 DEF LockPair
  <2>2. r \in HalStates /\ r.at = "pair" /\ r.of = hal[h].of
    BY <1>1, <1>4, Place DEF LockPair
  <2>3. r.of[2] \in registered /\ registry = h
    BY <1>1, <1>2, <1>4, <2>2 DEF LockPair
  <2>4. lock' \in [Addresses -> Calls \cup HalThreads \cup {NoOne}]
    BY <1>1, <1>4 DEF LockPair
  <2> HIDE DEF r
  <2> QED
    BY <1>1, <1>4, <2>1, <2>2, <2>3, <2>4, HalMoves DEF LockPair
<1>5. CASE Report(h)
  <2>1. hal[h].of \in Calls \X Addresses /\ registry = h
    BY <1>1, <1>5, Place DEF Report
  <2>2. hal[h].of[1] \in Calls /\ hal[h].of[2] \in Addresses
    BY <2>1
  <2>3. /\ value' \in [Addresses -> Calls \cup {NoOne}]
        /\ lock' \in [Addresses -> Calls \cup HalThreads \cup {NoOne}]
    BY <1>1, <1>5, <2>2 DEF Report
  <2>4. /\ pc' \in [Calls -> Places]
        /\ \A d \in Calls : pc'[d] = pc[d] \/ (pc[d] = "waiting" /\ pc'[d] = "woken")
    BY <1>1, <1>5 DEF Report, Places
  <2>5. hal' = [hal EXCEPT ![h] = [at |-> "idle"]] /\ registry' = NoOne
    BY <1>5, <2>1 DEF Report
  <2> QED
    BY <1>5, <2>1, <2>3, <2>4, <2>5, Idle, HalMoves DEF Report
<1> QED
  BY <1>3, <1>4, <1>5 DEF Callback

LEMMA NotifyInvariant ==
    ASSUME IInv, NEW h \in HalThreads, NEW l \in listening, Notify(h, l)
    PROVE  IInv'
<1> DEFINE r == [at |-> "called", of |-> l]
<1>1. hal' = [hal EXCEPT ![h] = r] /\ r \in HalStates /\ r.at = "called"
  BY DEF Notify, HalStates, IInv, TypeOK
<1>2. hal[h].at = "idle"
  BY DEF Notify
<1> HIDE DEF r
<1>3. /\ hal'[h] = r /\ \A g \in HalThreads \ {h} : hal'[g] = hal[g]
      /\ hal' \in [HalThreads -> HalStates]
  BY <1>1 DEF IInv, TypeOK
<1>4. \A g \in HalThreads : registry' = g <=> hal'[g].at \in {"registry", "pair"}
  BY <1>1, <1>2, <1>3 DEF Notify, IInv, TypeOK
<1>5. notices' \in Nat /\ owed' \in SUBSET listening'
  BY DEF Notify, IInv, TypeOK
<1>6. TypeOK'
  BY <1>3, <1>4, <1>5 DEF Notify, IInv, TypeOK
<1>7. Owned' /\ Listens'
  BY DEF Notify, IInv, Owned, Active, Listens
<1>8. CallbackFindsPair'
  BY <1>1, <1>3 DEF Notify, IInv, CallbackFindsPair
<1> QED
  BY <1>6, <1>7, <1>8 DEF IInv

LEMMA StepInvariant == IInv /\ [Next]_vars => IInv'
<1> SUFFICES ASSUME IInv, [Next]_vars PROVE IInv'
  OBVIOUS
<1>1. ASSUME NEW c \in Calls, Appear(c) PROVE IInv'
  <2>1. owed' \in SUBSET listening
    BY <1>1 DEF Appear, IInv, TypeOK, Listens
  <2> QED
    BY <1>1, <2>1 DEF Appear, IInv, TypeOK, Owned, Active, Listens, CallbackFindsPair
<1>2. CASE UNCHANGED vars
  BY <1>2 DEF vars, IInv, TypeOK, Owned, Active, Listens, CallbackFindsPair
<1> QED
  BY <1>1, <1>2, CallInvariant, CallbackInvariant, NotifyInvariant DEF Next

LEMMA Invariance == Spec => []IInv
BY InitInvariant, StepInvariant, PTL DEF Spec

(* Types: the lock of the registry is held exactly by the callback inside it. *)
THEOREM TypeCorrect == Spec => []TypeOK
BY Invariance, PTL DEF IInv

(* However late it is called, and wherever the allocator puts new pairs, a    *)
(* callback only touches a pair that is allocated and registered; this holds  *)
(* of set_sub_devices_sync too.                                               *)
THEOREM RegistryProtects == Spec => []CallbackFindsPair
BY Invariance, PTL DEF IInv

-----------------------------------------------------------------------------
(* The locks of the pairs                                                     *)

(* A call has the lock of its pair where it is about to wait, and a "sub" call *)
(* also after it has left the wait with its guard.                             *)
Holding(c) ==
    \/ pc[c] = "checked"
    \/ Kind[c] = "sub" /\ pc[c] \in {"remove", "unregister", "free", "unlock"}

LockOwners ==
    /\ \A a \in Addresses, c \in Calls : lock[a] = c => addr[c] = a /\ Holding(c)
    /\ \A a \in Addresses, h \in HalThreads :
          lock[a] = h => hal[h].at = "pair" /\ hal[h].of[2] = a

Locked ==
    /\ \A c \in Calls : pc[c] \in {"checked", "unlock"} => lock[addr[c]] = c
    /\ \A h \in HalThreads : hal[h].at = "pair" => lock[hal[h].of[2]] = h

LInv == LockOwners /\ Locked

(* A step of a call: it takes or releases the lock at one address that no      *)
(* other call about to wait, nor a callback, has.                              *)
LEMMA CallLocks ==
    ASSUME IInv, LInv, NEW c \in Calls, UNCHANGED hal,
           \A d \in Calls \ {c} : pc'[d] = pc[d] /\ addr'[d] = addr[d],
           \A a \in Addresses :
              \/ lock'[a] = lock[a] \/ lock[a] = NoOne \/ lock[a] = c
              \/ a \notin live /\ \A d \in Calls : ~Running(d),
           \A a \in Addresses : lock'[a] \in {lock[a], NoOne, c},
           \A a \in Addresses : lock'[a] = c => addr'[c] = a /\ Holding(c)',
           pc'[c] \in {"checked", "unlock"} => lock'[addr'[c]] = c
    PROVE  LInv'
<1>1. /\ lock \in [Addresses -> Calls \cup HalThreads \cup {NoOne}]
      /\ NoOne \notin Calls \cup HalThreads /\ Calls \cap HalThreads = {}
      /\ \A d \in Calls : pc[d] # "start" => addr[d] \in Addresses
  BY CallsAssumption DEF IInv, TypeOK
<1>2. ASSUME NEW a \in Addresses, NEW d \in Calls, lock'[a] = d
      PROVE  addr'[d] = a /\ Holding(d)'
  <2>1. CASE d = c
    BY <1>2, <2>1
  <2>2. CASE d # c
    <3>1. lock[a] = d
      BY <1>1, <1>2, <2>2
    <3> QED
      BY <2>2, <3>1 DEF LInv, LockOwners, Holding
  <2> QED
    BY <2>1, <2>2
<1>3. ASSUME NEW a \in Addresses, NEW h \in HalThreads, lock'[a] = h
      PROVE  hal'[h].at = "pair" /\ hal'[h].of[2] = a
  BY <1>1, <1>3 DEF LInv, LockOwners
<1>4. ASSUME NEW d \in Calls, pc'[d] \in {"checked", "unlock"}
      PROVE  lock'[addr'[d]] = d
  <2>1. CASE d = c
    BY <1>4, <2>1
  <2>2. CASE d # c
    <3>1. pc[d] \in {"checked", "unlock"} /\ addr'[d] = addr[d] /\ addr[d] \in Addresses
          /\ Running(d)
      BY <1>1, <1>4, <2>2 DEF Running
    <3>2. lock[addr[d]] = d /\ d # NoOne
      BY <1>1, <3>1 DEF LInv, Locked
    <3> QED
      BY <2>2, <3>1, <3>2
  <2> QED
    BY <2>1, <2>2
<1>5. ASSUME NEW h \in HalThreads, hal'[h].at = "pair"
      PROVE  lock'[hal'[h].of[2]] = h
  <2>1. /\ hal[h].of[2] \in Addresses /\ hal[h].of[2] \in live
        /\ lock[hal[h].of[2]] = h
    BY <1>5 DEF IInv, TypeOK, CallbackFindsPair, LInv, Locked
  <2> QED
    BY <1>1, <2>1
<1> QED
  BY <1>2, <1>3, <1>4, <1>5 DEF LInv, LockOwners, Locked

LEMMA CallLockStep ==
    ASSUME IInv, LInv, NEW c \in Calls, Call(c)
    PROVE  LInv'
<1>1. /\ pc \in [Calls -> Places] /\ addr \in [Calls -> Addresses \cup {NoOne}]
      /\ lock \in [Addresses -> Calls \cup HalThreads \cup {NoOne}]
      /\ pc[c] # "start" => addr[c] \in Addresses
      /\ c # NoOne
  BY CallsAssumption DEF IInv, TypeOK
<1>2. \A a \in Addresses : lock[a] = c => addr[c] = a /\ Holding(c)
  BY DEF LInv, LockOwners
<1>3. CASE Register(c)
  <2>1. PICK a \in Addresses \ live :
           addr' = [addr EXCEPT ![c] = a] /\ lock' = [lock EXCEPT ![a] = NoOne]
    BY <1>3 DEF Register
  <2>2. pc[c] = "start" /\ pc' = [pc EXCEPT ![c] = "listen"] /\ hal' = hal
        /\ \A d \in Calls : ~Running(d)
    BY <1>3 DEF Register, Goto
  <2>3. \A b \in Addresses : lock'[b] # c
    BY <1>1, <1>2, <2>1, <2>2 DEF Holding
  <2> QED
    BY <1>1, <2>1, <2>2, <2>3, CallLocks
<1>4. CASE AddListener(c) \/ Change(c) \/ Expire(c)
  <2>1. /\ pc[c] \in {"listen", "change", "waiting"}
        /\ \E place \in {"change", "unregister", "lock", "remove", "done", "expired"} :
              pc' = [pc EXCEPT ![c] = place]
        /\ UNCHANGED <<addr, lock, hal>>
    BY <1>4 DEF AddListener, Change, Expire, Goto
  <2>2. \A a \in Addresses : lock[a] # c
    BY <1>2, <2>1 DEF Holding
  <2> QED
    BY <1>1, <2>1, <2>2, CallLocks
<1>5. CASE RemoveListener(c) \/ Unregister(c)
  <2>1. /\ pc[c] \in {"remove", "unregister"} /\ UNCHANGED <<addr, lock, hal>>
        /\ \E place \in {"unregister", "free"} : pc' = [pc EXCEPT ![c] = place]
    BY <1>5 DEF RemoveListener, Unregister, Goto
  <2>2. \A a \in Addresses : lock[a] = c => addr'[c] = a /\ Holding(c)'
    BY <1>1, <1>2, <2>1 DEF Holding
  <2> QED
    BY <1>1, <2>1, <2>2, CallLocks
<1>6. CASE Free(c)
  <2>1. /\ pc[c] = "free" /\ UNCHANGED <<addr, lock, hal>>
        /\ pc' = [pc EXCEPT ![c] = IF lock[addr[c]] = c THEN "unlock" ELSE "done"]
    BY <1>6 DEF Free, Goto
  <2>2. \A a \in Addresses : lock[a] = c => addr'[c] = a /\ Holding(c)'
    BY <1>1, <1>2, <2>1 DEF Holding
  <2> QED
    BY <1>1, <2>1, <2>2, CallLocks
<1>7. CASE UnlockFreed(c) \/ Wait(c)
  <2>1. /\ pc[c] \in {"unlock", "checked"} /\ UNCHANGED <<addr, hal>>
        /\ \E place \in {"done", "waiting"} : pc' = [pc EXCEPT ![c] = place]
        /\ lock' = [lock EXCEPT ![addr[c]] = NoOne]
    BY <1>7 DEF UnlockFreed, Wait, Goto
  <2>2. lock[addr[c]] = c /\ \A a \in Addresses : lock'[a] # c
    BY <1>1, <1>2, <2>1 DEF LInv, Locked
  <2> QED
    BY <1>1, <2>1, <2>2, CallLocks
<1>8. CASE Look(c) \/ Resume(c)
  <2>1. /\ pc[c] \in {"lock", "woken", "expired"} /\ lock[addr[c]] = NoOne
        /\ UNCHANGED <<addr, hal>>
        /\ \/ pc' = [pc EXCEPT ![c] = "checked"] /\ lock' = [lock EXCEPT ![addr[c]] = c]
           \/ pc' = [pc EXCEPT ![c] = "remove"] /\ lock' = [lock EXCEPT ![addr[c]] = NoOne]
           \/ /\ pc' = [pc EXCEPT ![c] = "remove"] /\ lock' = [lock EXCEPT ![addr[c]] = c]
              /\ Kind[c] = "sub"
    BY <1>8 DEF Look, Resume, Leave, KeepsGuard, Goto
  <2>2. \A a \in Addresses : lock[a] # c
    BY <1>2, <2>1 DEF Holding
  <2>3. \A a \in Addresses : lock'[a] = c => addr'[c] = a /\ Holding(c)'
    BY <1>1, <2>1, <2>2 DEF Holding
  <2> QED
    BY <1>1, <2>1, <2>2, <2>3, CallLocks
<1> QED
  BY <1>3, <1>4, <1>5, <1>6, <1>7, <1>8 DEF Call

LEMMA CallbackLockStep ==
    ASSUME IInv, LInv, NEW h \in HalThreads, Callback(h)
    PROVE  LInv'
<1>1. /\ pc \in [Calls -> Places] /\ hal \in [HalThreads -> HalStates]
      /\ lock \in [Addresses -> Calls \cup HalThreads \cup {NoOne}]
      /\ NoOne \notin Calls \cup HalThreads /\ Calls \cap HalThreads = {}
      /\ \A c \in Calls : pc[c] # "start" => addr[c] \in Addresses
  BY CallsAssumption DEF IInv, TypeOK
<1>2. CASE Enter(h)
  <2>1. /\ lock' = lock /\ pc' = pc /\ addr' = addr /\ hal[h].at = "called"
        /\ \A g \in HalThreads \ {h} : hal'[g] = hal[g]
    BY <1>1, <1>2 DEF Enter
  <2>2. hal'[h].at \in {"registry", "idle"}
    <3>1. CASE hal' = [hal EXCEPT ![h].at = "registry"]
      BY <1>1, <2>1, <3>1, Place
    <3>2. CASE hal' = [hal EXCEPT ![h] = [at |-> "idle"]]
      BY <1>1, <3>2
    <3> QED
      BY <1>2, <3>1, <3>2 DEF Enter
  <2> QED
    BY <2>1, <2>2 DEF LInv, LockOwners, Locked, Holding
<1>3. CASE LockPair(h)
  <2> DEFINE r == [hal[h] EXCEPT !.at = "pair"]
  <2>1. r.at = "pair" /\ r.of = hal[h].of /\ hal[h].of \in Calls \X Addresses
    BY <1>1, <1>3, Place DEF LockPair
  <2>2. hal' = [hal EXCEPT ![h] = r] /\ hal[h].at = "registry" /\ pc' = pc /\ addr' = addr
        /\ lock[hal[h].of[2]] = NoOne
    BY <1>3 DEF LockPair
  <2> HIDE DEF r
  <2>3. hal'[h] = r /\ \A g \in HalThreads \ {h} : hal'[g] = hal[g]
    BY <1>1, <2>2
  <2>4. hal[h].of[2] \in Addresses
    BY <2>1
  <2>5. \A a \in Addresses : lock'[a] = IF a = hal[h].of[2] THEN h ELSE lock[a]
    BY <1>1, <1>3 DEF LockPair
  <2>6. \A a \in Addresses : lock[a] # h
    BY <2>2 DEF LInv, LockOwners
  <2>7. LockOwners'
    BY <1>1, <2>1, <2>2, <2>3, <2>4, <2>5, <2>6 DEF LInv, LockOwners, Holding
  <2>8. \A g \in HalThreads \ {h} : hal[g].at # "pair"
    BY <2>2 DEF IInv, TypeOK
  <2>9. Locked'
    BY <1>1, <2>1, <2>2, <2>3, <2>4, <2>5, <2>8 DEF LInv, Locked
  <2> QED
    BY <2>7, <2>9 DEF LInv
<1>4. CASE Report(h)
  <2>1. \A a \in Addresses : (lock'[a] = lock[a] /\ lock[a] # h) \/ lock'[a] = NoOne
    BY <1>1, <1>4 DEF Report, LInv, LockOwners
  <2>2. \A g \in HalThreads \ {h} : hal'[g] = hal[g] /\ hal[g].at # "pair"
    BY <1>1, <1>4 DEF Report, IInv, TypeOK
  <2>3. hal'[h].at = "idle"
    BY <1>1, <1>4 DEF Report
  <2>4. addr' = addr /\ \A c \in Calls : pc'[c] = pc[c] \/ (pc[c] = "waiting" /\ pc'[c] = "woken")
    BY <1>1, <1>4 DEF Report
  <2>5. \A a \in Addresses : lock[a] # h => lock'[a] = lock[a]
    BY <1>1, <1>4 DEF Report
  <2>6. LockOwners'
    BY <1>1, <2>1, <2>2, <2>4 DEF LInv, LockOwners, Holding
  <2>7. Locked'
    BY <1>1, <2>2, <2>3, <2>4, <2>5 DEF LInv, Locked
  <2> QED
    BY <2>6, <2>7 DEF LInv
<1> QED
  BY <1>2, <1>3, <1>4 DEF Callback

LEMMA SystemLockStep ==
    ASSUME IInv, LInv, NEW h \in HalThreads, NEW l \in listening, Notify(h, l)
    PROVE  LInv'
<1>1. /\ lock' = lock /\ pc' = pc /\ addr' = addr /\ hal[h].at = "idle"
      /\ hal'[h].at = "called" /\ \A g \in HalThreads \ {h} : hal'[g] = hal[g]
  BY DEF Notify, IInv, TypeOK
<1> QED
  BY <1>1 DEF LInv, LockOwners, Locked, Holding

LEMMA LockInvariant ==
    /\ Init => LInv
    /\ IInv /\ LInv /\ [Next]_vars => LInv'
<1>1. Init => LInv
  BY CallsAssumption DEF Init, LInv, LockOwners, Locked
<1>2. ASSUME IInv, LInv, NEW c \in Calls, Appear(c) PROVE LInv'
  BY <1>2 DEF Appear, LInv, LockOwners, Locked, Holding
<1>3. ASSUME LInv, UNCHANGED vars PROVE LInv'
  BY <1>3 DEF vars, LInv, LockOwners, Locked, Holding
<1> QED
  BY <1>1, <1>2, <1>3, CallLockStep, CallbackLockStep, SystemLockStep DEF Next

(* Only set_sub_devices_sync drops a locked pair. *)
LEMMA SubDrops == IInv /\ LInv => OnlySubDropsLocked
<1> SUFFICES ASSUME IInv, LInv, NEW a \in Addresses, a \notin live, lock[a] # NoOne
             PROVE  \E c \in Calls : lock[a] = c /\ Kind[c] = "sub" /\ pc[c] = "unlock"
  BY DEF OnlySubDropsLocked, IInv, TypeOK
<1>1. lock[a] \in Calls \cup HalThreads
  BY DEF IInv, TypeOK
<1>2. CASE lock[a] \in HalThreads
  BY <1>2 DEF IInv, CallbackFindsPair, LInv, LockOwners
<1>3. CASE lock[a] \in Calls
  BY <1>3 DEF IInv, Owned, Active, LInv, LockOwners, Holding
<1> QED
  BY <1>1, <1>2, <1>3

(* The functions whose guard goes out of scope before their teardown. *)
GuardFirst == \A c \in Calls : Kind[c] # "sub"

(* set_buffer_size_sync and create_blank_device_sync drop their pair unlocked. *)
THEOREM DropIsSafe ==
    ASSUME GuardFirst
    PROVE  Spec => []DroppedUnlocked
<1>1. IInv /\ LInv => DroppedUnlocked
  BY SubDrops DEF GuardFirst, OnlySubDropsLocked, DroppedUnlocked
<1> QED
  BY <1>1, Invariance, InitInvariant, StepInvariant, LockInvariant, PTL DEF Spec

(* And the callback they wait for to unregister never waits for them. *)
THEOREM UnregisterIsSafe ==
    ASSUME GuardFirst
    PROVE  Spec => []UnregisterUnblocks
<1>1. IInv /\ LInv => UnregisterUnblocks
  <2> SUFFICES ASSUME IInv, LInv, NEW c \in Calls, NEW h \in HalThreads,
                      pc[c] = "unregister", hal[h].at = "registry",
                      lock[hal[h].of[2]] = c
               PROVE  FALSE
    BY DEF UnregisterUnblocks, Stuck
  <2>1. hal[h].of[2] \in Addresses
    BY DEF IInv, TypeOK, CallbackFindsPair
  <2> QED
    BY <2>1 DEF LInv, LockOwners, Holding, GuardFirst
<1> QED
  BY <1>1, Invariance, InitInvariant, StepInvariant, LockInvariant, PTL DEF Spec

-----------------------------------------------------------------------------
(* Wakeups                                                                    *)

(* The address of a call that may be waiting is registered. *)
Placed ==
    \A c \in Calls :
        pc[c] \in {"listen", "change", "lock", "checked", "waiting", "woken", "expired",
                  "remove", "unregister"}
            => addr[c] \in registered

(* A callback to the pair of c is on its way, or is still to be made. *)
Coming(c) ==
    \/ <<c, addr[c]>> \in owed
    \/ \E h \in HalThreads : hal[h].at # "idle" /\ hal[h].of[2] = addr[c]

(* A call is about to wait, or waits, for what it has not seen yet; only the   *)
(* blank device may have shown up after the call looked.                       *)
Pending ==
    \A c \in Calls :
        pc[c] \in {"checked", "waiting"} /\ Reported(c) => Kind[c] = "blank" /\ Coming(c)

WInv == Placed /\ Pending

LEMMA CallWakeStep ==
    ASSUME IInv, LInv, WInv, NEW c \in Calls, Call(c)
    PROVE  WInv'
<1>1. /\ pc \in [Calls -> Places] /\ addr \in [Calls -> Addresses \cup {NoOne}]
      /\ value \in [Addresses -> Calls \cup {NoOne}]
      /\ registered \subseteq live /\ live \subseteq Addresses
      /\ \A d \in Calls : pc[d] # "start" => addr[d] \in Addresses
      /\ \A d \in Calls : Active(d) => addr[d] \in live
  BY CallsAssumption DEF IInv, TypeOK, Owned
<1>2. UNCHANGED <<present, hal>>
  BY DEF Call, Register, AddListener, Change, Look, Wait, Expire, Resume,
         RemoveListener, Unregister, Free, UnlockFreed
<1>3. \A d \in Calls \ {c} : pc'[d] = pc[d] /\ addr'[d] = addr[d]
  BY <1>1 DEF Call, Register, AddListener, Change, Look, Wait, Expire, Resume, Leave,
              RemoveListener, Unregister, Free, UnlockFreed, Goto
<1>4. \A a \in live : value'[a] = value[a]
  BY <1>1 DEF Call, Register, AddListener, Change, Look, Wait, Expire, Resume,
              RemoveListener, Unregister, Free, UnlockFreed
<1>5. \A d \in Calls \ {c} : <<d, addr[d]>> \in owed => <<d, addr[d]>> \in owed'
  BY DEF Call, Register, AddListener, Change, Look, Wait, Expire, Resume,
         RemoveListener, Unregister, Free, UnlockFreed
<1>6. /\ registered \subseteq registered' \/ registered' = registered \ {addr[c]}
      /\ pc[c] # "unregister" => registered \subseteq registered'
  BY DEF Call, Register, AddListener, Change, Look, Wait, Expire, Resume,
         RemoveListener, Unregister, Free, UnlockFreed
<1>7. Placed'
  <2>1. ASSUME NEW d \in Calls \ {c},
               pc'[d] \in {"listen", "change", "lock", "checked", "waiting", "woken",
                          "expired", "remove", "unregister"}
        PROVE  addr'[d] \in registered'
    <3>1. addr[d] \in registered /\ Active(d)
      BY <1>3, <2>1 DEF WInv, Placed, Active
    <3>2. pc[c] = "unregister" => addr[c] # addr[d]
      BY <3>1 DEF IInv, Owned, Active
    <3> QED
      BY <1>3, <1>6, <3>1, <3>2
  <2>2. ASSUME pc'[c] \in {"listen", "change", "lock", "checked", "waiting", "woken",
                          "expired", "remove", "unregister"}
        PROVE  addr'[c] \in registered'
    <3>1. CASE Register(c)
      BY <1>1, <3>1 DEF Register
    <3>2. CASE ~Register(c)
      <4>1. /\ addr' = addr
            /\ pc[c] \in {"listen", "change", "lock", "checked", "waiting", "woken",
                          "expired", "remove"}
        BY <1>1, <2>2, <3>2
           DEF Call, AddListener, Change, Look, Wait, Expire, Resume, Leave,
               RemoveListener, Unregister, Free, UnlockFreed, Goto
      <4> QED
        BY <1>6, <4>1 DEF WInv, Placed
    <3> QED
      BY <3>1, <3>2
  <2> QED
    BY <2>1, <2>2 DEF Placed
<1>8. Pending'
  <2>1. ASSUME NEW d \in Calls \ {c}, pc'[d] \in {"checked", "waiting"}, Reported(d)'
        PROVE  Kind[d] = "blank" /\ Coming(d)'
    <3>1. value'[addr[d]] = value[addr[d]]
      BY <1>1, <1>3, <1>4, <2>1 DEF Active
    <3>2. Reported(d) = Reported(d)'
      BY <1>2, <1>3, <3>1 DEF Reported
    <3> QED
      BY <1>2, <1>3, <1>5, <2>1, <3>2 DEF WInv, Pending, Coming
  <2>2. ASSUME pc'[c] \in {"checked", "waiting"}, Reported(c)'
        PROVE  Kind[c] = "blank" /\ Coming(c)'
    <3>1. UNCHANGED <<addr, value, owed>> /\ (Wait(c) \/ ~Reported(c))
      BY <1>1, <2>2
         DEF Call, Register, AddListener, Change, Look, Wait, Expire, Resume, Leave,
             RemoveListener, Unregister, Free, UnlockFreed, Goto
    <3>2. Reported(c) = Reported(c)'
      BY <1>2, <3>1 DEF Reported
    <3> QED
      BY <1>2, <2>2, <3>1, <3>2 DEF Wait, WInv, Pending, Coming
  <2> QED
    BY <2>1, <2>2 DEF Pending
<1> QED
  BY <1>7, <1>8 DEF WInv

LEMMA CallbackWakeStep ==
    ASSUME IInv, LInv, WInv, NEW h \in HalThreads, Callback(h)
    PROVE  WInv'
<1>1. /\ hal \in [HalThreads -> HalStates] /\ hal[h] \in HalStates
      /\ pc \in [Calls -> Places]
      /\ value \in [Addresses -> Calls \cup {NoOne}]
  BY DEF IInv, TypeOK
<1>2. UNCHANGED <<addr, registered, present, owed>>
  BY DEF Callback, Enter, LockPair, Report
<1>3. CASE Enter(h) \/ LockPair(h)
  <2>1. UNCHANGED <<pc, value>>
    BY <1>3 DEF Enter, LockPair
  <2>2. \A g \in HalThreads \ {h} : hal'[g] = hal[g]
    BY <1>1, <1>3 DEF Enter, LockPair
  <2>3. hal[h].at # "idle"
    BY <1>3 DEF Enter, LockPair
  <2>4. hal[h].of[2] \in registered => hal'[h].at # "idle" /\ hal'[h].of = hal[h].of
    <3>1. CASE hal' = [hal EXCEPT ![h].at = "registry"]
      BY <1>1, <2>3, <3>1, Place
    <3>2. CASE hal' = [hal EXCEPT ![h].at = "pair"]
      BY <1>1, <2>3, <3>2, Place
    <3> QED
      BY <1>3, <3>1, <3>2 DEF Enter, LockPair
  <2>5. ASSUME NEW c \in Calls, pc'[c] \in {"checked", "waiting"}, Reported(c)'
        PROVE  Kind[c] = "blank" /\ Coming(c)'
    <3>1. Reported(c) = Reported(c)' /\ pc'[c] = pc[c]
      BY <1>2, <2>1 DEF Reported
    <3>2. addr[c] \in registered /\ Kind[c] = "blank" /\ Coming(c)
      BY <2>5, <3>1 DEF WInv, Placed, Pending
    <3> QED
      BY <1>2, <2>2, <2>4, <3>2 DEF Coming
  <2> QED
    BY <1>2, <2>1, <2>5 DEF WInv, Placed, Pending
<1>4. CASE Report(h)
  <2>1. \A c \in Calls : /\ pc'[c] = pc[c] \/ (pc[c] = "waiting" /\ pc'[c] = "woken")
                         /\ pc'[c] = "waiting" => addr[c] # hal[h].of[2]
    BY <1>1, <1>4 DEF Report
  <2>2. \A g \in HalThreads \ {h} : hal'[g] = hal[g]
    BY <1>1, <1>4 DEF Report
  <2>3. lock[hal[h].of[2]] = h
    BY <1>4 DEF Report, LInv, Locked
  <2>4. \A c \in Calls : pc[c] = "checked" => addr[c] # hal[h].of[2]
    BY <2>3, CallsAssumption DEF LInv, Locked
  <2>5. \A a \in Addresses : a # hal[h].of[2] => value'[a] = value[a]
    BY <1>1, <1>4 DEF Report
  <2>6. Placed'
    <3> SUFFICES ASSUME NEW c \in Calls,
                        pc'[c] \in {"listen", "change", "lock", "checked", "waiting",
                                   "woken", "expired", "remove", "unregister"}
                 PROVE  addr[c] \in registered
      BY <1>2 DEF Placed
    <3>1. pc'[c] = pc[c] \/ pc[c] = "waiting"
      BY <2>1
    <3> QED
      BY <3>1 DEF WInv, Placed
  <2>7. ASSUME NEW c \in Calls, pc'[c] \in {"checked", "waiting"}, Reported(c)'
        PROVE  Kind[c] = "blank" /\ Coming(c)'
    <3>1. pc'[c] = pc[c] /\ addr[c] # hal[h].of[2]
      <4>1. pc'[c] # "woken"
        BY <2>7
      <4> QED
        BY <2>1, <2>4, <2>7, <4>1
    <3>2. addr[c] \in Addresses
      BY <2>7, <3>1 DEF IInv, TypeOK
    <3>3. Reported(c) = Reported(c)'
      BY <1>2, <2>5, <3>1, <3>2 DEF Reported
    <3> QED
      BY <1>2, <2>2, <2>7, <3>1, <3>3 DEF WInv, Pending, Coming
  <2> QED
    BY <2>6, <2>7 DEF WInv, Pending
<1> QED
  BY <1>3, <1>4 DEF Callback

LEMMA NotifyWakeStep ==
    ASSUME IInv, WInv, NEW h \in HalThreads, NEW l \in listening, Notify(h, l)
    PROVE  WInv'
<1>1. /\ UNCHANGED <<pc, addr, registered, value, present>>
      /\ hal[h].at = "idle" /\ owed' = owed \ {l}
      /\ hal'[h].at = "called" /\ hal'[h].of = l
      /\ \A g \in HalThreads \ {h} : hal'[g] = hal[g]
  BY DEF Notify, IInv, TypeOK
<1>2. ASSUME NEW c \in Calls, Coming(c) PROVE Coming(c)'
  <2>1. CASE <<c, addr[c]>> = l
    BY <1>1, <2>1 DEF Coming
  <2>2. CASE <<c, addr[c]>> # l
    BY <1>1, <1>2, <2>2 DEF Coming
  <2> QED
    BY <2>1, <2>2
<1>3. Placed'
  BY <1>1 DEF WInv, Placed
<1>4. Pending'
  BY <1>1, <1>2 DEF WInv, Pending, Reported
<1> QED
  BY <1>3, <1>4 DEF WInv

LEMMA AppearWakes ==
    ASSUME WInv, NEW c \in Calls, Appear(c)
    PROVE  WInv'
<1>1. /\ Kind[c] = "blank" /\ present' = present \cup {c}
      /\ owed' = owed \cup {<<c, addr[c]>>}
      /\ UNCHANGED <<pc, addr, registered, value, hal>>
  BY DEF Appear
<1>2. Coming(c)' /\ \A d \in Calls : Coming(d) => Coming(d)'
  BY <1>1 DEF Coming
<1>3. ASSUME NEW d \in Calls, pc'[d] \in {"checked", "waiting"}, Reported(d)'
      PROVE  Kind[d] = "blank" /\ Coming(d)'
  <2>1. d = c \/ Reported(d) = Reported(d)'
    BY <1>1 DEF Reported
  <2> QED
    BY <1>1, <1>2, <1>3, <2>1 DEF WInv, Pending
<1> QED
  BY <1>1, <1>3 DEF WInv, Placed, Pending

Inv == IInv /\ LInv /\ WInv

LEMMA WholeInvariant ==
    /\ Init => Inv
    /\ Inv /\ [Next]_vars => Inv'
<1>1. Init => WInv
  BY DEF Init, WInv, Placed, Pending
<1>2. ASSUME WInv, UNCHANGED vars PROVE WInv'
  BY <1>2 DEF vars, WInv, Placed, Pending, Reported, Coming
<1> QED
  BY <1>1, <1>2, InitInvariant, StepInvariant, LockInvariant, CallWakeStep,
     CallbackWakeStep, NotifyWakeStep, AppearWakes DEF Next, Inv

LEMMA Wakes == Inv => NoLostWakeup
BY DEF Inv, WInv, Pending, Coming, NoLostWakeup

(* A call never sleeps on a device that is there until its time is over. *)
THEOREM NoWakeupLost == Spec => []NoLostWakeup
BY WholeInvariant, Wakes, PTL DEF Spec

-----------------------------------------------------------------------------
(* The builds                                                                 *)

(* What each stage of a build means for the calls it makes, what it means that *)
(* a call was Ok, and what stands in a pair.                                   *)
Stage ==
    \A b \in Builds :
        /\ stage[b] \in Configuring \cup {"cleanup", "built"} => pc[Sub[b]] = "done"
        /\ stage[b] \in Configuring \cup {"sub", "cleanup", "built"} => Blank[b] \in succeeded
        /\ stage[b] \in Configuring \cup {"built"} => Sub[b] \in succeeded
        /\ stage[b] = "start" => b \notin existing

Seen ==
    /\ \A c \in succeeded : Kind[c] = "blank" => c \in present
    /\ \A c \in succeeded : Kind[c] = "sub" => c \in answered
    /\ \A a \in Addresses : value[a] \in Calls => value[a] \in answered

BInv == BuildTypeOK /\ Stage /\ Seen /\ OnlyTimeoutLeaks

(* The device of a build is destroyed when its call has returned: the call's   *)
(* listener, which is no longer looked at, goes with it.                       *)
LEMMA ForgetKeeps ==
    ASSUME Inv, NEW b \in Builds, pc[Sub[b]] = "done", Forget(b),
           UNCHANGED <<pc, addr, live, registered, registry, lock, value, present, hal,
                       notices>>
    PROVE  Inv'
<1>1. /\ listening' \subseteq listening /\ owed' \subseteq listening'
      /\ Kind[Sub[b]] = "sub"
      /\ \A c \in Calls, a \in Addresses \cup {NoOne} :
            c # Sub[b] => /\ <<c, a>> \in listening => <<c, a>> \in listening'
                          /\ <<c, a>> \in owed => <<c, a>> \in owed'
  BY BuildsAssumption DEF Forget, Inv, IInv, TypeOK
<1>2. \A c \in Calls : addr[c] \in Addresses \cup {NoOne}
  BY DEF Inv, IInv, TypeOK
<1>3. TypeOK'
  BY <1>1 DEF Inv, IInv, TypeOK
<1>4. Owned' /\ CallbackFindsPair'
  BY DEF Inv, IInv, Owned, Active, CallbackFindsPair
<1>5. Listens'
  BY <1>1, <1>2 DEF Inv, IInv, Listens
<1>6. LInv'
  BY DEF Inv, LInv, LockOwners, Locked, Holding
<1>7. ASSUME NEW c \in Calls, pc[c] \in {"checked", "waiting"}, Coming(c) PROVE Coming(c)'
  BY <1>1, <1>2, <1>7 DEF Coming
<1>8. WInv'
  <2>1. \A c \in Calls : Reported(c) = Reported(c)'
    BY DEF Reported
  <2> QED
    BY <1>7, <2>1 DEF Inv, WInv, Placed, Pending
<1> QED
  BY <1>3, <1>4, <1>5, <1>6, <1>8 DEF Inv, IInv

(* Every step of the builds is one of the calls and callbacks, or changes      *)
(* nothing of theirs but the listeners of a device that is destroyed.          *)
LEMMA BuildKeeps ==
    ASSUME Inv, BInv, [BuildNext]_allVars
    PROVE  Inv'
<1>1. ASSUME NEW c \in Calls, CallStep(c) PROVE Inv'
  BY <1>1, WholeInvariant DEF CallStep, Next
<1>2. ASSUME NEW h \in HalThreads, CallbackStep(h) PROVE Inv'
  BY <1>2, WholeInvariant DEF CallbackStep, Next
<1>3. CASE SystemStep
  BY <1>3, WholeInvariant DEF SystemStep, Next
<1>4. ASSUME NEW b \in Builds, BuildStep(b) PROVE Inv'
  <2>1. CASE UNCHANGED vars
    BY <2>1, WholeInvariant
  <2>2. CASE Cleanup(b) \/ (DropDevice(b) /\ Forget(b))
    <3>1. pc[Sub[b]] = "done"
      BY <2>2 DEF Cleanup, DropDevice, Advance, BInv, Stage
    <3> QED
      BY <2>2, <3>1, ForgetKeeps DEF Cleanup, DropDevice
  <2> QED
    BY <1>4, <2>1, <2>2
       DEF BuildStep, Locate, BlankReturns, SubReturns, SetMasterDevice,
           ActivateDriftCompensation, WorkaroundForAirpod, Try, DropDevice, vars
<1>5. CASE UNCHANGED allVars
  BY <1>5, WholeInvariant DEF allVars
<1> QED
  BY <1>1, <1>2, <1>3, <1>4, <1>5 DEF BuildNext

-----------------------------------------------------------------------------
LEMMA CallStepBuilds ==
    ASSUME Inv, Inv', BInv, NEW c \in Calls, CallStep(c)
    PROVE  BInv'
<1>1. /\ stage' = stage /\ answered' = answered
      /\ succeeded \subseteq succeeded' /\ succeeded' \subseteq succeeded \cup {c}
      /\ c \in succeeded' \ succeeded => Reported(c) /\ pc[c] # "done"
      /\ existing' \subseteq existing \cup {b \in Builds : c = Blank[b]}
      /\ existing' \in SUBSET Builds
  BY DEF CallStep, Satisfied, Call, Register, AddListener, Change, Look, Wait, Expire,
         Resume, Leave, RemoveListener, Unregister, Free, UnlockFreed, Goto, BInv,
         BuildTypeOK
<1>2. /\ \A b \in Builds : c = Blank[b] => stage[b] = "blank"
      /\ \A b \in Builds : c = Sub[b] => stage[b] = "sub"
  BY DEF CallStep, Due
<1>3. present' = present /\ \A d \in Calls \ {c} : pc'[d] = pc[d]
  BY DEF CallStep, Call, Register, AddListener, Change, Look, Wait, Expire,
         Resume, Leave, RemoveListener, Unregister, Free, UnlockFreed, Goto, Inv, IInv,
         TypeOK
<1>4. \A a \in Addresses : value'[a] \in {value[a], NoOne}
  BY DEF CallStep, Call, Register, AddListener, Change, Look, Wait, Expire,
         Resume, RemoveListener, Unregister, Free, UnlockFreed, Inv, IInv, TypeOK
<1>5. BuildTypeOK'
  BY <1>1 DEF BInv, BuildTypeOK, Inv, IInv
<1>6. Stage'
  BY <1>1, <1>2, <1>3, BuildsAssumption DEF BInv, Stage, Configuring
<1>7. Seen'
  <2>1. ASSUME c \in succeeded', Kind[c] = "blank" PROVE c \in present
    BY <1>1, <2>1 DEF Reported, BInv, Seen
  <2>2. ASSUME c \in succeeded', Kind[c] = "sub" PROVE c \in answered
    <3>1. CASE c \in succeeded
      BY <2>2, <3>1 DEF BInv, Seen
    <3>2. CASE c \notin succeeded
      <4>1. Reported(c)
        BY <1>1, <2>2, <3>2
      <4>2. value[addr[c]] = c
        BY <2>2, <4>1 DEF Reported
      <4>3. addr[c] \in Addresses
        <5>1. pc[c] # "start"
          BY <1>1, <2>2, <3>2 DEF CallStep, Satisfied, Call, Register, AddListener, Change,
             Look, Wait, Expire, Resume, RemoveListener, Unregister, Free, UnlockFreed,
             Goto, Inv, IInv, TypeOK
        <5> QED
          BY <5>1 DEF Inv, IInv, TypeOK
      <4> QED
        BY <4>2, <4>3 DEF BInv, Seen
    <3> QED
      BY <3>1, <3>2
  <2>3. \A a \in Addresses : value'[a] \in Calls => value'[a] \in answered
    BY <1>4, CallsAssumption DEF BInv, Seen
  <2> QED
    BY <1>1, <1>3, <2>1, <2>2, <2>3 DEF BInv, Seen
<1>8. OnlyTimeoutLeaks'
  BY <1>1, <1>2, BuildsAssumption DEF BInv, OnlyTimeoutLeaks
<1> QED
  BY <1>5, <1>6, <1>7, <1>8 DEF BInv

LEMMA CallbackStepBuilds ==
    ASSUME Inv, Inv', BInv, NEW h \in HalThreads, CallbackStep(h)
    PROVE  BInv'
<1>1. /\ UNCHANGED <<stage, existing, succeeded, present>>
      /\ answered \subseteq answered'
      /\ \A d \in Calls : pc[d] = "done" => pc'[d] = "done"
  BY DEF CallbackStep, Callback, Enter, LockPair, Report, Inv, IInv, TypeOK
<1>2. hal[h].at = "pair" => hal[h].of[1] \in Calls
  BY DEF Inv, IInv, TypeOK, HalStates, Listeners
<1>3. answered' \in SUBSET Calls
  BY <1>2 DEF CallbackStep, BInv, BuildTypeOK
<1>4. \A a \in Addresses :
          value'[a] = value[a] \/ (value'[a] = hal[h].of[1] /\ hal[h].at = "pair")
  BY DEF CallbackStep, Callback, Enter, LockPair, Report, Inv, IInv, TypeOK
<1>5. hal[h].at = "pair" => hal[h].of[1] \in answered'
  BY DEF CallbackStep
<1>6. BuildTypeOK'
  BY <1>1, <1>3 DEF BInv, BuildTypeOK, Inv, IInv
<1>7. Stage'
  BY <1>1, BuildsAssumption DEF BInv, Stage
<1>8. Seen'
  BY <1>1, <1>4, <1>5 DEF BInv, Seen
<1>9. OnlyTimeoutLeaks'
  BY <1>1 DEF BInv, OnlyTimeoutLeaks
<1> QED
  BY <1>6, <1>7, <1>8, <1>9 DEF BInv

LEMMA BuildStepBuilds ==
    ASSUME Inv, Inv', BInv, NEW b \in Builds, BuildStep(b)
    PROVE  BInv'
<1>1. /\ UNCHANGED <<pc, value, present, succeeded, answered>>
      /\ existing' \subseteq existing
      /\ \A d \in Builds \ {b} : stage'[d] = stage[d]
  BY DEF BuildStep, Locate, BlankReturns, SubReturns, SetMasterDevice,
         ActivateDriftCompensation, WorkaroundForAirpod, Try, Cleanup, DropDevice,
         Advance, vars, BInv, BuildTypeOK
<1>2. /\ stage' \in [Builds -> Stages]
      /\ \/ stage[b] = "start" /\ stage'[b] \in {"blank", "failed"}
         \/ stage[b] = "blank" /\ stage'[b] = "sub" /\ Blank[b] \in succeeded
         \/ stage[b] = "blank" /\ stage'[b] = "failed" /\ Blank[b] \notin succeeded
         \/ /\ stage[b] = "sub" /\ pc[Sub[b]] = "done"
            /\ stage'[b] = IF Sub[b] \in succeeded THEN "master" ELSE "cleanup"
         \/ stage[b] \in Configuring /\ stage'[b] \in Configuring \cup {"built", "cleanup"}
         \/ stage[b] = "cleanup" /\ stage'[b] = "failed" /\ b \notin existing'
         \/ stage[b] = "built" /\ stage'[b] = "dropped"
  BY DEF BuildStep, Locate, BlankReturns, SubReturns, SetMasterDevice,
         ActivateDriftCompensation, WorkaroundForAirpod, Try, Cleanup, DropDevice,
         Advance, BInv, BuildTypeOK, Stages, Configuring
<1>3. BuildTypeOK'
  BY <1>1, <1>2 DEF BInv, BuildTypeOK, Inv, IInv
<1>4. Stage'
  BY <1>1, <1>2 DEF BInv, Stage, Configuring
<1>5. Seen'
  BY <1>1 DEF BInv, Seen
<1>6. OnlyTimeoutLeaks'
  BY <1>1, <1>2 DEF BInv, Stage, Configuring, OnlyTimeoutLeaks
<1> QED
  BY <1>3, <1>4, <1>5, <1>6 DEF BInv

LEMMA SystemStepBuilds ==
    ASSUME Inv', BInv, SystemStep \/ UNCHANGED allVars
    PROVE  BInv'
<1>1. UNCHANGED <<building, pc, value>> /\ present \subseteq present'
  BY DEF SystemStep, Appear, Notify, allVars, vars
<1> QED
  BY <1>1 DEF building, BInv, BuildTypeOK, Stage, Seen, OnlyTimeoutLeaks, Inv, IInv

LEMMA BuildInvariance == BuildSpec => [](Inv /\ BInv)
<1>1. BuildInit => Inv /\ BInv
  BY WholeInvariant, CallsAssumption
     DEF BuildInit, Init, BInv, BuildTypeOK, Stage, Seen, OnlyTimeoutLeaks, Stages, Configuring, Inv,
         IInv
<1>2. Inv /\ BInv /\ [BuildNext]_allVars => Inv' /\ BInv'
  BY BuildKeeps, CallStepBuilds, CallbackStepBuilds, BuildStepBuilds, SystemStepBuilds
     DEF BuildNext
<1> QED
  BY <1>1, <1>2, PTL DEF BuildSpec

(* Whatever late callbacks of other calls write into the memory a build waits  *)
(* on, new only returns a device the system has reported, twice.               *)
THEOREM BuiltIsReported == BuildSpec => []BuiltMeansReported
<1>1. BInv => BuiltMeansReported
  BY BuildsAssumption DEF BInv, Stage, Seen, BuiltMeansReported, Configuring
<1> QED
  BY <1>1, BuildInvariance, PTL

(* A build that fails after its device was reported has destroyed it. *)
THEOREM FailureCleansUp == BuildSpec => []OnlyTimeoutLeaks
BY BuildInvariance, PTL DEF BInv

(* What holds of the calls holds of those the builds make, although destroying *)
(* a device takes listeners away.                                              *)
THEOREM BuildsUseCallsSafely ==
    BuildSpec => [](CallbackFindsPair /\ OnlySubDropsLocked /\ NoLostWakeup)
<1>1. Inv => CallbackFindsPair /\ OnlySubDropsLocked /\ NoLostWakeup
  BY SubDrops, Wakes DEF Inv, IInv
<1> QED
  BY <1>1, BuildInvariance, PTL
=============================================================================
