------------------------- MODULE DispatchQueueProof -------------------------
(* The queues keep their contract for any threads, queues and closures.       *)
EXTENDS DispatchQueue, TLAPS

(* should_cancel of a queue says that its final work has been performed. *)
ClosedByFinal ==
    \A q \in Queues : shouldCancel[q] <=> \E f \in Performed(q) : kind[f] = "final"

IInv == TypeOK /\ InPlace /\ ClosedByFinal /\ NothingRunsAfterFinal /\ NoneOnlyAfterFinal

LEMMA InitInvariant == Init => IInv
<1> SUFFICES ASSUME Init PROVE IInv
  OBVIOUS
<1>1. TypeOK
  <2>1. (CHOOSE q \in Queues : TRUE) \in Queues
    BY QueuesAssumption
  <2>2. queue \in [Tasks -> Queues]
    BY <2>1 DEF Init
  <2>3. running \in Tasks \cup {NoTask} /\ \A t \in Tasks : running # t
    BY NoTaskAssumption DEF Init
  <2>4. fifo \in [Queues -> Seq(Tasks)]
    BY DEF Init
  <2> QED
    BY <2>2, <2>3, <2>4 DEF Init, TypeOK, States, Kinds
<1>2. InPlace
  BY DEF Init, InPlace
<1> QED
  BY <1>1, <1>2 DEF Init, IInv, ClosedByFinal, NothingRunsAfterFinal,
                    NoneOnlyAfterFinal, Performed

-----------------------------------------------------------------------------
(* A closure joins the end of a queue: it has been in none.  *)
LEMMA Join ==
    ASSUME TypeOK, InPlace, NEW q \in Queues, NEW t \in Tasks,
           state[t] \in {"new", "delayed"},
           state' = [state EXCEPT ![t] = "queued"],
           queue' = [queue EXCEPT ![t] = q],
           fifo' = [fifo EXCEPT ![q] = Append(@, t)]
    PROVE  InPlace'
<1>1. /\ fifo'[q] = Append(fifo[q], t)
      /\ \A p \in Queues \ {q} : fifo'[p] = fifo[p]
      /\ \A p \in Queues : fifo[p] \in Seq(Tasks)
  BY DEF TypeOK
<1>2. /\ state'[t] = "queued" /\ queue'[t] = q
      /\ \A s \in Tasks \ {t} : state'[s] = state[s] /\ queue'[s] = queue[s]
  BY DEF TypeOK
<1>3. \A p \in Queues : \A i \in DOMAIN fifo[p] :
          fifo[p][i] \in Tasks \ {t} /\ queue[fifo[p][i]] = p /\ state[fifo[p][i]] = "queued"
  BY <1>1 DEF InPlace
<1>4. /\ Len(fifo[q]) \in Nat
      /\ DOMAIN fifo[q] = 1..Len(fifo[q]) /\ DOMAIN fifo'[q] = 1..(Len(fifo[q]) + 1)
      /\ fifo'[q][Len(fifo[q]) + 1] = t
      /\ \A i \in DOMAIN fifo[q] : fifo'[q][i] = fifo[q][i]
  BY <1>1
<1>5. \A i \in DOMAIN fifo'[q] : i \in DOMAIN fifo[q] \/ i = Len(fifo[q]) + 1
  BY <1>4
<1>6. ASSUME NEW s \in Tasks, state'[s] = "queued"
      PROVE  \E i \in DOMAIN fifo'[queue'[s]] : fifo'[queue'[s]][i] = s
  <2>1. CASE s = t
    <3>1. Len(fifo[q]) + 1 \in DOMAIN fifo'[q]
      BY <1>4
    <3> QED
      BY <2>1, <3>1, <1>2, <1>4
  <2>2. CASE s # t
    <3>1. PICK i \in DOMAIN fifo[queue[s]] : fifo[queue[s]][i] = s
      BY <1>2, <1>6, <2>2 DEF InPlace
    <3>2. queue[s] \in Queues /\ queue'[s] = queue[s]
      BY <1>2, <2>2 DEF TypeOK
    <3>3. CASE queue[s] = q
      <4>1. i \in DOMAIN fifo'[q]
        BY <3>1, <3>3, <1>4
      <4> QED
        BY <3>1, <3>2, <3>3, <4>1, <1>4
    <3>4. CASE queue[s] # q
      BY <3>1, <3>2, <3>4, <1>1
    <3> QED
      BY <3>3, <3>4
  <2> QED
    BY <2>1, <2>2
<1>7. ASSUME NEW p \in Queues, NEW i \in DOMAIN fifo'[p], NEW j \in DOMAIN fifo'[p]
      PROVE  /\ state'[fifo'[p][i]] = "queued"
             /\ queue'[fifo'[p][i]] = p
             /\ fifo'[p][i] = fifo'[p][j] => i = j
  <2>1. CASE p = q
    BY <1>2, <1>3, <1>4, <1>5, <2>1 DEF InPlace
  <2>2. CASE p # q
    BY <1>1, <1>2, <1>3, <2>2 DEF InPlace
  <2> QED
    BY <2>1, <2>2
<1> QED
  BY <1>6, <1>7 DEF InPlace

(* The first closure leaves its queue. *)
LEMMA Leave ==
    ASSUME TypeOK, InPlace, NEW q \in Queues, fifo[q] # <<>>,
           NEW s \in {"running", "skipped"},
           state' = [state EXCEPT ![Head(fifo[q])] = s],
           UNCHANGED queue,
           fifo' = [fifo EXCEPT ![q] = Tail(@)]
    PROVE  InPlace'
<1> DEFINE t == Head(fifo[q])
<1>1. /\ fifo[q] \in Seq(Tasks) /\ Len(fifo[q]) \in Nat /\ Len(fifo[q]) # 0
      /\ t = fifo[q][1] /\ t \in Tasks /\ 1 \in DOMAIN fifo[q]
      /\ DOMAIN fifo[q] = 1..Len(fifo[q]) /\ DOMAIN Tail(fifo[q]) = 1..(Len(fifo[q]) - 1)
      /\ \A i \in DOMAIN Tail(fifo[q]) : Tail(fifo[q])[i] = fifo[q][i + 1]
  BY DEF TypeOK
<1>2. /\ fifo'[q] = Tail(fifo[q])
      /\ \A p \in Queues \ {q} : fifo'[p] = fifo[p]
      /\ \A p \in Queues : fifo[p] \in Seq(Tasks)
  BY DEF TypeOK
<1>3. /\ state'[t] = s /\ state[t] = "queued" /\ queue[t] = q
      /\ \A r \in Tasks \ {t} : state'[r] = state[r]
  <2>1. state[fifo[q][1]] = "queued" /\ queue[fifo[q][1]] = q
    BY <1>1 DEF InPlace
  <2>2. state' = [state EXCEPT ![t] = s] /\ t \in Tasks
    BY <1>1
  <2>3. state[t] = "queued" /\ queue[t] = q
    BY <1>1, <2>1
  <2> HIDE DEF t
  <2> QED
    BY <2>2, <2>3 DEF TypeOK
<1>4. \A p \in Queues : \A i \in DOMAIN fifo[p] : fifo[p][i] \in Tasks
  BY <1>2
<1>5. \A i \in DOMAIN fifo'[q] : i + 1 \in DOMAIN fifo[q] /\ i + 1 # 1 /\ i \in Nat
  <2>1. DOMAIN fifo'[q] = 1..(Len(fifo[q]) - 1)
    BY <1>1, <1>2
  <2> QED
    BY <1>1, <2>1
<1>6. \A i \in DOMAIN fifo[q] : i # 1 => i - 1 \in DOMAIN fifo'[q] /\ (i - 1) + 1 = i
  BY <1>1, <1>2
<1>7. ASSUME NEW r \in Tasks, state'[r] = "queued"
      PROVE  \E i \in DOMAIN fifo'[queue'[r]] : fifo'[queue'[r]][i] = r
  <2>1. r # t /\ state[r] = "queued" /\ queue'[r] = queue[r] /\ queue[r] \in Queues
    BY <1>3, <1>7 DEF TypeOK
  <2>2. PICK i \in DOMAIN fifo[queue[r]] : fifo[queue[r]][i] = r
    BY <2>1 DEF InPlace
  <2>3. CASE queue[r] = q
    <3>1. i # 1
      BY <1>1, <2>1, <2>2, <2>3
    <3>2. i - 1 \in DOMAIN fifo'[q] /\ (i - 1) + 1 = i
      BY <3>1, <1>6, <2>2, <2>3
    <3>3. fifo'[q][i - 1] = fifo[q][(i - 1) + 1]
      BY <3>2, <1>1, <1>2
    <3> QED
      BY <2>1, <2>2, <2>3, <3>2, <3>3
  <2>4. CASE queue[r] # q
    BY <1>2, <2>1, <2>2, <2>4
  <2> QED
    BY <2>3, <2>4
<1>8. ASSUME NEW p \in Queues, NEW i \in DOMAIN fifo'[p], NEW j \in DOMAIN fifo'[p]
      PROVE  /\ state'[fifo'[p][i]] = "queued"
             /\ queue'[fifo'[p][i]] = p
             /\ fifo'[p][i] = fifo'[p][j] => i = j
  <2>1. CASE p = q
    <3>1. /\ fifo'[q][i] = fifo[q][i + 1] /\ fifo'[q][j] = fifo[q][j + 1]
          /\ i + 1 \in DOMAIN fifo[q] /\ j + 1 \in DOMAIN fifo[q] /\ i + 1 # 1
      BY <1>1, <1>2, <1>5, <1>8, <2>1
    <3>2. fifo[q][i + 1] # t
      BY <1>1, <3>1 DEF InPlace
    <3>3. fifo[q][i + 1] = fifo[q][j + 1] => i = j
      <4>1. fifo[q][i + 1] = fifo[q][j + 1] => i + 1 = j + 1
        BY <3>1 DEF InPlace
      <4> QED
        BY <4>1, <1>5, <1>8, <2>1
    <3> QED
      BY <1>3, <1>4, <2>1, <3>1, <3>2, <3>3 DEF InPlace
  <2>2. CASE p # q
    <3>1. fifo'[p] = fifo[p] /\ fifo[p][i] \in Tasks /\ queue[fifo[p][i]] = p
      BY <1>2, <1>4, <2>2, <1>8 DEF InPlace
    <3> QED
      BY <1>3, <1>8, <2>2, <3>1 DEF InPlace
  <2> QED
    BY <2>1, <2>2
<1> QED
  BY <1>7, <1>8 DEF InPlace

-----------------------------------------------------------------------------
(* What the singleton queue finds at the head of a queue. *)
LEMMA HeadQueued ==
    ASSUME TypeOK, InPlace, NEW q \in Queues, fifo[q] # <<>>
    PROVE  /\ Head(fifo[q]) \in Tasks
           /\ state[Head(fifo[q])] = "queued"
           /\ queue[Head(fifo[q])] = q
<1>1. /\ fifo[q] \in Seq(Tasks) /\ Head(fifo[q]) = fifo[q][1]
      /\ 1 \in DOMAIN fifo[q] /\ fifo[q][1] \in Tasks
  BY DEF TypeOK
<1>2. state[fifo[q][1]] = "queued" /\ queue[fifo[q][1]] = q
  BY <1>1 DEF InPlace
<1> QED
  BY <1>1, <1>2

(* What a step that enqueues does to types. *)
LEMMA EnqueueType ==
    ASSUME TypeOK, NEW q \in Queues, NEW t \in Tasks, NEW k \in Kinds,
           Enqueue(q, t, k), UNCHANGED <<delayed, running, shouldCancel>>,
           waiting' \in [Threads -> Tasks \cup {NoTask}]
    PROVE  TypeOK'
<1>1. fifo' \in [Queues -> Seq(Tasks)]
  BY DEF TypeOK, Enqueue
<1>2. state' \in [Tasks -> States] /\ kind' \in [Tasks -> Kinds] /\ queue' \in [Tasks -> Queues]
  BY DEF TypeOK, Enqueue, States
<1>3. state[t] = "new" /\ state'[t] = "queued" /\ \A s \in Tasks \ {t} : state'[s] = state[s]
  BY DEF TypeOK, Enqueue
<1> QED
  BY <1>1, <1>2, <1>3 DEF TypeOK

LEMMA TypeStep == TypeOK /\ InPlace /\ [Next]_vars => TypeOK'
<1> SUFFICES ASSUME TypeOK, InPlace, [Next]_vars PROVE TypeOK'
  OBVIOUS
<1>1. ASSUME NEW c \in Threads, NEW q \in Queues, NEW t \in Tasks, RunAsync(c, q, t)
      PROVE  TypeOK'
  BY <1>1, EnqueueType DEF RunAsync, Kinds, TypeOK
<1>2. ASSUME NEW c \in Threads, NEW q \in Queues, NEW t \in Tasks, RunSync(c, q, t)
      PROVE  TypeOK'
  BY <1>2, EnqueueType DEF RunSync, Kinds, TypeOK
<1>3. ASSUME NEW c \in Threads, NEW q \in Queues, NEW t \in Tasks, RunFinal(c, q, t)
      PROVE  TypeOK'
  BY <1>3, EnqueueType DEF RunFinal, Kinds, TypeOK
<1>4. ASSUME NEW c \in Threads, NEW q \in Queues, NEW t \in Tasks, RunAfter(c, q, t)
      PROVE  TypeOK'
  <2>1. state[t] = "new" /\ state'[t] = "delayed" /\ \A s \in Tasks \ {t} : state'[s] = state[s]
    BY <1>4 DEF RunAfter, TypeOK
  <2>2. delayed' = {s \in Tasks : state'[s] = "delayed"}
    BY <1>4, <2>1 DEF RunAfter, TypeOK
  <2> QED
    BY <1>4, <2>1, <2>2 DEF RunAfter, TypeOK, States, Kinds
<1>5. ASSUME NEW t \in Tasks, Due(t) PROVE TypeOK'
  <2>1. state[t] = "delayed" /\ state'[t] = "queued" /\ \A s \in Tasks \ {t} : state'[s] = state[s]
    BY <1>5 DEF Due, TypeOK
  <2>2. delayed' = {s \in Tasks : state'[s] = "delayed"}
    BY <1>5, <2>1 DEF Due, TypeOK
  <2>3. fifo' \in [Queues -> Seq(Tasks)]
    BY <1>5 DEF Due, TypeOK
  <2> QED
    BY <1>5, <2>1, <2>2, <2>3 DEF Due, TypeOK, States
<1>6. ASSUME NEW q \in Queues, Begin(q) PROVE TypeOK'
  <2> DEFINE t == Head(fifo[q])
  <2>1. t \in Tasks /\ state[t] = "queued"
    BY <1>6, HeadQueued DEF Begin
  <2>2. fifo' \in [Queues -> Seq(Tasks)]
    BY <1>6 DEF Begin, TypeOK
  <2>3. PICK s \in {"skipped", "running"} :
            /\ state' = [state EXCEPT ![t] = s]
            /\ running' = IF s = "running" THEN t ELSE NoTask
    BY <1>6 DEF Begin
  <2>4. running = NoTask /\ UNCHANGED <<delayed, kind, queue, shouldCancel, waiting>>
    BY <1>6 DEF Begin
  <2> HIDE DEF t
  <2>5. state'[t] = s /\ \A r \in Tasks \ {t} : state'[r] = state[r]
    BY <2>1, <2>3 DEF TypeOK
  <2>6. \A r \in Tasks : state[r] # "running"
    BY <2>4, NoTaskAssumption DEF TypeOK
  <2>7. \A r \in Tasks : state'[r] = "running" <=> running' = r
    BY <2>1, <2>3, <2>5, <2>6, NoTaskAssumption
  <2>8. delayed' = {r \in Tasks : state'[r] = "delayed"}
    BY <2>1, <2>4, <2>5 DEF TypeOK
  <2> QED
    BY <2>1, <2>2, <2>3, <2>4, <2>7, <2>8 DEF TypeOK, States
<1>7. CASE End
  <2>1. /\ running \in Tasks /\ state[running] = "running"
        /\ state'[running] = "performed"
        /\ \A s \in Tasks \ {running} : state'[s] = state[s] /\ state[s] # "running"
    BY <1>7 DEF End, TypeOK
  <2>2. running' = NoTask /\ \A s \in Tasks : state'[s] # "running"
    BY <1>7, <2>1 DEF End
  <2>3. delayed' = {r \in Tasks : state'[r] = "delayed"}
    BY <1>7, <2>1 DEF End, TypeOK
  <2>4. shouldCancel' \in [Queues -> BOOLEAN]
    BY <1>7 DEF End, TypeOK
  <2> QED
    BY <1>7, <2>2, <2>3, <2>4, NoTaskAssumption DEF End, TypeOK, States
<1>8. ASSUME NEW c \in Threads, Return(c) PROVE TypeOK'
  BY <1>8 DEF Return, TypeOK
<1>9. CASE UNCHANGED vars
  BY <1>9 DEF vars, TypeOK
<1> QED
  BY <1>1, <1>2, <1>3, <1>4, <1>5, <1>6, <1>7, <1>8, <1>9 DEF Next, Submit

LEMMA InPlaceStep == TypeOK /\ InPlace /\ [Next]_vars => InPlace'
<1> SUFFICES ASSUME TypeOK, InPlace, [Next]_vars PROVE InPlace'
  OBVIOUS
<1>1. ASSUME NEW q \in Queues, NEW t \in Tasks, NEW k \in Kinds, Enqueue(q, t, k)
      PROVE  InPlace'
  BY <1>1, Join DEF Enqueue
<1>2. ASSUME NEW c \in Threads, NEW q \in Queues, NEW t \in Tasks, RunAfter(c, q, t)
      PROVE  InPlace'
  <2>1. /\ state[t] = "new" /\ state'[t] = "delayed" /\ fifo' = fifo
        /\ \A s \in Tasks \ {t} : state'[s] = state[s] /\ queue'[s] = queue[s]
    BY <1>2 DEF RunAfter, TypeOK
  <2>2. \A p \in Queues : \A i \in DOMAIN fifo[p] : fifo[p][i] \in Tasks \ {t}
    <3>1. \A p \in Queues : fifo[p] \in Seq(Tasks)
      BY DEF TypeOK
    <3> QED
      BY <2>1, <3>1 DEF InPlace
  <2>3. \A s \in Tasks : state'[s] = "queued" => s # t
    BY <2>1
  <2> QED
    BY <2>1, <2>2, <2>3 DEF InPlace
<1>3. ASSUME NEW t \in Tasks, Due(t) PROVE InPlace'
  <2>1. state[t] = "delayed" /\ queue[t] \in Queues
    BY <1>3 DEF Due, TypeOK
  <2>2. queue' = [queue EXCEPT ![t] = queue[t]]
    BY <1>3 DEF Due, TypeOK
  <2> QED
    BY <1>3, <2>1, <2>2, Join DEF Due
<1>4. ASSUME NEW q \in Queues, Begin(q) PROVE InPlace'
  BY <1>4, Leave DEF Begin
<1>5. CASE End
  <2>1. /\ running \in Tasks /\ state[running] = "running"
        /\ state'[running] = "performed" /\ fifo' = fifo /\ queue' = queue
        /\ \A s \in Tasks \ {running} : state'[s] = state[s]
    BY <1>5 DEF End, TypeOK
  <2>2. \A p \in Queues : \A i \in DOMAIN fifo[p] : fifo[p][i] \in Tasks \ {running}
    <3>1. \A p \in Queues : fifo[p] \in Seq(Tasks)
      BY DEF TypeOK
    <3> QED
      BY <2>1, <3>1 DEF InPlace
  <2> QED
    BY <2>1, <2>2 DEF InPlace
<1>6. ASSUME NEW c \in Threads, Return(c) PROVE InPlace'
  BY <1>6 DEF Return, InPlace
<1>7. CASE UNCHANGED vars
  BY <1>7 DEF vars, InPlace
<1> QED
  BY <1>1, <1>2, <1>3, <1>4, <1>5, <1>6, <1>7
     DEF Next, Submit, RunAsync, RunSync, RunFinal, Kinds

-----------------------------------------------------------------------------
(* A closure that has been executed, or is being executed. *)
Executed == {"running", "performed", "skipped"}

(* A step that only hands closures over, or answers a caller. *)
HandsOver ==
    /\ UNCHANGED shouldCancel
    /\ \A s \in Tasks :
          state[s] \in Executed \/ state'[s] \in Executed =>
              state'[s] = state[s] /\ kind'[s] = kind[s] /\ queue'[s] = queue[s]

(* A step that begins, or skips, the closure t of q. *)
Begins(q, t) ==
    /\ state[t] = "queued" /\ queue[t] = q
    /\ state' = [state EXCEPT ![t] = IF Cancelled(t) THEN "skipped" ELSE "running"]
    /\ UNCHANGED <<kind, queue, shouldCancel>>

(* A step that ends the closure t. *)
Ends(t) ==
    /\ state[t] = "running" /\ running = t
    /\ state' = [state EXCEPT ![t] = "performed"]
    /\ shouldCancel' = IF kind[t] = "final"
                         THEN [shouldCancel EXCEPT ![queue[t]] = TRUE]
                         ELSE shouldCancel
    /\ UNCHANGED <<kind, queue>>

LEMMA StepKinds ==
    ASSUME TypeOK, InPlace, [Next]_vars
    PROVE  \/ HandsOver
           \/ \E q \in Queues, t \in Tasks : Begins(q, t)
           \/ \E t \in Tasks : Ends(t)
<1>1. ASSUME NEW q \in Queues, NEW t \in Tasks, NEW k \in Kinds, Enqueue(q, t, k),
             UNCHANGED shouldCancel
      PROVE  HandsOver
  BY <1>1 DEF Enqueue, HandsOver, Executed, TypeOK
<1>2. ASSUME NEW c \in Threads, NEW q \in Queues, NEW t \in Tasks, RunAfter(c, q, t)
      PROVE  HandsOver
  BY <1>2 DEF RunAfter, HandsOver, Executed, TypeOK
<1>3. ASSUME NEW t \in Tasks, Due(t) PROVE HandsOver
  BY <1>3 DEF Due, HandsOver, Executed, TypeOK
<1>4. ASSUME NEW q \in Queues, Begin(q)
      PROVE  \E t \in Tasks : Begins(q, t)
  BY <1>4, HeadQueued DEF Begin, Begins
<1>5. CASE End
  BY <1>5 DEF End, Ends, TypeOK
<1>6. ASSUME NEW c \in Threads, Return(c) PROVE HandsOver
  BY <1>6 DEF Return, HandsOver
<1>7. CASE UNCHANGED vars
  BY <1>7 DEF vars, HandsOver
<1> QED
  BY <1>1, <1>2, <1>3, <1>4, <1>5, <1>6, <1>7
     DEF Next, Submit, RunAsync, RunSync, RunFinal, Kinds

LEMMA CancelStep ==
    ASSUME IInv, [Next]_vars
    PROVE  ClosedByFinal' /\ NothingRunsAfterFinal' /\ NoneOnlyAfterFinal'
<1> USE DEF IInv
<1>1. CASE HandsOver
  <2>1. \A q \in Queues : Performed(q)' = Performed(q)
    BY <1>1 DEF HandsOver, Executed, Performed
  <2>2. \A q \in Queues : \A f \in Performed(q) : kind'[f] = kind[f]
    BY <1>1 DEF HandsOver, Executed, Performed
  <2>3. \A s \in Tasks : state'[s] \in {"running", "skipped"} =>
            state'[s] = state[s] /\ kind'[s] = kind[s] /\ queue'[s] = queue[s]
    BY <1>1 DEF HandsOver, Executed
  <2>4. ClosedByFinal'
    BY <1>1, <2>1, <2>2 DEF HandsOver, ClosedByFinal
  <2>5. NothingRunsAfterFinal'
    BY <2>1, <2>2, <2>3 DEF NothingRunsAfterFinal, TypeOK
  <2>6. NoneOnlyAfterFinal'
    <3> SUFFICES ASSUME NEW s \in Tasks, state'[s] = "skipped"
                 PROVE  \E f \in Performed(queue[s])' : kind'[f] = "final"
      BY DEF NoneOnlyAfterFinal
    <3>1. state[s] = "skipped" /\ queue'[s] = queue[s] /\ queue[s] \in Queues
      BY <2>3 DEF TypeOK
    <3>2. PICK f \in Performed(queue[s]) : kind[f] = "final"
      BY <3>1 DEF NoneOnlyAfterFinal
    <3>3. f \in Performed(queue[s])'
      BY <1>1, <3>1, <3>2 DEF HandsOver, Executed, Performed
    <3> QED
      BY <2>2, <3>1, <3>2, <3>3
  <2> QED
    BY <2>4, <2>5, <2>6
<1>2. ASSUME NEW q \in Queues, NEW t \in Tasks, Begins(q, t)
      PROVE  ClosedByFinal' /\ NothingRunsAfterFinal' /\ NoneOnlyAfterFinal'
  <2>1. /\ kind' = kind /\ queue' = queue /\ shouldCancel' = shouldCancel
        /\ state[t] = "queued" /\ queue[t] = q
        /\ state'[t] = IF Cancelled(t) THEN "skipped" ELSE "running"
        /\ \A s \in Tasks \ {t} : state'[s] = state[s]
    BY <1>2 DEF Begins, TypeOK
  <2>2. \A p \in Queues : Performed(p)' = Performed(p)
    BY <2>1 DEF Performed
  <2>3. ClosedByFinal'
    BY <2>1, <2>2 DEF ClosedByFinal
  <2>4. Cancelled(t) => \E f \in Performed(q) : kind[f] = "final"
    BY <2>1 DEF Cancelled, ClosedByFinal
  <2>5. ~Cancelled(t) /\ kind[t] # "final" => \A f \in Performed(q) : kind[f] # "final"
    BY <2>1 DEF Cancelled, ClosedByFinal
  <2>6. NothingRunsAfterFinal'
    BY <2>1, <2>2, <2>5 DEF NothingRunsAfterFinal, TypeOK
  <2>7. NoneOnlyAfterFinal'
    <3> SUFFICES ASSUME NEW s \in Tasks, state'[s] = "skipped"
                 PROVE  \E f \in Performed(queue[s])' : kind'[f] = "final"
      BY DEF NoneOnlyAfterFinal
    <3>1. PICK f \in Performed(queue[s]) : kind[f] = "final"
      BY <2>1, <2>4 DEF NoneOnlyAfterFinal
    <3>2. f \in Performed(queue[s])'
      BY <2>1, <3>1 DEF Performed
    <3> QED
      BY <2>1, <3>1, <3>2
  <2> QED
    BY <2>3, <2>6, <2>7
<1>3. ASSUME NEW t \in Tasks, Ends(t)
      PROVE  ClosedByFinal' /\ NothingRunsAfterFinal' /\ NoneOnlyAfterFinal'
  <2>1. /\ kind' = kind /\ queue' = queue
        /\ state[t] = "running" /\ state'[t] = "performed"
        /\ \A s \in Tasks \ {t} : state'[s] = state[s] /\ state[s] # "running"
        /\ queue[t] \in Queues
    BY <1>3 DEF Ends, TypeOK
  <2>2. \A p \in Queues : Performed(p)' =
            IF p = queue[t] THEN Performed(p) \cup {t} ELSE Performed(p)
    BY <2>1 DEF Performed
  <2>3. \A p \in Queues : shouldCancel'[p] <=>
            shouldCancel[p] \/ (p = queue[t] /\ kind[t] = "final")
    BY <1>3, <2>1 DEF Ends, TypeOK
  <2>4. ClosedByFinal'
    BY <2>1, <2>2, <2>3 DEF ClosedByFinal
  <2>5. NothingRunsAfterFinal'
    BY <2>1 DEF NothingRunsAfterFinal
  <2>6. \A p \in Queues : Performed(p) \subseteq Performed(p)'
    BY <2>2
  <2>7. NoneOnlyAfterFinal'
    BY <2>1, <2>6 DEF NoneOnlyAfterFinal, TypeOK
  <2> QED
    BY <2>4, <2>5, <2>7
<1> QED
  BY <1>1, <1>2, <1>3, StepKinds

LEMMA Invariance == Spec => []IInv
<1>1. IInv /\ [Next]_vars => IInv'
  BY TypeStep, InPlaceStep, CancelStep DEF IInv
<1> QED
  BY <1>1, InitInvariant, PTL DEF Spec

(* Types, and that a closure is delayed or running exactly when its state says *)
(* so.                                                                         *)
THEOREM TypeCorrect == Spec => []TypeOK
BY Invariance, PTL DEF IInv

(* A closure handed to a queue stays in it, once, until it is executed. *)
THEOREM NothingLost == Spec => []InPlace
BY Invariance, PTL DEF IInv

(* After run_final no other work of its queue is in progress. *)
THEOREM FinalIsFinal == Spec => []NothingRunsAfterFinal
BY Invariance, PTL DEF IInv

(* run_sync answers None only when a final work has been performed before. *)
THEOREM AnsweredBeforeFinal == Spec => []NoneOnlyAfterFinal
BY Invariance, PTL DEF IInv

-----------------------------------------------------------------------------
(* The contract's view of the queues.                                         *)
performing == IF running = NoTask THEN {} ELSE {<<queue[running], running>>}
final == {t \in Tasks : kind[t] = "final" /\ state[t] # "new"}

(* A step that enqueues nothing, begins nothing and ends nothing.             *)
LEMMA SameForContract ==
    ASSUME TypeOK, UNCHANGED <<fifo, running, shouldCancel>>,
           \A t \in Tasks : state[t] # "new" =>
               kind'[t] = kind[t] /\ queue'[t] = queue[t] /\ state'[t] # "new",
           \A t \in Tasks : state[t] = "new" /\ state'[t] # "new" => kind'[t] # "final"
    PROVE  UNCHANGED Contract!cvars
<1>1. final' = final
  BY DEF final
<1>2. running # NoTask => running \in Tasks /\ state[running] = "running"
  BY DEF TypeOK
<1>3. performing' = performing
  BY <1>2 DEF performing
<1> QED
  BY <1>1, <1>3 DEF Contract!cvars, performing, final

(* A closure that has not been in any queue joins q.                          *)
LEMMA HandsOverOne ==
    ASSUME TypeOK, NEW q \in Queues, NEW t \in Tasks,
           state[t] \in {"new", "delayed"}, state'[t] = "queued",
           fifo' = [fifo EXCEPT ![q] = Append(@, t)],
           UNCHANGED <<running, shouldCancel>>,
           \A s \in Tasks \ {t} :
               state'[s] = state[s] /\ kind'[s] = kind[s] /\ queue'[s] = queue[s],
           state[t] = "delayed" => kind'[t] = kind[t]
    PROVE  Contract!Next
<1>1. final' \in {final, final \cup {t}}
  <2>1. CASE kind'[t] = "final"
    <3>1. final' = final \cup {t}
      BY <2>1 DEF final
    <3> QED
      BY <3>1
  <2>2. CASE kind'[t] # "final"
    <3>1. final' = final
      BY <2>2 DEF final
    <3> QED
      BY <3>1
  <2> QED
    BY <2>1, <2>2
<1>2. running # t
  BY DEF TypeOK
<1>3. performing' = performing
  BY <1>2 DEF performing, TypeOK
<1>4. Contract!HandOver(q, t)
  BY <1>1, <1>3 DEF Contract!HandOver, performing, final
<1> QED
  BY <1>4 DEF Contract!Next

(* The queues implement the contract: first come, first served, one at a time, *)
(* and nothing but final works on a queue that is closed.                      *)
THEOREM Refinement == Spec => ImplementsContract
<1>1. Init => Contract!Init
  <2> SUFFICES ASSUME Init PROVE Contract!Init
    OBVIOUS
  <2>1. performing = {} /\ final = {}
    BY DEF Init, performing, final
  <2> QED
    BY <2>1 DEF Init, Contract!Init, performing, final
<1>2. ASSUME IInv, [Next]_vars PROVE [Contract!Next]_(Contract!cvars)
  <2> USE <1>2 DEF IInv
  <2>1. ASSUME NEW q \in Queues, NEW t \in Tasks, NEW k \in Kinds,
               Enqueue(q, t, k), UNCHANGED <<running, shouldCancel>>
        PROVE  Contract!Next
    <3>1. /\ state[t] = "new" /\ state'[t] = "queued"
          /\ \A s \in Tasks \ {t} :
                state'[s] = state[s] /\ kind'[s] = kind[s] /\ queue'[s] = queue[s]
      BY <2>1 DEF Enqueue, TypeOK
    <3> QED
      BY <2>1, <3>1, HandsOverOne DEF Enqueue
  <2>2. ASSUME NEW c \in Threads, NEW q \in Queues, NEW t \in Tasks, RunAfter(c, q, t)
        PROVE  UNCHANGED Contract!cvars
    <3>1. /\ state[t] = "new" /\ state'[t] = "delayed" /\ kind'[t] = "after"
          /\ \A s \in Tasks \ {t} :
                state'[s] = state[s] /\ kind'[s] = kind[s] /\ queue'[s] = queue[s]
      BY <2>2 DEF RunAfter, TypeOK
    <3> QED
      BY <2>2, <3>1, SameForContract DEF RunAfter
  <2>3. ASSUME NEW t \in Tasks, Due(t) PROVE Contract!Next
    <3>1. /\ state[t] = "delayed" /\ state'[t] = "queued" /\ queue[t] \in Queues
          /\ kind' = kind /\ queue' = queue
          /\ \A s \in Tasks \ {t} : state'[s] = state[s]
      BY <2>3 DEF Due, TypeOK
    <3> QED
      BY <2>3, <3>1, HandsOverOne DEF Due
  <2>4. ASSUME NEW q \in Queues, Begin(q) PROVE Contract!Next
    <3> DEFINE t == Head(fifo[q])
    <3>1. /\ t \in Tasks /\ state[t] = "queued" /\ queue[t] = q
          /\ running = NoTask /\ performing = {} /\ fifo[q] # <<>>
      BY <2>4, HeadQueued DEF Begin, performing
    <3>2. /\ kind' = kind /\ queue' = queue /\ shouldCancel' = shouldCancel
          /\ fifo' = [fifo EXCEPT ![q] = Tail(@)]
          /\ state' = [state EXCEPT ![t] = IF Cancelled(t) THEN "skipped" ELSE "running"]
          /\ running' = IF Cancelled(t) THEN NoTask ELSE t
      BY <2>4 DEF Begin
    <3>3. t \in final <=> kind[t] = "final"
      BY <3>1 DEF final
    <3>4. Cancelled(t) <=> shouldCancel[q] /\ t \notin final
      BY <3>1, <3>3 DEF Cancelled
    <3>5. final' = final
      <4> HIDE DEF t
      <4>1. /\ state'[t] # "new"
            /\ \A s \in Tasks \ {t} : state'[s] = state[s]
        BY <3>1, <3>2 DEF TypeOK
      <4> QED
        BY <4>1, <3>1, <3>2 DEF final
    <3>6. performing' = IF Cancelled(t) THEN {} ELSE {<<q, t>>}
      <4>1. t # NoTask /\ queue'[t] = q
        BY <3>1, <3>2, NoTaskAssumption
      <4> QED
        BY <4>1, <3>2 DEF performing
    <3>7. CASE Cancelled(t)
      <4>1. Contract!Drop(q)
        BY <3>1, <3>2, <3>4, <3>5, <3>6, <3>7
           DEF Contract!Drop, Contract!Take, performing, final
      <4> QED
        BY <4>1 DEF Contract!Next
    <3>8. CASE ~Cancelled(t)
      <4>1. Contract!Perform(q)
        BY <3>1, <3>2, <3>4, <3>5, <3>6, <3>8
           DEF Contract!Perform, Contract!Take, performing, final
      <4> QED
        BY <4>1 DEF Contract!Next
    <3> QED
      BY <3>7, <3>8
  <2>5. CASE End
    <3>1. /\ running \in Tasks /\ running # NoTask /\ state[running] = "running"
          /\ queue[running] \in Queues
          /\ running' = NoTask /\ kind' = kind /\ queue' = queue /\ fifo' = fifo
          /\ state' = [state EXCEPT ![running] = "performed"]
      BY <2>5 DEF End, TypeOK
    <3>2. /\ performing = {<<queue[running], running>>} /\ performing' = {}
          /\ running \in final <=> kind[running] = "final"
      BY <3>1 DEF performing, final
    <3>3. final' = final
      BY <3>1 DEF final, TypeOK
    <3>4. Contract!Finish(queue[running], running)
      BY <2>5, <3>1, <3>2, <3>3 DEF End, Contract!Finish, performing, final
    <3> QED
      BY <3>1, <3>4 DEF Contract!Next
  <2>6. ASSUME NEW c \in Threads, Return(c) PROVE UNCHANGED Contract!cvars
    BY <2>6, SameForContract DEF Return
  <2>7. CASE UNCHANGED vars
    BY <2>7, SameForContract DEF vars
  <2> QED
    BY <2>1, <2>2, <2>3, <2>4, <2>5, <2>6, <2>7
       DEF Next, Submit, RunAsync, RunSync, RunFinal, Kinds
<1> QED
  BY <1>1, <1>2, Invariance, PTL DEF Spec, Contract!Spec, ImplementsContract

-----------------------------------------------------------------------------
(* A thread waits for a closure it has handed over, which is in its queue, is *)
(* running, or is done with; and no two threads wait for the same one.        *)
WaitsForItsClosure ==
    /\ \A c \in Threads : waiting[c] # NoTask =>
          LET t == waiting[c] IN
          /\ kind[t] \in {"sync", "final"}
          /\ \/ \E i \in DOMAIN fifo[queue[t]] : fifo[queue[t]][i] = t
             \/ running = t
             \/ state[t] \in {"performed", "skipped"}
    /\ \A c, d \in Threads : waiting[c] = waiting[d] /\ waiting[c] # NoTask => c = d

(* The same, in terms that each step keeps.                                   *)
WaitsForHandedOver ==
    /\ \A c \in Threads : waiting[c] # NoTask =>
          state[waiting[c]] \notin {"new", "delayed"} /\ kind[waiting[c]] \in {"sync", "final"}
    /\ \A c, d \in Threads : waiting[c] = waiting[d] /\ waiting[c] # NoTask => c = d

LEMMA WaitsStep == IInv /\ WaitsForHandedOver /\ [Next]_vars => WaitsForHandedOver'
<1> SUFFICES ASSUME IInv, WaitsForHandedOver, [Next]_vars PROVE WaitsForHandedOver'
  OBVIOUS
<1> USE DEF IInv, WaitsForHandedOver
<1>1. ASSUME NEW c \in Threads, NEW q \in Queues, NEW t \in Tasks, NEW k \in {"sync", "final"},
             Enqueue(q, t, k), waiting' = [waiting EXCEPT ![c] = t]
      PROVE  WaitsForHandedOver'
  <2>1. /\ state[t] = "new" /\ state'[t] = "queued" /\ kind'[t] = k
        /\ \A s \in Tasks \ {t} : state'[s] = state[s] /\ kind'[s] = kind[s]
    BY <1>1 DEF Enqueue, TypeOK
  <2>2. waiting'[c] = t /\ \A d \in Threads \ {c} : waiting'[d] = waiting[d] /\ waiting[d] # t
    BY <1>1, <2>1, NoTaskAssumption DEF TypeOK
  <2>3. \A d \in Threads : waiting[d] \in Tasks \cup {NoTask}
    BY DEF TypeOK
  <2> QED
    BY <1>1, <2>1, <2>2, <2>3
<1>2. ASSUME UNCHANGED waiting,
             \A s \in Tasks : state[s] \notin {"new", "delayed"} =>
                 state'[s] \notin {"new", "delayed"} /\ kind'[s] = kind[s]
      PROVE  WaitsForHandedOver'
  BY <1>2 DEF TypeOK
<1>3. ASSUME NEW c \in Threads, Return(c) PROVE WaitsForHandedOver'
  <2>1. /\ waiting'[c] = NoTask /\ \A d \in Threads \ {c} : waiting'[d] = waiting[d]
        /\ UNCHANGED <<state, kind>>
    BY <1>3 DEF Return, TypeOK
  <2> QED
    BY <2>1
<1>4. ASSUME NEW c \in Threads, NEW q \in Queues, NEW t \in Tasks,
             RunAsync(c, q, t) \/ RunAfter(c, q, t)
      PROVE  WaitsForHandedOver'
  BY <1>2, <1>4 DEF RunAsync, RunAfter, Enqueue, TypeOK
<1>5. ASSUME NEW t \in Tasks, Due(t) PROVE WaitsForHandedOver'
  BY <1>2, <1>5 DEF Due, TypeOK
<1>6. ASSUME NEW q \in Queues, Begin(q) PROVE WaitsForHandedOver'
  <2>1. PICK s \in {"running", "skipped"} : state' = [state EXCEPT ![Head(fifo[q])] = s]
    BY <1>6 DEF Begin
  <2> QED
    BY <1>2, <1>6, <2>1, HeadQueued DEF Begin, TypeOK
<1>7. CASE End
  BY <1>2, <1>7 DEF End, TypeOK
<1>8. CASE UNCHANGED vars
  BY <1>2, <1>8 DEF vars
<1> QED
  BY <1>1, <1>3, <1>4, <1>5, <1>6, <1>7, <1>8 DEF Next, Submit, RunSync, RunFinal

(* No caller of run_sync or run_final is forgotten: its closure is neither    *)
(* lost nor answered to another thread.                                       *)
THEOREM NoCallerForgotten == Spec => []WaitsForItsClosure
<1>1. Init => WaitsForHandedOver
  BY DEF Init, WaitsForHandedOver
<1>2. IInv /\ WaitsForHandedOver => WaitsForItsClosure
  <2> SUFFICES ASSUME IInv, WaitsForHandedOver PROVE WaitsForItsClosure
    OBVIOUS
  <2> SUFFICES ASSUME NEW c \in Threads, waiting[c] # NoTask
               PROVE  \/ \E i \in DOMAIN fifo[queue[waiting[c]]] :
                            fifo[queue[waiting[c]]][i] = waiting[c]
                      \/ running = waiting[c]
                      \/ state[waiting[c]] \in {"performed", "skipped"}
    BY DEF WaitsForItsClosure, WaitsForHandedOver
  <2>1. waiting[c] \in Tasks /\ state[waiting[c]] \in States \ {"new", "delayed"}
    BY DEF IInv, TypeOK, WaitsForHandedOver
  <2> QED
    BY <2>1 DEF IInv, TypeOK, InPlace, States
<1> QED
  BY <1>1, <1>2, WaitsStep, Invariance, PTL DEF Spec
=============================================================================
