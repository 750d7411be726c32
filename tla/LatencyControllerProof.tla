----------------------- MODULE LatencyControllerProof -----------------------
(* The streams of a context agree on a latency, however many there are.       *)
EXTENDS LatencyController, FiniteSetTheorems, TLAPS

IInv == TypeOK /\ CountsStreams /\ OneLatency /\ BufferFits

(* The set of counted streams is finite: its cardinality is a number. *)
LEMMA CountedFinite == IsFiniteSet(Counted) /\ (Cardinality(Counted) = 0 <=> Counted = {})
<1>1. IsFiniteSet(Counted)
  BY UsersAssumption, FS_Subset DEF Counted
<1> QED
  BY <1>1, FS_EmptySet

LEMMA ClampIsSafe == ASSUME NEW l \in Nat PROVE Clamp(l) \in Frames
BY DEF Clamp, Frames, SafeMin, SafeMax

LEMMA InitInvariant == Init => IInv
<1> SUFFICES ASSUME Init PROVE IInv
  OBVIOUS
<1>1. Counted = {}
  BY DEF Init, Counted
<1>2. TypeOK
  BY RequestsAssumption DEF Init, TypeOK, States
<1>3. CountsStreams
  BY <1>1, FS_EmptySet DEF Init, CountsStreams
<1> QED
  BY <1>1, <1>2, <1>3 DEF Init, IInv, OneLatency, BufferFits

(* A stream that is counted before and after its step: only BufferFits can be *)
(* disturbed, by a stream that gets to "resized" or "open".                   *)
LEMMA CountedMoves ==
    ASSUME IInv, NEW s \in Users, NEW place \in States \ {"none"},
           pc[s] # "none", pc' = [pc EXCEPT ![s] = place],
           UNCHANGED <<frames, streams, latency>>,
           \/ buffer' = frames[s]
           \/ /\ buffer' = buffer
              /\ place \in {"resized", "open"} => pc[s] \in {"resized", "open"}
    PROVE  IInv'
<1>1. Counted' = Counted /\ s \in Counted
  BY DEF IInv, TypeOK, Counted
<1>2. frames[s] \in Nat /\ \A u \in Counted : frames[u] = frames[s]
  BY <1>1 DEF IInv, OneLatency, Frames, SafeMin, SafeMax
<1>3. TypeOK'
  BY <1>2 DEF IInv, TypeOK
<1>4. CountsStreams' /\ OneLatency'
  BY <1>1 DEF IInv, CountsStreams, OneLatency
<1>5. BufferFits'
  <2> SUFFICES ASSUME NEW u \in Users, pc'[u] \in {"resized", "open"}
               PROVE  buffer' = frames[u]
    BY DEF BufferFits
  <2>1. u \in Counted
    BY <1>1 DEF Counted
  <2>2. CASE buffer' = frames[s]
    BY <1>2, <2>1, <2>2
  <2>3. CASE buffer' # frames[s]
    BY <2>3 DEF IInv, TypeOK, BufferFits
  <2> QED
    BY <2>2, <2>3
<1> QED
  BY <1>3, <1>4, <1>5 DEF IInv

LEMMA AddStreamInvariant ==
    ASSUME IInv, NEW s \in Users, NEW l \in Requests, AddStream(s, l)
    PROVE  IInv'
<1> USE DEF AddStream, Goto
<1>1. s \notin Counted /\ Counted' = Counted \cup {s}
  BY DEF IInv, TypeOK, Counted, States
<1>2. Cardinality(Counted') = Cardinality(Counted) + 1
  BY <1>1, CountedFinite, FS_AddElement
<1>3. latency' \in Frames
  <2>1. CASE streams = 0
    BY <2>1, ClampIsSafe, RequestsAssumption
  <2>2. CASE streams # 0
    BY <2>2 DEF IInv, TypeOK, CountsStreams
  <2> QED
    BY <2>1, <2>2
<1>4. TypeOK'
  BY <1>3 DEF IInv, TypeOK, States
<1>5. CountsStreams'
  BY <1>2, <1>3, NoLatencyAssumption DEF IInv, TypeOK, CountsStreams, Frames
<1>6. OneLatency'
  <2> SUFFICES ASSUME NEW u \in Counted' PROVE frames'[u] = latency'
    BY <1>3 DEF OneLatency
  <2>1. CASE u = s
    BY <2>1 DEF IInv, TypeOK
  <2>2. CASE u # s
    <3>1. u \in Counted /\ streams # 0
      BY <1>1, <2>2, CountedFinite DEF IInv, CountsStreams
    <3> QED
      BY <2>2, <3>1 DEF IInv, TypeOK, OneLatency, Counted
  <2> QED
    BY <2>1, <2>2
<1>7. BufferFits'
  BY DEF IInv, TypeOK, BufferFits
<1> QED
  BY <1>4, <1>5, <1>6, <1>7 DEF IInv

LEMMA SubtractStreamInvariant ==
    ASSUME IInv, NEW s \in Users, SubtractStream(s)
    PROVE  IInv'
<1> USE DEF SubtractStream, Goto
<1>1. s \in Counted /\ Counted' = Counted \ {s}
  BY DEF IInv, TypeOK, Counted, States
<1>2. Cardinality(Counted') = Cardinality(Counted) - 1 /\ Cardinality(Counted') \in Nat
  BY <1>1, CountedFinite, FS_RemoveElement, FS_CardinalityType
<1>3. streams' = Cardinality(Counted')
  BY <1>2 DEF IInv, CountsStreams
<1>4. TypeOK'
  BY <1>2, <1>3 DEF IInv, TypeOK, States
<1>5. CountsStreams'
  <2>1. streams # 0
    BY <1>1, CountedFinite DEF IInv, CountsStreams
  <2> QED
    BY <1>3, <2>1 DEF IInv, CountsStreams
<1>6. OneLatency'
  <2> SUFFICES ASSUME NEW u \in Counted' PROVE frames'[u] = latency' /\ frames'[u] \in Frames
    BY DEF OneLatency
  <2>1. u \in Counted /\ u # s /\ u \in Users
    BY <1>1 DEF Counted
  <2>2. IsFiniteSet(Counted')
    BY <1>1, CountedFinite, FS_Subset
  <2>3. streams' # 0
    BY <1>3, <2>2, FS_EmptySet
  <2> QED
    BY <2>1, <2>3 DEF IInv, TypeOK, OneLatency
<1>7. BufferFits'
  <2> SUFFICES ASSUME NEW u \in Users, pc'[u] \in {"resized", "open"}
               PROVE  buffer' = frames'[u]
    BY DEF BufferFits
  <2>1. u # s /\ pc[u] = pc'[u]
    BY DEF IInv, TypeOK
  <2> QED
    BY <2>1 DEF IInv, TypeOK, BufferFits
<1> QED
  BY <1>4, <1>5, <1>6, <1>7 DEF IInv

LEMMA StepInvariant == IInv /\ [Next]_vars => IInv'
<1> SUFFICES ASSUME IInv, [Next]_vars PROVE IInv'
  OBVIOUS
<1>1. CASE UNCHANGED vars
  BY <1>1 DEF vars, IInv, TypeOK, CountsStreams, OneLatency, BufferFits, Counted
<1>2. ASSUME NEW s \in Users, NEW l \in Requests, AddStream(s, l) PROVE IInv'
  BY <1>2, AddStreamInvariant
<1>3. ASSUME NEW s \in Users, Resize(s) PROVE IInv'
  BY <1>3, CountedMoves DEF Resize, States
<1>4. ASSUME NEW s \in Users, SetupEnds(s) PROVE IInv'
  BY <1>4, CountedMoves DEF SetupEnds, Goto, States
<1>5. ASSUME NEW s \in Users, SetupFails(s) PROVE IInv'
  BY <1>5, CountedMoves DEF SetupFails, States
<1>6. ASSUME NEW s \in Users, Reopen(s) PROVE IInv'
  BY <1>6, CountedMoves DEF Reopen, Goto, States
<1>7. ASSUME NEW s \in Users, Close(s) PROVE IInv'
  BY <1>7, CountedMoves DEF Close, Goto, States
<1>8. ASSUME NEW s \in Users, CheckActive(s) PROVE IInv'
  BY <1>8, CountedMoves DEF CheckActive, Goto, States
<1>9. ASSUME NEW s \in Users, SubtractStream(s) PROVE IInv'
  BY <1>9, SubtractStreamInvariant
<1> QED
  BY <1>1, <1>2, <1>3, <1>4, <1>5, <1>6, <1>7, <1>8, <1>9 DEF Next

LEMMA Invariant == Spec => []IInv
BY InitInvariant, StepInvariant, PTL DEF Spec

(* The controller's state has its types, and latencies stay in the safe range. *)
THEOREM TypeCorrect == Spec => []TypeOK
BY Invariant, PTL DEF IInv

(* The assertions of add_stream, subtract_stream and destroy_internal hold    *)
(* for any number of streams.                                                 *)
THEOREM Counts == Spec => []CountsStreams
BY Invariant, PTL DEF IInv

(* Any number of streams that exist together share one latency.               *)
THEOREM Agreement == Spec => []OneLatency
BY Invariant, PTL DEF IInv

(* And none resizes the buffer of another.                                    *)
THEOREM BufferKept == Spec => []BufferFits
BY Invariant, PTL DEF IInv
=============================================================================
