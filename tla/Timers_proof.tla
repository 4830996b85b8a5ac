---------------------------- MODULE Timers_proof ----------------------------
(* Proofs about the timers and their table, for every width of the counter,  *)
(* every set of timers and periods, and every size of the table.             *)
EXTENDS Timers, TLAPS

-----------------------------------------------------------------------------
(* The vector. *)

LEMMA VectorParts ==
  ASSUME NEW T, NEW N \in Nat, NEW v \in Vectors(T, N)
  PROVE  v.size \in 0 .. N /\ v.elem \in [Positions(v.size) -> T]
BY DEF Vectors

LEMMA VectorOf ==
  ASSUME NEW T, NEW N \in Nat, NEW n \in 0 .. N, NEW f \in [Positions(n) -> T]
  PROVE  [size |-> n, elem |-> f] \in Vectors(T, N)
BY DEF Vectors

(* In a vector without duplicates find returns a position that holds obj,    *)
(* or end().                                                                 *)
LEMMA FindPosition ==
  ASSUME NEW T, NEW N \in Nat, NEW v \in Vectors(T, N), Distinct(v), NEW obj
  PROVE  IF Holds(v, obj)
         THEN find(v, obj) \in Positions(v.size) /\ v.elem[find(v, obj)] = obj
         ELSE find(v, obj) = v.size
<1>a. v.size \in Nat
  BY VectorParts
<1>1. CASE Holds(v, obj)
  <2>1. PICK j \in Positions(v.size) : v.elem[j] = obj
    BY <1>1 DEF Holds
  <2>2. \A k \in Positions(j) : k \in Positions(v.size) /\ k # j
    BY <1>a DEF Positions
  <2>3. \A k \in Positions(j) : v.elem[k] # obj
    BY <2>1, <2>2 DEF Distinct
  <2> QED BY <1>1, <2>1, <2>3 DEF find
<1>2. CASE ~Holds(v, obj)
  BY <1>2 DEF find
<1> QED BY <1>1, <1>2

LEMMA PushBack ==
  ASSUME NEW T, NEW N \in Nat, NEW v \in Vectors(T, N), Distinct(v),
         v.size # N, NEW obj \in T, ~Holds(v, obj)
  PROVE  push_back(v, obj) \in Vectors(T, N) /\ Distinct(push_back(v, obj))
<1> DEFINE w == push_back(v, obj)
<1>a. v.size \in Nat /\ v.size < N /\ v.elem \in [Positions(v.size) -> T]
  BY VectorParts
<1>1. w.size = v.size + 1 /\ w.size \in 0 .. N
  BY <1>a DEF push_back
<1>2. /\ w.elem \in [Positions(w.size) -> T]
      /\ \A j \in Positions(v.size) : w.elem[j] = v.elem[j]
      /\ w.elem[v.size] = obj
      /\ \A j \in Positions(w.size) : j = v.size \/ j \in Positions(v.size)
  BY <1>a DEF push_back, Positions
<1>3. w \in Vectors(T, N)
  BY <1>1, <1>2, VectorOf DEF push_back
<1>4. Distinct(w)
  BY <1>2 DEF Distinct, Holds
<1> QED BY <1>3, <1>4

LEMMA Erase ==
  ASSUME NEW T, NEW N \in Nat, NEW v \in Vectors(T, N), Distinct(v),
         NEW p \in 0 .. v.size
  PROVE  erase(v, p) \in Vectors(T, N) /\ Distinct(erase(v, p))
<1> DEFINE w == erase(v, p)
<1>a. v.size \in Nat /\ v.size <= N /\ v.elem \in [Positions(v.size) -> T]
  BY VectorParts
<1>b. p \in Nat /\ p <= v.size
  BY <1>a
<1>1. CASE p = v.size
  BY <1>1, <1>a DEF erase
<1>2. CASE p < v.size
  <2>1. w = [size |-> v.size - 1,
             elem |-> [j \in Positions(v.size - 1) |->
                         IF j < p THEN v.elem[j] ELSE v.elem[j + 1]]]
    BY <1>2, <1>a, <1>b DEF erase
  <2>2. v.size - 1 \in 0 .. N /\ w.size = v.size - 1
    BY <2>1, <1>2, <1>a, <1>b
  <2>3. \A j \in Positions(v.size - 1) :
          j \in Int /\ j \in Positions(v.size) /\ j + 1 \in Positions(v.size)
    BY <1>a DEF Positions
  <2>4. w.elem \in [Positions(v.size - 1) -> T]
    BY <2>1, <2>3, <1>a
  <2>5. w \in Vectors(T, N)
    BY <2>1, <2>2, <2>4, VectorOf
  <2>6. ASSUME NEW j \in Positions(w.size), NEW k \in Positions(w.size),
               w.elem[j] = w.elem[k]
        PROVE  j = k
    <3>1. /\ w.elem[j] = v.elem[IF j < p THEN j ELSE j + 1]
          /\ w.elem[k] = v.elem[IF k < p THEN k ELSE k + 1]
      BY <2>1, <2>2
    <3>2. (IF j < p THEN j ELSE j + 1) = (IF k < p THEN k ELSE k + 1)
      BY <2>2, <2>3, <2>6, <3>1 DEF Distinct
    <3> QED BY <3>2, <2>2, <2>3, <1>b
  <2> QED BY <2>5, <2>6 DEF Distinct
<1> QED BY <1>1, <1>2, <1>b, <1>a

-----------------------------------------------------------------------------
(* What the owners of timers do. *)

LEMMA ResetStep ==
  ASSUME TypeOK, ElapsedIsAge, NEW t \in Timer, reset(t), UNCHANGED baseTimer
  PROVE  /\ starttime' \in [Timer -> 1 - Wrap .. Wrap - 1]
         /\ age' \in [Timer -> 0 .. Wrap]
         /\ ElapsedIsAge'
BY TimersAssumption DEF TypeOK, reset, ElapsedIsAge, Elapsed

LEMMA UseStep ==
  ASSUME TypeOK, TableIsASet, ElapsedIsAge, NEW t \in Timer, Use(t),
         UNCHANGED baseTimer
  PROVE  /\ starttime' \in [Timer -> 1 - Wrap .. Wrap - 1]
         /\ age' \in [Timer -> 0 .. Wrap]
         /\ table' \in Vectors(Timer, MAX_ASYNC_TIME_NUM)
         /\ TableIsASet' /\ ElapsedIsAge'
<1>a. /\ table \in Vectors(Timer, MAX_ASYNC_TIME_NUM) /\ Distinct(table)
      /\ MAX_ASYNC_TIME_NUM \in Nat /\ table.size \in Nat
  BY TimersAssumption, VectorParts DEF TypeOK, TableIsASet
<1>1. CASE enable(t)
  <2>1. table' \in Vectors(Timer, MAX_ASYNC_TIME_NUM) /\ Distinct(table')
    <3>1. CASE find(table, t) = table.size /\ table.size # MAX_ASYNC_TIME_NUM
      <4>1. ~Holds(table, t)
        BY <3>1, <1>a, FindPosition DEF Positions
      <4> QED BY <3>1, <4>1, <1>1, <1>a, PushBack DEF enable, WithAttached
    <3> QED BY <3>1, <1>1, <1>a DEF enable, WithAttached
  <2> QED BY <2>1, <1>1, ResetStep DEF enable, TableIsASet
<1>2. CASE disable(t)
  <2>1. find(table, t) \in 0 .. table.size
    BY <1>a, FindPosition DEF Positions
  <2>2. table' \in Vectors(Timer, MAX_ASYNC_TIME_NUM) /\ Distinct(table')
    BY <2>1, <1>2, <1>a, Erase DEF disable
  <2>3. UNCHANGED <<starttime, age, baseTimer>>
    BY <1>2 DEF disable
  <2>4. ElapsedIsAge'
    BY <2>3 DEF ElapsedIsAge, Elapsed
  <2> QED BY <2>2, <2>3, <2>4 DEF TableIsASet, TypeOK
<1>3. CASE reset(t) /\ UNCHANGED table
  BY <1>3, <1>a, ResetStep DEF TableIsASet
<1> QED BY <1>1, <1>2, <1>3 DEF Use

(* The timer that doRun looks at. *)
LEMMA TimerAt ==
  ASSUME TypeOK, Goes(i)
  PROVE  table.elem[i] \in Timer
<1>1. /\ table.size \in Nat /\ table.elem \in [Positions(table.size) -> Timer]
  BY TimersAssumption, VectorParts DEF TypeOK
<1>2. i \in Positions(table.size)
  BY <1>1 DEF TypeOK, Goes, Positions
<1> QED BY <1>1, <1>2

-----------------------------------------------------------------------------
LEMMA Initially == Init => IInv
<1> SUFFICES ASSUME Init PROVE IInv
  OBVIOUS
<1>1. EmptyVector \in Vectors(Timer, MAX_ASYNC_TIME_NUM)
  <2>1. [j \in {} |-> 0] \in [Positions(0) -> Timer]
    BY DEF Positions
  <2>2. MAX_ASYNC_TIME_NUM \in Nat /\ 0 \in 0 .. MAX_ASYNC_TIME_NUM
    BY TimersAssumption
  <2> QED BY <2>1, <2>2, VectorOf DEF EmptyVector
<1>2. TypeOK
  <2>1. 0 \in 0 .. Wrap - 1 /\ 0 \in 0 .. Wrap /\ 0 \in 0 .. MaxLag /\ 0 \in 0 .. 0
    BY TimersAssumption
  <2>2. \A t \in Timer : /\ 0 - Period[t] + FirstDelay[t] \in 1 - Wrap .. Wrap - 1
                          /\ Period[t] - FirstDelay[t] \in 0 .. Wrap
    BY TimersAssumption
  <2>3. starttime \in [Timer -> 1 - Wrap .. Wrap - 1] /\ age \in [Timer -> 0 .. Wrap]
    BY <2>2 DEF Init
  <2> QED BY <1>1, <2>1, <2>3 DEF Init, TypeOK, Pcs
<1>3. TableIsASet
  BY DEF Init, TableIsASet, Distinct, EmptyVector, Positions
<1>4. ElapsedIsAge /\ DelayCounts
  <2>1. ASSUME NEW t \in Timer PROVE Elapsed(t) = age[t]
    <3>1. baseTimer - starttime[t] = Period[t] - FirstDelay[t] /\ age[t] = Period[t] - FirstDelay[t]
          /\ Period[t] - FirstDelay[t] \in 0 .. Wrap - 1 /\ Wrap \in Nat
      BY TimersAssumption DEF Init
    <3> QED BY <3>1 DEF Elapsed
  <2> QED BY <2>1 DEF Init, ElapsedIsAge, DelayCounts
<1> QED BY <1>2, <1>3, <1>4 DEF IInv

LEMMA Step == IInv /\ [Next]_vars => IInv'
<1> SUFFICES ASSUME IInv, [Next]_vars PROVE IInv'
  OBVIOUS
<1> USE TimersAssumption
<1>a. TypeOK /\ TableIsASet /\ ElapsedIsAge /\ DelayCounts
  BY DEF IInv
<1>1. CASE doUpdate
  <2>1. TypeOK'
    BY <1>1, <1>a DEF doUpdate, TypeOK
  <2>2. TableIsASet'
    BY <1>1, <1>a DEF doUpdate, TableIsASet
  <2>3. ElapsedIsAge'
    <3> SUFFICES ASSUME NEW t \in Timer, age'[t] < Wrap PROVE Elapsed(t)' = age'[t]
      BY DEF ElapsedIsAge
    <3>1. /\ age[t] \in 0 .. Wrap /\ starttime[t] \in 1 - Wrap .. Wrap - 1
          /\ baseTimer \in 0 .. Wrap - 1
      BY <1>a DEF TypeOK
    <3>2. age[t] < Wrap /\ age'[t] = age[t] + 1
      BY <1>1, <1>a, <3>1 DEF doUpdate, TypeOK
    <3>3. Elapsed(t) = age[t]
      BY <1>a, <3>2 DEF ElapsedIsAge
    <3> QED BY <1>1, <3>1, <3>2, <3>3 DEF doUpdate, Elapsed
  <2>4. DelayCounts'
    BY <1>1, <1>a DEF doUpdate, DelayCounts, TypeOK
  <2> QED BY <2>1, <2>2, <2>3, <2>4 DEF IInv
<1>2. CASE RunBegins \/ TimerIsNotUp \/ RunEnds
  <2>1. TypeOK'
    <3>1. i' \in Nat /\ lag' \in 0 .. MaxLag /\ pc' \in Pcs /\ msFlag' \in BOOLEAN
      <4>1. i \in Nat /\ lag \in 0 .. MaxLag /\ pc \in Pcs /\ msFlag \in BOOLEAN
            /\ 0 \in 0 .. MaxLag
        BY <1>a DEF TypeOK
      <4>2. CASE RunBegins
        BY <4>1, <4>2 DEF RunBegins, Pcs
      <4>3. CASE TimerIsNotUp
        BY <4>1, <4>3 DEF TimerIsNotUp
      <4>4. CASE RunEnds
        BY <4>1, <4>4 DEF RunEnds, Pcs
      <4> QED BY <1>2, <4>2, <4>3, <4>4
    <3>2. UNCHANGED <<baseTimer, starttime, table, value, inTime, age, waited>>
      BY <1>2 DEF RunBegins, TimerIsNotUp, RunEnds
    <3> QED BY <3>1, <3>2, <1>a DEF TypeOK
  <2>2. /\ UNCHANGED <<baseTimer, starttime, table, age>>
        /\ pc' # "delay"
    BY <1>2 DEF RunBegins, TimerIsNotUp, RunEnds
  <2> QED BY <2>1, <2>2, <1>a DEF IInv, TableIsASet, ElapsedIsAge, Elapsed, DelayCounts
<1>3. CASE TimerIsUp
  <2>1. table.elem[i] \in Timer
    BY <1>3, <1>a, TimerAt DEF TimerIsUp
  <2>2. /\ reset(table.elem[i]) /\ UNCHANGED baseTimer
        /\ UNCHANGED <<msFlag, table, i, value, inTime, waited, lag>>
        /\ pc' = "callback"
    BY <1>3 DEF TimerIsUp
  <2>3. /\ starttime' \in [Timer -> 1 - Wrap .. Wrap - 1] /\ age' \in [Timer -> 0 .. Wrap]
        /\ ElapsedIsAge'
    BY <1>a, <2>1, <2>2, ResetStep
  <2> QED BY <1>a, <2>2, <2>3 DEF IInv, TypeOK, Pcs, TableIsASet, DelayCounts
<1>4. CASE Callback
  <2>1. CASE UNCHANGED <<starttime, table, age>>
    <3>1. /\ UNCHANGED <<baseTimer, starttime, table, age>>
          /\ pc' # "delay"
      BY <1>4, <2>1 DEF Callback
    <3>2. TypeOK'
      BY <1>4, <2>1, <1>a DEF Callback, TypeOK, Pcs
    <3> QED BY <3>1, <3>2, <1>a DEF IInv, TableIsASet, ElapsedIsAge, Elapsed, DelayCounts
  <2>2. ASSUME NEW t \in Timer, Use(t) PROVE IInv'
    <3>1. /\ UNCHANGED <<baseTimer, msFlag, value, inTime, waited, lag>>
          /\ pc' = "loop" /\ i' = i + 1
      BY <1>4 DEF Callback
    <3>2. /\ starttime' \in [Timer -> 1 - Wrap .. Wrap - 1] /\ age' \in [Timer -> 0 .. Wrap]
          /\ table' \in Vectors(Timer, MAX_ASYNC_TIME_NUM)
          /\ TableIsASet' /\ ElapsedIsAge'
      BY <2>2, <3>1, <1>a, UseStep
    <3> QED BY <1>a, <3>1, <3>2 DEF IInv, TypeOK, Pcs, DelayCounts
  <2> QED BY <1>4, <2>1, <2>2 DEF Callback
<1>5. ASSUME NEW t \in Timer, MainUses(t) PROVE IInv'
  <2>1. /\ UNCHANGED <<baseTimer, msFlag, pc, i, value, inTime, waited, lag>>
        /\ pc = "main" /\ Use(t)
    BY <1>5 DEF MainUses
  <2>2. /\ starttime' \in [Timer -> 1 - Wrap .. Wrap - 1] /\ age' \in [Timer -> 0 .. Wrap]
        /\ table' \in Vectors(Timer, MAX_ASYNC_TIME_NUM)
        /\ TableIsASet' /\ ElapsedIsAge'
    BY <2>1, <1>a, UseStep
  <2> QED BY <1>a, <2>1, <2>2 DEF IInv, TypeOK, DelayCounts
<1>6. ASSUME NEW t \in Timer, isTimeUp(t) PROVE IInv'
  <2>1. /\ UNCHANGED <<baseTimer, msFlag, table, pc, i, value, inTime, waited, lag>>
        /\ pc = "main" /\ reset(t)
    BY <1>6 DEF isTimeUp
  <2>2. /\ starttime' \in [Timer -> 1 - Wrap .. Wrap - 1] /\ age' \in [Timer -> 0 .. Wrap]
        /\ ElapsedIsAge'
    BY <2>1, <1>a, ResetStep
  <2> QED BY <1>a, <2>1, <2>2 DEF IInv, TypeOK, TableIsASet, DelayCounts
<1>7. ASSUME NEW ms \in Delays, delay_ms(ms) PROVE IInv'
  <2>1. TypeOK'
    BY <1>7, <1>a DEF delay_ms, TypeOK, Pcs
  <2>2. DelayCounts'
    BY <1>7, <1>a DEF delay_ms, DelayCounts, TypeOK
  <2>3. UNCHANGED <<baseTimer, starttime, table, age>>
    BY <1>7 DEF delay_ms
  <2> QED BY <2>1, <2>2, <2>3, <1>a DEF IInv, TableIsASet, ElapsedIsAge, Elapsed
<1>8. CASE DelayEnds
  <2>1. TypeOK'
    BY <1>8, <1>a DEF DelayEnds, TypeOK, Pcs
  <2>2. UNCHANGED <<baseTimer, starttime, table, age>> /\ pc' # "delay"
    BY <1>8 DEF DelayEnds
  <2> QED BY <2>1, <2>2, <1>a DEF IInv, TableIsASet, ElapsedIsAge, Elapsed, DelayCounts
<1>9. CASE UNCHANGED vars
  BY <1>9, <1>a DEF vars, IInv, TypeOK, TableIsASet, ElapsedIsAge, Elapsed, DelayCounts
<1> QED BY <1>1, <1>2, <1>3, <1>4, <1>5, <1>6, <1>7, <1>8, <1>9 DEF Next, doRun

(* The table holds no timer twice, and the masked difference is the true age *)
(* of every timer until the counter has gone all the way around.             *)
THEOREM Invariant == Spec => []IInv
BY Initially, Step, PTL DEF Spec

(* No timer is up before its period is over, polled or called, and wherever  *)
(* the counter wraps.                                                        *)
THEOREM NeverUpEarly == Spec => NeverEarly
<1>1. ASSUME IInv, NEW t \in Timer, IsUp(t)
      PROVE  age[t] >= Period[t]
  <2>1. age[t] \in 0 .. Wrap /\ Period[t] \in 1 .. Wrap - 1 /\ Wrap \in Nat
    BY <1>1, TimersAssumption DEF IInv, TypeOK
  <2>2. age[t] < Wrap => Elapsed(t) = age[t]
    BY <1>1 DEF IInv, ElapsedIsAge
  <2> QED BY <1>1, <2>1, <2>2 DEF IsUp
<1>2. IInv => [\A t \in Timer :
        (TimerIsUp /\ table.elem[i] = t) \/ isTimeUp(t) => age[t] >= Period[t]]_vars
  BY <1>1 DEF TimerIsUp, isTimeUp
<1> QED BY <1>2, Invariant, PTL DEF NeverEarly

(* delay_ms never returns early, wherever the counter wraps.                 *)
THEOREM DelayNeverShort == Spec => DelayIsLongEnough
<1>1. IInv => [DelayEnds => waited >= value]_vars
  BY TimersAssumption DEF IInv, TypeOK, DelayCounts, DelayEnds, DelayOver
<1> QED BY <1>1, Invariant, PTL DEF DelayIsLongEnough
=============================================================================
