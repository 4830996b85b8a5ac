------------------------------- MODULE Timers -------------------------------
(***************************************************************************)
(* HAL/Timer.cpp and Timer.h: a counter of milliseconds that SysTick       *)
(* advances and that wraps at 31 bits, timers that compare it with the     *)
(* time they were started at, the table of the timers with a callback,     *)
(* which the main loop goes through after a tick, and delay_ms.            *)
(*                                                                         *)
(* The interrupt comes between any two steps of the main loop.  What a     *)
(* callback does is up to its owner: here it may start, stop or reset any  *)
(* timer, as a PDO mailbox resets its watchdog for each message.           *)
(***************************************************************************)
EXTENDS FixedVector

CONSTANTS Timer,                \* the objects
          Period,               \* of each, in ms
          FirstDelay,           \* from the construction until it is first up
          MAX_ASYNC_TIME_NUM,
          Wrap,                 \* 2^31
          Delays,               \* what delay_ms is called with
          MaxLag                \* bound: see doUpdate

ASSUME TimersAssumption ==
  /\ Wrap \in Nat \ {0}
  /\ MAX_ASYNC_TIME_NUM \in Nat
  /\ Period \in [Timer -> 1 .. Wrap - 1]
  /\ FirstDelay \in [Timer -> Nat] /\ \A t \in Timer : FirstDelay[t] <= Period[t]
  /\ Delays \subseteq 0 .. Wrap - 1
  /\ MaxLag \in Nat

VARIABLES
  baseTimer,    \* _baseTimer
  msFlag,       \* msFlag_
  starttime,    \* _starttime of each timer
  table,        \* asyncTimerTab_
  pc,           \* where the main loop is: see Pcs
  i,            \* the position doRun is at
  value,        \* the argument of the running delay_ms
  inTime,
  age,          \* history: ms since each timer was started, or would have
                \* been so as to be up after FirstDelay, up to Wrap
  waited,       \* history: ms since delay_ms was called, up to value
  lag           \* history: ms since doRun last began a round, up to MaxLag

vars == <<baseTimer, msFlag, starttime, table, pc, i, value, inTime, age, waited, lag>>

Pcs == {"main", "loop", "callback", "delay"}

(* The timers are constructed before the counter runs. *)
Init ==
  /\ baseTimer = 0 /\ msFlag = FALSE
  /\ starttime = [t \in Timer |-> 0 - Period[t] + FirstDelay[t]]
  /\ table = EmptyVector
  /\ pc = "main" /\ i = 0
  /\ value = 0 /\ inTime = 0
  /\ age = [t \in Timer |-> Period[t] - FirstDelay[t]] /\ waited = 0 /\ lag = 0

Attached(t) == Holds(table, t)

(* Mutant of DelayOver: it waits for the counter to change. *)
DelayOverAtOnce == baseTimer # inTime

DelayOver == baseTimer - inTime >= value

-----------------------------------------------------------------------------
(* The interrupt: doUpdate. *)

(* Bound: doRun begins a round at least every MaxLag ms, except for a delay. *)
doUpdate ==
  /\ lag < MaxLag \/ (pc = "delay" /\ ~DelayOver)
  /\ lag' = IF lag < MaxLag THEN lag + 1 ELSE lag
  /\ baseTimer' = (IF baseTimer = Wrap - 1 THEN 0 ELSE baseTimer + 1)
  /\ msFlag' = TRUE
  /\ age' = [t \in Timer |-> IF age[t] < Wrap THEN age[t] + 1 ELSE age[t]]
  /\ waited' = IF waited < value THEN waited + 1 ELSE waited
  /\ UNCHANGED <<starttime, table, pc, i, value, inTime>>

-----------------------------------------------------------------------------
(* One timer. *)

(* Mutant of Elapsed: a negative difference is taken for one of 32 bits. *)
ElapsedUnsigned(t) ==
  LET diff == baseTimer - starttime[t]
  IN  IF diff < 0 THEN diff + 2 * Wrap ELSE diff

(* A negative diff is masked with 0x7FFFFFFF; so is one that is too large for *)
(* 31 bits, which the subtraction makes negative.                            *)
Elapsed(t) ==
  LET diff == baseTimer - starttime[t]
  IN  IF diff < 0 THEN diff + Wrap ELSE IF diff >= Wrap THEN diff - Wrap ELSE diff

IsUp(t) == Elapsed(t) >= Period[t]

reset(t) ==
  /\ starttime' = [starttime EXCEPT ![t] = baseTimer]
  /\ age' = [age EXCEPT ![t] = 0]

(* Mutant of WithAttached: nobody looks whether the timer is there already. *)
WithAppended(t) ==
  IF table.size = MAX_ASYNC_TIME_NUM THEN table ELSE push_back(table, t)

(* attach: 0 if it is there already, -1 if the table is full. *)
WithAttached(t) ==
  IF find(table, t) # table.size \/ table.size = MAX_ASYNC_TIME_NUM
  THEN table ELSE push_back(table, t)

enable(t) == reset(t) /\ table' = WithAttached(t)

disable(t) ==
  /\ table' = erase(table, find(table, t))
  /\ UNCHANGED <<starttime, age>>

(* What the owner of a timer may do to it. *)
Use(t) == enable(t) \/ disable(t) \/ (reset(t) /\ UNCHANGED table)

-----------------------------------------------------------------------------
(* The main loop: doRun. *)

RunBegins ==
  /\ pc = "main" /\ msFlag
  /\ msFlag' = FALSE
  /\ lag' = 0
  /\ pc' = "loop" /\ i' = 0
  /\ UNCHANGED <<baseTimer, starttime, table, value, inTime, age, waited>>

(* Mutant of Goes: the last timer of the table is left out. *)
GoesShort(p) == p < table.size - 1

(* The condition of the loop. *)
Goes(p) == p < table.size

(* isAbsoluteTimeUp starts the timer again. *)
TimerIsUp ==
  /\ pc = "loop" /\ Goes(i)
  /\ IsUp(table.elem[i])
  /\ reset(table.elem[i])
  /\ pc' = "callback"
  /\ UNCHANGED <<baseTimer, msFlag, table, i, value, inTime, waited, lag>>

TimerIsNotUp ==
  /\ pc = "loop" /\ Goes(i)
  /\ ~IsUp(table.elem[i])
  /\ i' = i + 1
  /\ UNCHANGED <<baseTimer, msFlag, starttime, table, pc, value, inTime, age, waited, lag>>

(* The callback, and i++: past the timer that moved to i if one in front of  *)
(* it, or the timer itself, was taken out of the table.                      *)
Callback ==
  /\ pc = "callback"
  /\ UNCHANGED <<starttime, table, age>> \/ \E t \in Timer : Use(t)
  /\ pc' = "loop" /\ i' = i + 1
  /\ UNCHANGED <<baseTimer, msFlag, value, inTime, waited, lag>>

RunEnds ==
  /\ pc = "loop" /\ ~Goes(i)
  /\ pc' = "main" /\ i' = 0
  /\ UNCHANGED <<baseTimer, msFlag, starttime, table, value, inTime, age, waited, lag>>

doRun == RunBegins \/ TimerIsUp \/ TimerIsNotUp \/ Callback \/ RunEnds

-----------------------------------------------------------------------------
(* The rest of the main loop. *)

MainUses(t) ==
  /\ pc = "main"
  /\ Use(t)
  /\ UNCHANGED <<baseTimer, msFlag, pc, i, value, inTime, waited, lag>>

(* A timer that is polled, not called: isTimeUp. *)
isTimeUp(t) ==
  /\ pc = "main" /\ ~Attached(t)
  /\ IsUp(t) /\ reset(t)
  /\ UNCHANGED <<baseTimer, msFlag, table, pc, i, value, inTime, waited, lag>>

delay_ms(ms) ==
  /\ pc = "main" /\ lag + ms <= MaxLag
  /\ pc' = "delay"
  /\ value' = ms /\ inTime' = baseTimer /\ waited' = 0
  /\ UNCHANGED <<baseTimer, msFlag, starttime, table, i, age, lag>>

DelayEnds ==
  /\ pc = "delay" /\ DelayOver
  /\ pc' = "main" /\ value' = 0 /\ inTime' = 0 /\ waited' = 0
  /\ UNCHANGED <<baseTimer, msFlag, starttime, table, i, age, lag>>

Next ==
  \/ doUpdate
  \/ doRun
  \/ \E t \in Timer : MainUses(t) \/ isTimeUp(t)
  \/ \E ms \in Delays : delay_ms(ms)
  \/ DelayEnds

Spec == Init /\ [][Next]_vars

(* Time goes on, so does the main loop, and it comes to doRun every time     *)
(* around, whatever else it does.                                            *)
FairSpec ==
  /\ Spec
  /\ WF_vars(doUpdate)
  /\ SF_vars(RunBegins)
  /\ WF_vars(TimerIsUp \/ TimerIsNotUp \/ Callback \/ RunEnds)
  /\ WF_vars(DelayEnds)

-----------------------------------------------------------------------------
TypeOK ==
  /\ baseTimer \in 0 .. Wrap - 1 /\ inTime \in 0 .. Wrap - 1
  /\ msFlag \in BOOLEAN
  /\ starttime \in [Timer -> 1 - Wrap .. Wrap - 1]
  /\ table \in Vectors(Timer, MAX_ASYNC_TIME_NUM)
  /\ pc \in Pcs /\ i \in Nat
  /\ value \in 0 .. Wrap - 1 /\ waited \in 0 .. value
  /\ age \in [Timer -> 0 .. Wrap] /\ lag \in 0 .. MaxLag

(* No timer is in the table twice: its callback would come twice in a round, *)
(* and stopping it would leave it running.                                   *)
TableIsASet == Distinct(table)

(* The difference is the true age of a timer, over the wrap of the counter,  *)
(* until the counter has gone all the way around since it was started.       *)
ElapsedIsAge == \A t \in Timer : age[t] < Wrap => Elapsed(t) = age[t]

(* While delay_ms waits, it has waited as long as it thinks, or longer.      *)
DelayCounts ==
  pc = "delay" =>
    IF baseTimer >= inTime THEN waited >= value \/ waited >= baseTimer - inTime
    ELSE waited >= value \/ waited >= Wrap - inTime + baseTimer

IInv == TypeOK /\ TableIsASet /\ ElapsedIsAge /\ DelayCounts

(* No timer is up before its period has passed since it was last started,    *)
(* reset or called, or its first delay since it was constructed, whatever    *)
(* the counter does meanwhile.  So a watchdog that every message resets goes *)
(* off only after as long a silence.                                         *)
NeverEarly ==
  [][\A t \in Timer :
       (TimerIsUp /\ table.elem[i] = t) \/ isTimeUp(t) => age[t] >= Period[t]]_vars

(* delay_ms waits at least as long as it was told to.                        *)
DelayIsLongEnough == [][DelayEnds => waited >= value]_vars

(* delay_ms was called less than its argument before the wrap.               *)
DelayedAcrossWrap == pc = "delay" /\ inTime + value >= Wrap

Due(t) == Attached(t) /\ age[t] >= Period[t]

(* A timer of the table that is due is called, however often callbacks move  *)
(* it past the loop by taking others out: unless it is stopped or reset      *)
(* first, or the main loop waits in a delay across the wrap, which never     *)
(* ends.                                                                     *)
DueIsCalled == \A t \in Timer : Due(t) ~> ~Due(t) \/ DelayedAcrossWrap
=============================================================================
