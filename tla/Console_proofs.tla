---------------------------- MODULE Console_proofs ----------------------------
(***************************************************************************)
(* The command thread and the tick thread, for every list of names, every  *)
(* batch period and any number of ticks: whichever order their steps come  *)
(* in, ticks and batch processes come in order, at their distance, and the *)
(* screen keeps its process.                                               *)
(***************************************************************************)
EXTENDS Console, WellFoundedInduction, TLAPS

Records == [name : Range(BatchNames) \cup UserNames, killed : BOOLEAN]

(* The tick thread holds the mutex over several of its steps.              *)
InTick == {"check", "generate", "tick"}
MutexOfTick == mutex = "tick" <=> tickPc \in InTick

(* Inside a tick, the tick is the newest and not yet given to onTick().    *)
ClockAhead ==
  /\ ticked <= cpuCycles
  /\ tickPc \in InTick => currentTick = cpuCycles /\ ticked < cpuCycles

(* A tick makes one batch process at most.                                 *)
OneProcessATick ==
  /\ batchCounter <= cpuCycles
  /\ tickPc \in {"check", "generate"} => batchCounter < cpuCycles

(* Ticks under way fit under the bound: a name is left for each.           *)
TicksLeft ==
  /\ cpuCycles <= MaxTicks + 1
  /\ mainPc = "start" => cpuCycles <= MaxTicks
  /\ tickPc \in {"asleep", "lock", "count"} => cpuCycles <= MaxTicks
  /\ mainPc = "start" /\ tickPc \in {"asleep", "lock", "count"}
       => cpuCycles < MaxTicks

(* The batch clock tells when the last batch process was born.             *)
BatchClockIsBirth == born = lastBatchGenerationTick /\ born <= cpuCycles

(* Who generates processes has a scheduler.                                *)
SchedulerFirst ==
  /\ initialized => scheduler
  /\ mainPc = "start" => initialized
  /\ batchRunning => scheduler

(* How far the clock may have gone since the last batch process was born.  *)
(* A round that saw no scheduler counts one tick, and it began before the  *)
(* batch did: the clock is then one tick on when the next round begins.    *)
BatchOnTime ==
  /\ batchRunning /\ tickPc = "count" => cpuCycles = born
  /\ batchRunning /\ tickPc \in {"loop", "asleep", "lock", "done"}
       => cpuCycles - born < BatchPeriod \/ cpuCycles = born + 1
  /\ batchRunning /\ tickPc = "check"
       => currentTick - born <= BatchPeriod \/ currentTick = born + 2
  /\ tickPc = "generate" => OnePeriod(currentTick - born)
  /\ batchRunning /\ tickPc = "tick" => currentTick - born < BatchPeriod

(* Before the stop no process is late, nor before the one on its way.      *)
OneOnItsWay ==
  /\ late <= 1
  /\ batchRunning => late = 0
  /\ tickPc = "generate" => late = 0

(* The process on the screen is the first of its name.                     *)
MeantIsFirst ==
  attached # None =>
    /\ meant \in DOMAIN allProcs /\ allProcs[meant].name = attached
    /\ \A i \in DOMAIN allProcs : allProcs[i].name = attached => meant <= i

Inv == /\ TypeOK /\ MutexOfTick /\ ClockAhead /\ OneProcessATick /\ TicksLeft
       /\ BatchClockIsBirth /\ SchedulerFirst /\ BatchOnTime /\ OneOnItsWay
       /\ MeantIsFirst

------------------------------------------------------------------------------
(* A process of a name is the first of it, or another one is.              *)
LEMMA FirstNamedIsFirst ==
  ASSUME allProcs \in Seq(Records),
         NEW n, \E i \in DOMAIN allProcs : allProcs[i].name = n
  PROVE  /\ FirstNamed(n) \in DOMAIN allProcs /\ allProcs[FirstNamed(n)].name = n
         /\ \A i \in DOMAIN allProcs : allProcs[i].name = n => FirstNamed(n) <= i
<1> DEFINE T == {i \in DOMAIN allProcs : allProcs[i].name = n}
<1>1. T \subseteq Nat /\ T # {}
  <2>1. DOMAIN allProcs = 1 .. Len(allProcs) /\ Len(allProcs) \in Nat
    OBVIOUS
  <2> QED
    BY <2>1
<1>2. PICK i \in T : \A j \in T : ~ (<<j, i>> \in OpToRel(<, Nat))
  BY <1>1, WFMin, NatLessThanWellFounded
<1>3. ASSUME NEW j \in T, j < i
      PROVE  <<j, i>> \in OpToRel(<, Nat)
  BY <1>1, <1>3, Zenon DEF OpToRel
<1>4. \A j \in T : ~ (j < i)
  BY <1>2, <1>3, Zenon
<1>5. \A j \in T : i <= j
  BY <1>1, <1>4
<1> QED
  BY <1>5 DEF FirstNamed

(* Whom a tick may kill.                                                   *)
KilledIn(K) == [i \in DOMAIN allProcs |-> [allProcs[i] EXCEPT !.killed = @ \/ i \in K]]

(* A tick may kill processes: neither their number nor a name changes.     *)
LEMMA TickKeepsNames ==
  ASSUME allProcs \in Seq(Records), NEW ps \in AfterTick
  PROVE  /\ ps \in Seq(Records) /\ Len(ps) = Len(allProcs)
         /\ DOMAIN ps = DOMAIN allProcs
         /\ \A i \in DOMAIN ps : ps[i].name = allProcs[i].name
<1>1. PICK K \in SUBSET DOMAIN allProcs : ps = KilledIn(K)
  BY DEF AfterTick, KilledIn
<1>2. DOMAIN allProcs = 1 .. Len(allProcs) /\ Len(allProcs) \in Nat
  OBVIOUS
<1>3. ASSUME NEW i \in DOMAIN allProcs
      PROVE  ps[i] \in Records /\ ps[i].name = allProcs[i].name
  <2>1. allProcs[i] \in Records
    OBVIOUS
  <2>2. ps[i] = [allProcs[i] EXCEPT !.killed = @ \/ i \in K]
    BY <1>1 DEF KilledIn
  <2>3. (allProcs[i].killed \/ i \in K) \in BOOLEAN
    OBVIOUS
  <2> QED
    BY <2>1, <2>2, <2>3 DEF Records
<1>4. DOMAIN ps = 1 .. Len(allProcs) /\ ps = [i \in 1 .. Len(allProcs) |-> ps[i]]
  BY <1>1, <1>2 DEF KilledIn
<1> QED
  BY <1>2, <1>3, <1>4

(* A tick may kill nobody.                                                 *)
LEMMA TickMayKillNone ==
  ASSUME allProcs \in Seq(Records)
  PROVE  allProcs \in AfterTick
<1>1. ASSUME NEW i \in DOMAIN allProcs
      PROVE  [allProcs[i] EXCEPT !.killed = @ \/ i \in {}] = allProcs[i]
  <2>1. allProcs[i] \in Records
    OBVIOUS
  <2>2. (allProcs[i].killed \/ i \in {}) = allProcs[i].killed
    BY <2>1 DEF Records
  <2> QED
    BY <2>1, <2>2 DEF Records
<1>2. allProcs = [i \in DOMAIN allProcs |-> allProcs[i]]
  OBVIOUS
<1>3. allProcs = KilledIn({})
  BY <1>1, <1>2 DEF KilledIn
<1> QED
  BY <1>3 DEF AfterTick, KilledIn

(* A new process comes last: who was first of a name stays it.             *)
LEMMA NewcomerIsLast ==
  ASSUME NEW ps \in Seq(Records), NEW r \in Records
  PROVE  /\ Append(ps, r) \in Seq(Records)
         /\ Len(Append(ps, r)) = Len(ps) + 1
         /\ DOMAIN Append(ps, r) = 1 .. Len(ps) + 1
         /\ \A i \in DOMAIN ps :
              i \in DOMAIN Append(ps, r) /\ Append(ps, r)[i] = ps[i]
         /\ Append(ps, r)[Len(ps) + 1] = r
OBVIOUS

(* The screen keeps its process when processes are added and killed.       *)
LEMMA MeantStays ==
  ASSUME allProcs \in Seq(Records), MeantIsFirst,
         NEW ps \in AfterTick,
         allProcs' = ps \/ \E r \in Records : allProcs' = Append(ps, r),
         attached' = attached, meant' = meant
  PROVE  MeantIsFirst'
<1>1. /\ ps \in Seq(Records) /\ Len(ps) = Len(allProcs)
      /\ DOMAIN ps = DOMAIN allProcs /\ DOMAIN ps = 1 .. Len(ps) /\ Len(ps) \in Nat
      /\ \A i \in DOMAIN ps : ps[i].name = allProcs[i].name
  BY TickKeepsNames
<1>2. /\ DOMAIN allProcs' \in {1 .. Len(ps), 1 .. Len(ps) + 1}
      /\ \A i \in DOMAIN ps : i \in DOMAIN allProcs' /\ allProcs'[i] = ps[i]
  BY <1>1, NewcomerIsLast
<1>3. SUFFICES ASSUME attached # None
               PROVE  /\ meant \in DOMAIN allProcs' /\ allProcs'[meant].name = attached
                      /\ \A i \in DOMAIN allProcs' :
                           allProcs'[i].name = attached => meant <= i
  BY DEF MeantIsFirst
<1>4. /\ meant \in DOMAIN ps /\ ps[meant].name = attached
      /\ \A i \in DOMAIN ps : ps[i].name = attached => meant <= i
  BY <1>1, <1>3 DEF MeantIsFirst
<1>5. ASSUME NEW i \in DOMAIN allProcs', allProcs'[i].name = attached
      PROVE  meant <= i
  <2>1. CASE i \in DOMAIN ps
    BY <2>1, <1>2, <1>4, <1>5
  <2>2. CASE i \notin DOMAIN ps
    BY <2>2, <1>1, <1>2, <1>4
  <2> QED
    BY <2>1, <2>2
<1> QED
  BY <1>2, <1>4, <1>5

------------------------------------------------------------------------------
LEMMA Initially == Init => Inv
<1> SUFFICES ASSUME Init PROVE Inv
  OBVIOUS
<1>1. allProcs = <<>> /\ Len(allProcs) = 0 /\ allProcs \in Seq(Records)
  BY DEF Init
<1>2. TypeOK
  <2>1. /\ allProcs \in Seq([name : Range(BatchNames) \cup UserNames, killed : BOOLEAN])
        /\ batchCounter \in 0 .. Len(allProcs)
    BY <1>1 DEF Init, Records
  <2> QED
    BY <2>1 DEF Init, TypeOK
<1>3. MutexOfTick /\ ClockAhead
  BY ConsoleConstants DEF Init, MutexOfTick, InTick, ClockAhead
<1>4. OneProcessATick /\ TicksLeft /\ BatchClockIsBirth /\ OneOnItsWay
  BY ConsoleConstants
     DEF Init, OneProcessATick, TicksLeft, BatchClockIsBirth, OneOnItsWay
<1>6. SchedulerFirst /\ BatchOnTime
  BY DEF Init, SchedulerFirst, BatchOnTime
<1>5. MeantIsFirst
  BY DEF Init, MeantIsFirst
<1> QED
  BY <1>2, <1>3, <1>4, <1>5, <1>6 DEF Inv

(* A batch process generated at tick t: its name is one of the list.       *)
LEMMA Generated ==
  ASSUME TypeOK, NEW t \in Nat, NEW ps \in AfterTick,
         batchCounter < cpuCycles', cpuCycles' \in Nat, cpuCycles' <= MaxTicks + 1,
         GenerateBatchProcess(t, ps)
  PROVE  /\ allProcs' \in Seq(Records)
         /\ \E r \in Records : allProcs' = Append(ps, r)
         /\ batchCounter' \in 0 .. Len(allProcs')
         /\ batchCounter' = batchCounter + 1
         /\ lastBatchGenerationTick' = t /\ born' = t
<1>1. allProcs \in Seq(Records) /\ batchCounter \in 0 .. Len(allProcs)
  BY DEF TypeOK, Records
<1>2. batchCounter + 1 \in DOMAIN BatchNames
  BY <1>1, ConsoleConstants
<1>3. NewProcess(BatchNames[batchCounter + 1]) \in Records
  BY <1>2 DEF NewProcess, Records, Range
<1>4. ps \in Seq(Records) /\ Len(ps) = Len(allProcs)
  BY <1>1, TickKeepsNames
<1>5. allProcs' = Append(ps, NewProcess(BatchNames[batchCounter + 1]))
  BY DEF GenerateBatchProcess
<1>6. allProcs' \in Seq(Records) /\ Len(allProcs') = Len(allProcs) + 1
  BY <1>3, <1>4, <1>5, NewcomerIsLast
<1> QED
  BY <1>1, <1>3, <1>5, <1>6 DEF GenerateBatchProcess, BatchClock

(* Ticks: they are counted under the mutex, or by the thread alone.        *)
LEMMA ClocksKept == Inv /\ [Next]_vars => (MutexOfTick /\ ClockAhead /\ OneProcessATick /\ TicksLeft)'
<1> SUFFICES ASSUME Inv, [Next]_vars PROVE (MutexOfTick /\ ClockAhead /\ OneProcessATick /\ TicksLeft)'
  OBVIOUS
<1>1. CASE Initialize
  BY <1>1, ConsoleConstants
     DEF Inv, TypeOK, MutexOfTick, InTick, ClockAhead, OneProcessATick,
         TicksLeft, Initialize, ticker, procs
<1>2. CASE SchedulerStart
  BY <1>2, ConsoleConstants
     DEF Inv, TypeOK, MutexOfTick, InTick, ClockAhead, OneProcessATick,
         TicksLeft, Command, SchedulerStart, ticker, shared, procs
<1>3. CASE StartBatch
  BY <1>3, ConsoleConstants
     DEF Inv, TypeOK, MutexOfTick, InTick, ClockAhead, OneProcessATick,
         TicksLeft, GenerateBatchProcess, BatchClock, NextTick, StartBatch,
         ticker
<1>4. CASE SchedulerStop
  BY <1>4, ConsoleConstants
     DEF Inv, TypeOK, MutexOfTick, InTick, ClockAhead, OneProcessATick,
         TicksLeft, Command, SchedulerStop, main, ticker
<1>5. ASSUME NEW n \in UserNames, NEW attach \in BOOLEAN,
             CreateScreen(n, attach)
      PROVE  (MutexOfTick /\ ClockAhead /\ OneProcessATick /\ TicksLeft)'
  BY <1>5, ConsoleConstants
     DEF Inv, TypeOK, MutexOfTick, InTick, ClockAhead, OneProcessATick,
         TicksLeft, Command, CreateScreen, ticker
<1>6. ASSUME NEW n \in UserNames, Reattach(n)
      PROVE  (MutexOfTick /\ ClockAhead /\ OneProcessATick /\ TicksLeft)'
  BY <1>6, ConsoleConstants
     DEF Inv, TypeOK, MutexOfTick, InTick, ClockAhead, OneProcessATick,
         TicksLeft, Command, Reattach, ticker, shared, procs
<1>7. CASE LeaveScreen
  BY <1>7, ConsoleConstants
     DEF Inv, TypeOK, MutexOfTick, InTick, ClockAhead, OneProcessATick,
         TicksLeft, Detach, LeaveScreen, ticker, shared, procs
<1>8. CASE Exit
  BY <1>8, ConsoleConstants
     DEF Inv, TypeOK, MutexOfTick, InTick, ClockAhead, OneProcessATick,
         TicksLeft, Exit, ticker, procs
<1>9. CASE Join
  BY <1>9, ConsoleConstants
     DEF Inv, TypeOK, MutexOfTick, InTick, ClockAhead, OneProcessATick,
         TicksLeft, Join, ticker, shared, procs
<1>10. CASE Loop
  BY <1>10, ConsoleConstants
     DEF Inv, TypeOK, MutexOfTick, InTick, ClockAhead, OneProcessATick,
         TicksLeft, GoOn, Loop, main, shared, procs
<1>11. CASE WakeUp
  BY <1>11, ConsoleConstants
     DEF Inv, TypeOK, MutexOfTick, InTick, ClockAhead, OneProcessATick,
         TicksLeft, WakeUp, main, shared, procs
<1>12. CASE CountOnly
  BY <1>12, ConsoleConstants
     DEF Inv, TypeOK, MutexOfTick, InTick, ClockAhead, OneProcessATick,
         TicksLeft, NextTick, CountOnly, main, procs
<1>13. CASE LockAndCount
  BY <1>13, ConsoleConstants
     DEF Inv, TypeOK, MutexOfTick, InTick, ClockAhead, OneProcessATick,
         TicksLeft, NextTick, LockAndCount, main, procs
<1>14. CASE CheckBatch
  BY <1>14, ConsoleConstants
     DEF Inv, TypeOK, MutexOfTick, InTick, ClockAhead, OneProcessATick,
         TicksLeft, CheckBatch, main, shared, procs
<1>15. CASE TickGenerates
  BY <1>15, ConsoleConstants
     DEF Inv, TypeOK, MutexOfTick, InTick, ClockAhead, OneProcessATick,
         TicksLeft, GenerateBatchProcess, BatchClock, TickGenerates, main
<1>16. CASE OnTick
  BY <1>16, ConsoleConstants
     DEF Inv, TypeOK, MutexOfTick, InTick, ClockAhead, OneProcessATick,
         TicksLeft, OnTick, main
<1>17. CASE UNCHANGED vars
  BY <1>17, ConsoleConstants
     DEF Inv, TypeOK, MutexOfTick, InTick, ClockAhead, OneProcessATick,
         TicksLeft, vars, main, ticker, shared, procs
<1> QED
  BY <1>1, <1>2, <1>3, <1>4, <1>5, <1>6, <1>7, <1>8, <1>9, <1>10, <1>11,
     <1>12, <1>13, <1>14, <1>15, <1>16, <1>17 DEF Next, Main, Ticker

(* The batch clock, and the process that a stop does not hold back.         *)
LEMMA BatchKept == Inv /\ [Next]_vars => (BatchClockIsBirth /\ OneOnItsWay)'
<1> SUFFICES ASSUME Inv, [Next]_vars PROVE (BatchClockIsBirth /\ OneOnItsWay)'
  OBVIOUS
<1>1. CASE Initialize
  BY <1>1
     DEF Inv, TypeOK, BatchClockIsBirth, OneOnItsWay, Initialize, ticker, procs
<1>2. CASE SchedulerStart
  BY <1>2
     DEF Inv, TypeOK, BatchClockIsBirth, OneOnItsWay, Command, SchedulerStart,
         ticker, shared, procs
<1>3. CASE StartBatch
  BY <1>3, ConsoleConstants
     DEF Inv, TypeOK, MutexOfTick, InTick, BatchClockIsBirth, OneOnItsWay,
         GenerateBatchProcess, BatchClock, NextTick, StartBatch, ticker
<1>4. CASE SchedulerStop
  BY <1>4
     DEF Inv, TypeOK, BatchClockIsBirth, OneOnItsWay, Command, SchedulerStop,
         main, ticker
<1>5. ASSUME NEW n \in UserNames, NEW attach \in BOOLEAN,
             CreateScreen(n, attach)
      PROVE  (BatchClockIsBirth /\ OneOnItsWay)'
  BY <1>5
     DEF Inv, TypeOK, BatchClockIsBirth, OneOnItsWay, Command, CreateScreen,
         ticker
<1>6. ASSUME NEW n \in UserNames, Reattach(n)
      PROVE  (BatchClockIsBirth /\ OneOnItsWay)'
  BY <1>6
     DEF Inv, TypeOK, BatchClockIsBirth, OneOnItsWay, Command, Reattach,
         ticker, shared, procs
<1>7. CASE LeaveScreen
  BY <1>7
     DEF Inv, TypeOK, BatchClockIsBirth, OneOnItsWay, Detach, LeaveScreen,
         ticker, shared, procs
<1>8. CASE Exit
  BY <1>8
     DEF Inv, TypeOK, BatchClockIsBirth, OneOnItsWay, Exit, ticker, procs
<1>9. CASE Join
  BY <1>9
     DEF Inv, TypeOK, BatchClockIsBirth, OneOnItsWay, Join, ticker, shared,
         procs
<1>10. CASE Loop
  BY <1>10
     DEF Inv, TypeOK, BatchClockIsBirth, OneOnItsWay, GoOn, Loop, main, shared,
         procs
<1>11. CASE WakeUp
  BY <1>11
     DEF Inv, TypeOK, BatchClockIsBirth, OneOnItsWay, WakeUp, main, shared,
         procs
<1>12. CASE CountOnly
  BY <1>12
     DEF Inv, TypeOK, BatchClockIsBirth, OneOnItsWay, NextTick, CountOnly,
         main, procs
<1>13. CASE LockAndCount
  BY <1>13
     DEF Inv, TypeOK, BatchClockIsBirth, OneOnItsWay, NextTick, LockAndCount,
         main, procs
<1>14. CASE CheckBatch
  BY <1>14
     DEF CheckBatch, IsDue, Inv, TypeOK, BatchClockIsBirth, OneOnItsWay, main,
         shared, procs
<1>15. CASE TickGenerates
  BY <1>15
     DEF Inv, TypeOK, ClockAhead, InTick, BatchClockIsBirth, OneOnItsWay,
         GenerateBatchProcess, BatchClock, TickGenerates, main
<1>16. CASE OnTick
  BY <1>16
     DEF Inv, TypeOK, BatchClockIsBirth, OneOnItsWay, OnTick, main
<1>17. CASE UNCHANGED vars
  BY <1>17
     DEF Inv, TypeOK, BatchClockIsBirth, OneOnItsWay, vars, main, ticker,
         shared, procs
<1> QED
  BY <1>1, <1>2, <1>3, <1>4, <1>5, <1>6, <1>7, <1>8, <1>9, <1>10, <1>11,
     <1>12, <1>13, <1>14, <1>15, <1>16, <1>17 DEF Next, Main, Ticker

LEMMA PeriodPositive == BatchPeriod \in Nat /\ BatchPeriod >= 1
<1>1. ExecutionPeriod \in Nat /\ ExecutionPeriod >= 1
  BY ConsoleConstants DEF ExecutionPeriod
<1>2. BatchProcessFreq \in Nat /\ BatchProcessFreq >= 1
  BY ConsoleConstants
<1> HIDE DEF ExecutionPeriod
<1>3. \A a, b \in Nat : a >= 1 /\ b >= 1 => a * b \in Nat /\ a * b >= 1
  OBVIOUS
<1> QED
  BY <1>1, <1>2, <1>3 DEF BatchPeriod

(* The remainder of what the width holds is the thing itself.              *)
LEMMA NoWrap ==
  ASSUME NEW x \in Nat, x < 2^WordBits
  PROVE  x % 2^WordBits = x
<1>1. 2^WordBits \in Nat \ {0}
  BY ConsoleConstants
<1> QED
  BY <1>1

(* The scheduler exists before anything asks it for a process.             *)
LEMMA SchedulerFirstKept == Inv /\ [Next]_vars => SchedulerFirst'
<1> SUFFICES ASSUME Inv, [Next]_vars PROVE SchedulerFirst'
  OBVIOUS
<1>1. CASE Main
  BY <1>1
     DEF Main, Initialize, SchedulerStart, StartBatch, SchedulerStop, CreateScreen,
         Reattach, LeaveScreen, Exit, Join, Command, Inv, SchedulerFirst, main, shared
<1>2. CASE Ticker
  BY <1>2
     DEF Ticker, Loop, WakeUp, CountOnly, LockAndCount, CheckBatch, TickGenerates,
         OnTick, Inv, SchedulerFirst, main, shared
<1>3. CASE UNCHANGED vars
  BY <1>3 DEF vars, main, shared, Inv, SchedulerFirst
<1> QED
  BY <1>1, <1>2, <1>3 DEF Next

(* A step of the command thread that generates nothing leaves the clock.   *)
LEMMA TimeStands ==
  ASSUME Inv, UNCHANGED <<tickPc, currentTick, cpuCycles, born>>,
         batchRunning' => batchRunning
  PROVE  BatchOnTime'
BY DEF Inv, BatchOnTime

(* The batch is never early, late by no tick.                              *)
LEMMA TimeKept == Inv /\ [Next]_vars => BatchOnTime'
<1> SUFFICES ASSUME Inv, [Next]_vars PROVE BatchOnTime'
  OBVIOUS
<1>1. /\ cpuCycles \in Nat /\ currentTick \in Nat /\ born \in Nat
      /\ BatchPeriod \in Nat /\ BatchPeriod >= 1 /\ born <= cpuCycles
      /\ tickPc \in InTick => currentTick = cpuCycles
  BY PeriodPositive DEF Inv, TypeOK, BatchClockIsBirth, ClockAhead
<1>2. CASE \/ Initialize \/ SchedulerStart \/ SchedulerStop \/ LeaveScreen \/ Exit \/ Join
           \/ \E n \in UserNames : \/ \E attach \in BOOLEAN : CreateScreen(n, attach)
                                   \/ Reattach(n)
           \/ UNCHANGED vars
  BY <1>2, TimeStands
     DEF Initialize, SchedulerStart, SchedulerStop, CreateScreen, Reattach, LeaveScreen,
         Exit, Join, vars, main, ticker, shared, procs
<1>3. CASE StartBatch
  <2>1. born' = cpuCycles' /\ cpuCycles' \in Nat /\ tickPc' = tickPc
    BY <1>1, <1>3 DEF StartBatch, GenerateBatchProcess, NextTick, ticker
  <2>2. tickPc \notin InTick
    BY <1>3, ConsoleConstants DEF StartBatch, Inv, MutexOfTick
  <2>3. tickPc' \notin {"check", "generate", "tick"}
    BY <2>1, <2>2 DEF InTick
  <2>4. \A t \in Nat : t - t = 0
    OBVIOUS
  <2>5. cpuCycles' - born' = 0
    BY <2>1, <2>4
  <2>6. cpuCycles' - born' < BatchPeriod
    BY <1>1, <2>5
  <2> QED
    BY <2>1, <2>3, <2>6 DEF BatchOnTime
<1>4. CASE Loop
  BY <1>1, <1>4 DEF Loop, Inv, BatchOnTime, shared, procs
<1>5. CASE WakeUp
  BY <1>1, <1>5 DEF WakeUp, Inv, BatchOnTime, SchedulerFirst, shared, procs
<1>6. CASE CountOnly
  BY <1>1, <1>6 DEF CountOnly, NextTick, Inv, BatchOnTime, procs
<1>7. CASE LockAndCount
  BY <1>1, <1>7 DEF LockAndCount, NextTick, Inv, BatchOnTime, procs
<1>8. CASE CheckBatch
  <2> DEFINE since == currentTick - born
  <2>1. since \in Nat /\ tickPc = "check"
    BY <1>1, <1>8 DEF CheckBatch, InTick
  <2>2. batchRunning => since <= BatchPeriod \/ since = 2
    BY <1>1, <2>1 DEF Inv, BatchOnTime
  <2>3. batchRunning => since < 2^WordBits
    BY <1>1, <2>1, <2>2, PeriodFits, ConsoleConstants
  <2>4. IsDue(currentTick) <=> batchRunning /\ since >= BatchPeriod
    BY <2>1, <2>3, NoWrap DEF IsDue, Inv, BatchClockIsBirth
  <2>5. UNCHANGED <<currentTick, born, batchRunning>>
    BY <1>8 DEF CheckBatch, shared, procs
  <2>6. CASE IsDue(currentTick)
    <3>1. OnePeriod(since)
      BY <1>1, <2>1, <2>2, <2>4, <2>6 DEF OnePeriod
    <3> QED
      BY <1>8, <2>5, <2>6, <3>1 DEF CheckBatch, BatchOnTime
  <2>7. CASE ~ IsDue(currentTick)
    BY <1>1, <1>8, <2>1, <2>4, <2>5, <2>7 DEF CheckBatch, BatchOnTime
  <2> QED
    BY <2>6, <2>7
<1>9. CASE TickGenerates
  BY <1>1, <1>9 DEF TickGenerates, GenerateBatchProcess, BatchOnTime
<1>10. CASE OnTick
  BY <1>1, <1>10 DEF OnTick, Inv, BatchOnTime, InTick
<1> QED
  BY <1>2, <1>3, <1>4, <1>5, <1>6, <1>7, <1>8, <1>9, <1>10 DEF Next, Main, Ticker

(* Both threads generate batch processes.                                  *)
LEMMA BatchBorn ==
  ASSUME Inv, StartBatch \/ TickGenerates
  PROVE  /\ allProcs' \in Seq(Records) /\ batchCounter' \in 0 .. Len(allProcs')
         /\ born' \in Nat /\ lastBatchGenerationTick' \in Nat
         /\ meant' = meant /\ meant \in DOMAIN allProcs' \cup {None}
         /\ \E ps \in AfterTick : \E r \in Records : allProcs' = Append(ps, r)
<1>1. CASE StartBatch
  <2>1. PICK ps \in AfterTick : GenerateBatchProcess(cpuCycles', ps)
    BY <1>1 DEF StartBatch
  <2>2. batchCounter < cpuCycles' /\ cpuCycles' \in Nat /\ cpuCycles' <= MaxTicks + 1
    BY <1>1, ConsoleConstants
       DEF StartBatch, Inv, TypeOK, OneProcessATick, TicksLeft, NextTick
  <2>3. cpuCycles' \in Nat
    BY <2>2, <1>1 DEF StartBatch, Inv, TypeOK
  <2>4. /\ allProcs' \in Seq(Records)
        /\ \E r \in Records : allProcs' = Append(ps, r)
        /\ batchCounter' \in 0 .. Len(allProcs') /\ born' = cpuCycles'
        /\ lastBatchGenerationTick' = cpuCycles'
    BY <2>1, <2>2, <2>3, Generated DEF Inv
  <2>5. meant' = meant /\ meant \in DOMAIN allProcs' \cup {None}
    BY <1>1, <2>1, <2>4, TickKeepsNames, NewcomerIsLast
       DEF Inv, TypeOK, Records, StartBatch, main
  <2> QED
    BY <2>3, <2>4, <2>5
<1>2. CASE TickGenerates
  <2>1. PICK ps \in AfterTick : GenerateBatchProcess(currentTick, ps)
    BY <1>2, TickMayKillNone DEF TickGenerates, Inv, TypeOK, Records
  <2>2. batchCounter < cpuCycles' /\ cpuCycles' \in Nat /\ cpuCycles' <= MaxTicks + 1
    BY <1>2, ConsoleConstants
       DEF TickGenerates, Inv, TypeOK, OneProcessATick, TicksLeft, NextTick
  <2>3. currentTick \in Nat
    BY <2>2, <1>2 DEF TickGenerates, Inv, TypeOK
  <2>4. /\ allProcs' \in Seq(Records)
        /\ \E r \in Records : allProcs' = Append(ps, r)
        /\ batchCounter' \in 0 .. Len(allProcs') /\ born' = currentTick
        /\ lastBatchGenerationTick' = currentTick
    BY <2>1, <2>2, <2>3, Generated DEF Inv
  <2>5. meant' = meant /\ meant \in DOMAIN allProcs' \cup {None}
    BY <1>2, <2>1, <2>4, TickKeepsNames, NewcomerIsLast
       DEF Inv, TypeOK, Records, TickGenerates, main
  <2> QED
    BY <2>3, <2>4, <2>5
<1> QED
  BY <1>1, <1>2

(* The screen.                                                             *)
LEMMA ScreenKept == Inv /\ [Next]_vars => (MeantIsFirst)'
<1> SUFFICES ASSUME Inv, [Next]_vars PROVE (MeantIsFirst)'
  OBVIOUS
<1>1. CASE Initialize
  BY <1>1
     DEF Inv, MeantIsFirst, Initialize, ticker, procs
<1>2. CASE SchedulerStart
  BY <1>2
     DEF Inv, MeantIsFirst, Command, SchedulerStart, ticker, shared, procs
<1>3. CASE StartBatch
  BY <1>3, BatchBorn, MeantStays DEF Inv, TypeOK, Records, StartBatch, main
<1>4. CASE SchedulerStop
  BY <1>4
     DEF Inv, MeantIsFirst, Command, SchedulerStop, main, ticker
<1>5. ASSUME NEW n \in UserNames, NEW attach \in BOOLEAN,
             CreateScreen(n, attach)
      PROVE  (MeantIsFirst)'
  <2>1. /\ NewProcess(n) \in Records /\ allProcs \in Seq(Records)
        /\ allProcs' = Append(allProcs, NewProcess(n))
    BY <1>5 DEF CreateScreen, Inv, TypeOK, Records, NewProcess
  <2>2. CASE attach
    <3>1. attached' = n /\ meant' = Len(allProcs) + 1
      BY <1>5, <2>2 DEF CreateScreen, AttachToProcess
    <3>2. /\ meant' \in DOMAIN allProcs' /\ allProcs'[meant'].name = n
          /\ DOMAIN allProcs' = 1 .. Len(allProcs) + 1
          /\ \A i \in DOMAIN allProcs : allProcs'[i].name # n
      BY <1>5, <2>1, <3>1, NewcomerIsLast DEF CreateScreen, NewProcess
    <3>3. \A i \in DOMAIN allProcs' : allProcs'[i].name = n => meant' <= i
      BY <2>1, <3>1, <3>2
    <3> QED
      BY <3>1, <3>2, <3>3 DEF MeantIsFirst
  <2>3. CASE ~ attach
    <3>1. attached' = None
      BY <1>5, <2>3 DEF CreateScreen, Command
    <3> QED
      BY <3>1 DEF MeantIsFirst
  <2> QED
    BY <2>2, <2>3
<1>6. ASSUME NEW n \in UserNames, Reattach(n)
      PROVE  (MeantIsFirst)'
  BY <1>6, FirstNamedIsFirst
     DEF Reattach, AttachToProcess, MeantIsFirst, Inv, TypeOK, Records, shared, procs
<1>7. CASE LeaveScreen
  BY <1>7
     DEF Inv, MeantIsFirst, Detach, LeaveScreen, ticker, shared, procs
<1>8. CASE Exit
  BY <1>8
     DEF Inv, MeantIsFirst, Exit, ticker, procs
<1>9. CASE Join
  BY <1>9
     DEF Inv, MeantIsFirst, Join, ticker, shared, procs
<1>10. CASE Loop
  BY <1>10
     DEF Inv, MeantIsFirst, GoOn, Loop, main, shared, procs
<1>11. CASE WakeUp
  BY <1>11
     DEF Inv, MeantIsFirst, WakeUp, main, shared, procs
<1>12. CASE CountOnly
  BY <1>12
     DEF Inv, MeantIsFirst, CountOnly, main, procs
<1>13. CASE LockAndCount
  BY <1>13
     DEF Inv, MeantIsFirst, LockAndCount, main, procs
<1>14. CASE CheckBatch
  BY <1>14
     DEF Inv, MeantIsFirst, CheckBatch, main, shared, procs
<1>15. CASE TickGenerates
  BY <1>15, BatchBorn, MeantStays DEF Inv, TypeOK, Records, TickGenerates, main
<1>16. CASE OnTick
  <2>1. allProcs' \in AfterTick /\ attached' = attached /\ meant' = meant
    BY <1>16 DEF OnTick, main
  <2> QED
    BY <2>1, MeantStays DEF Inv, TypeOK, Records
<1>17. CASE UNCHANGED vars
  BY <1>17
     DEF Inv, MeantIsFirst, vars, main, ticker, shared, procs
<1> QED
  BY <1>1, <1>2, <1>3, <1>4, <1>5, <1>6, <1>7, <1>8, <1>9, <1>10, <1>11,
     <1>12, <1>13, <1>14, <1>15, <1>16, <1>17 DEF Next, Main, Ticker

(* Types.                                                                  *)
LEMMA TypesKept == Inv /\ [Next]_vars => (TypeOK)'
<1> SUFFICES ASSUME Inv, [Next]_vars PROVE (TypeOK)'
  OBVIOUS
<1>1. CASE Initialize
  BY <1>1
     DEF Inv, TypeOK, Initialize, ticker, procs
<1>2. CASE SchedulerStart
  BY <1>2
     DEF Inv, TypeOK, Command, SchedulerStart, ticker, shared, procs
<1>3. CASE StartBatch
  BY <1>3, BatchBorn DEF Inv, TypeOK, Records, StartBatch, NextTick, ticker
<1>4. CASE SchedulerStop
  BY <1>4
     DEF Inv, TypeOK, Command, SchedulerStop, main, ticker
<1>5. ASSUME NEW n \in UserNames, NEW attach \in BOOLEAN,
             CreateScreen(n, attach)
      PROVE  (TypeOK)'
  <2>1. /\ NewProcess(n) \in Records /\ allProcs \in Seq(Records)
        /\ allProcs' = Append(allProcs, NewProcess(n))
    BY <1>5 DEF CreateScreen, Inv, TypeOK, Records, NewProcess
  <2>2. /\ allProcs' \in Seq(Records) /\ Len(allProcs') = Len(allProcs) + 1
        /\ DOMAIN allProcs' = 1 .. Len(allProcs) + 1
        /\ Len(allProcs) \in Nat /\ DOMAIN allProcs = 1 .. Len(allProcs)
    BY <2>1, NewcomerIsLast
  <2>3. /\ attached' \in UserNames \cup {None}
        /\ meant' \in DOMAIN allProcs' \cup {None}
        /\ batchCounter' \in 0 .. Len(allProcs')
    BY <1>5, <2>2 DEF CreateScreen, AttachToProcess, Inv, TypeOK
  <2> QED
    BY <1>5, <2>2, <2>3 DEF CreateScreen, Inv, TypeOK, Records, ticker
<1>6. ASSUME NEW n \in UserNames, Reattach(n)
      PROVE  (TypeOK)'
  BY <1>6, FirstNamedIsFirst
     DEF Reattach, AttachToProcess, Inv, TypeOK, Records, shared, procs, ticker
<1>7. CASE LeaveScreen
  BY <1>7
     DEF Inv, TypeOK, Detach, LeaveScreen, ticker, shared, procs
<1>8. CASE Exit
  BY <1>8
     DEF Inv, TypeOK, Exit, ticker, procs
<1>9. CASE Join
  BY <1>9
     DEF Inv, TypeOK, Join, ticker, shared, procs
<1>10. CASE Loop
  BY <1>10
     DEF Inv, TypeOK, GoOn, Loop, main, shared, procs
<1>11. CASE WakeUp
  BY <1>11
     DEF Inv, TypeOK, WakeUp, main, shared, procs
<1>12. CASE CountOnly
  BY <1>12
     DEF Inv, TypeOK, NextTick, CountOnly, main, procs
<1>13. CASE LockAndCount
  BY <1>13
     DEF Inv, TypeOK, NextTick, LockAndCount, main, procs
<1>14. CASE CheckBatch
  BY <1>14
     DEF Inv, TypeOK, CheckBatch, main, shared, procs
<1>15. CASE TickGenerates
  BY <1>15, BatchBorn DEF Inv, TypeOK, Records, TickGenerates, main
<1>16. CASE OnTick
  <2>1. /\ allProcs' \in Seq(Records) /\ Len(allProcs') = Len(allProcs)
        /\ DOMAIN allProcs' = DOMAIN allProcs
    BY <1>16, TickKeepsNames DEF OnTick, Inv, TypeOK, Records
  <2> QED
    BY <1>16, <2>1 DEF OnTick, Inv, TypeOK, Records, main
<1>17. CASE UNCHANGED vars
  BY <1>17
     DEF Inv, TypeOK, vars, main, ticker, shared, procs
<1> QED
  BY <1>1, <1>2, <1>3, <1>4, <1>5, <1>6, <1>7, <1>8, <1>9, <1>10, <1>11,
     <1>12, <1>13, <1>14, <1>15, <1>16, <1>17 DEF Next, Main, Ticker

------------------------------------------------------------------------------
THEOREM Consistent == Spec => []Inv
<1>1. Inv /\ [Next]_vars => Inv'
  BY TypesKept, ClocksKept, BatchKept, SchedulerFirstKept, TimeKept, ScreenKept DEF Inv
<1> QED
  BY <1>1, Initially, PTL DEF Spec

(* Every step of either thread leaves each variable in its type.           *)
THEOREM TypeCorrect == Spec => []TypeOK
<1>1. Inv => TypeOK
  BY DEF Inv
<1> QED
  BY <1>1, Consistent, PTL

(* backgroundTickLoop() and scheduler-start never call onTick() twice with *)
(* one tick, nor with an earlier one.                                      *)
THEOREM TicksGrow == Spec => TicksInOrder
<1>1. Inv /\ [Next]_vars => [OnTick \/ StartBatch => ticked' > ticked]_vars
  <2>1. ASSUME Inv, OnTick PROVE ticked' > ticked
    BY <2>1 DEF Inv, TypeOK, ClockAhead, InTick, OnTick
  <2>2. ASSUME Inv, StartBatch PROVE ticked' > ticked
    BY <2>2 DEF Inv, TypeOK, ClockAhead, StartBatch, NextTick
  <2> QED
    BY <2>1, <2>2
<1> QED
  BY <1>1, Consistent, PTL DEF Spec, TicksInOrder

(* The tick thread generates a process exactly a batch period after the    *)
(* last one and lets no tick pass with one due: the difference of unsigned *)
(* ticks never wraps, and the start-up race costs one tick at most, once.  *)
THEOREM BatchesApart == Spec => BatchSpacing
<1> DEFINE Spacing == /\ TickGenerates => OnePeriod(currentTick - born)
                      /\ OnTick /\ batchRunning => currentTick - born < BatchPeriod
<1>1. Inv /\ [Next]_vars => [Spacing]_vars
  BY DEF Inv, BatchOnTime, TickGenerates, OnTick
<1> QED
  BY <1>1, Consistent, PTL DEF Spec, BatchSpacing

(* scheduler-stop, which takes no lock, is overtaken once at most.         *)
THEOREM StopLetsOneThrough == Spec => []AtMostOneAfterStop
<1>1. Inv => AtMostOneAfterStop
  BY DEF Inv, OneOnItsWay, AtMostOneAfterStop
<1> QED
  BY <1>1, Consistent, PTL

(* The lookup by name that every command of a screen repeats finds the     *)
(* process the user attached to.                                           *)
THEOREM ScreenIsFaithful == Spec => []ScreenKeepsItsProcess
<1>1. Inv => ScreenKeepsItsProcess
  <2> SUFFICES ASSUME Inv, attached # None PROVE FirstNamed(attached) = meant
    BY DEF ScreenKeepsItsProcess
  <2>1. /\ meant \in DOMAIN allProcs /\ allProcs[meant].name = attached
        /\ \A i \in DOMAIN allProcs : allProcs[i].name = attached => meant <= i
    BY DEF Inv, MeantIsFirst
  <2>2. allProcs \in Seq(Records)
    BY DEF Inv, TypeOK, Records
  <2>3. /\ FirstNamed(attached) \in DOMAIN allProcs
        /\ allProcs[FirstNamed(attached)].name = attached
        /\ FirstNamed(attached) <= meant
    BY <2>1, <2>2, FirstNamedIsFirst
  <2>4. meant <= FirstNamed(attached)
    BY <2>1, <2>3
  <2>5. DOMAIN allProcs = 1 .. Len(allProcs)
    BY <2>2
  <2> QED
    BY <2>1, <2>3, <2>4, <2>5
<1> QED
  BY <1>1, Consistent, PTL
==============================================================================
