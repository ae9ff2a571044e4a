---------------------------- MODULE EventLog_proofs ----------------------------
(***************************************************************************)
(* What the files of a run lack at any time, for every number of processes *)
(* and frames and every flush period.  An event waits only in the tick it  *)
(* comes in, and a line of a trace only while no flush came by: that is    *)
(* what the steps keep, and the bounds follow.                             *)
(***************************************************************************)
EXTENDS EventLog, FifoQueue_proofs, SequenceTheorems

(* Of n lines, the last ones wait; the others are in the file, each once   *)
(* and in order, but for those of lost.                                    *)
Counted(log, wait, lost, n) ==
  LET flushed == n - Len(wait)
  IN  /\ flushed \in Nat /\ lost \subseteq 1 .. flushed
      /\ Numbers(log) = (1 .. flushed) \ lost /\ Ascending(log)
      /\ \A i \in DOMAIN wait : wait[i].n = flushed + i

LinesCounted ==
  \A pid \in Pids : Counted(procLog[pid], trace[pid], unwritten[pid], said[pid])

(* An event is in the file, or its tick is lost, or it waits; what waits   *)
(* came in this tick.                                                      *)
EventsAccounted ==
  /\ \A i \in DOMAIN pendingEvents : pendingEvents[i].tick = tick
  /\ \A i \in DOMAIN events :
       \/ events[i] \in ToSet(file) \cup ToSet(pendingEvents)
       \/ events[i].tick \in lostTicks

(* No flush came by since a line that waits, if the last one found the     *)
(* file of its process, unless it was due in the tick nobody saw.          *)
NoFlushSince ==
  \A pid \in Pids \ unopened : \A i \in DOMAIN trace[pid] :
    /\ trace[pid][i].tick <= tick
    /\ \A t \in trace[pid][i].tick .. tick - 1 :
         t % FlushTicks = 0 => t = unseen /\ trace[pid][i].tick < t

UnseenPast == unseen < tick

Inv == TypeOK /\ LinesCounted /\ EventsAccounted /\ NoFlushSince /\ UnseenPast
       /\ ExitLosesNothing

------------------------------------------------------------------------------
(* Sequences, appended to.                                                 *)
LEMMA Appended ==
  ASSUME NEW T, NEW s \in Seq(T), NEW t \in Seq(T)
  PROVE  /\ s \o t \in Seq(T)
         /\ ToSet(s \o t) = ToSet(s) \cup ToSet(t)
         /\ Len(s \o t) = Len(s) + Len(t)
         /\ \A i \in DOMAIN (s \o t) :
              \/ i \in DOMAIN s /\ (s \o t)[i] = s[i]
              \/ \E j \in DOMAIN t : i = Len(s) + j /\ (s \o t)[i] = t[j]
<1> DEFINE u == s \o t
<1>1. /\ u \in Seq(T) /\ Len(u) = Len(s) + Len(t)
      /\ Len(s) \in Nat /\ Len(t) \in Nat
      /\ DOMAIN s = 1 .. Len(s) /\ DOMAIN t = 1 .. Len(t) /\ DOMAIN u = 1 .. Len(u)
  OBVIOUS
<1>2. \A i \in DOMAIN s : i \in DOMAIN u /\ u[i] = s[i]
  BY <1>1
<1>3. \A i \in DOMAIN t : Len(s) + i \in DOMAIN u /\ u[Len(s) + i] = t[i]
  BY <1>1
<1>4. ASSUME NEW i \in DOMAIN u
      PROVE  \/ i \in DOMAIN s /\ u[i] = s[i]
             \/ \E j \in DOMAIN t : i = Len(s) + j /\ u[i] = t[j]
  <2>1. CASE i <= Len(s)
    BY <2>1, <1>1, <1>2
  <2>2. CASE i > Len(s)
    <3> DEFINE j == i - Len(s)
    <3>1. j \in DOMAIN t /\ i = Len(s) + j
      BY <2>2, <1>1
    <3> QED
      BY <3>1, <1>3
  <2> QED
    BY <2>1, <2>2, <1>1
<1>5. ToSet(u) = ToSet(s) \cup ToSet(t)
  <2>1. ToSet(u) \subseteq ToSet(s) \cup ToSet(t)
    BY <1>4 DEF ToSet
  <2>2. ToSet(s) \subseteq ToSet(u)
    BY <1>2 DEF ToSet
  <2>3. ToSet(t) \subseteq ToSet(u)
    BY <1>3 DEF ToSet
  <2> QED
    BY <2>1, <2>2, <2>3
<1> QED
  BY <1>1, <1>2, <1>3, <1>4, <1>5

(* One line more is said: it waits.                                        *)
LEMMA CountedOneMore ==
  ASSUME NEW log \in Seq(TraceLines), NEW wait \in Seq(TraceLines), NEW lost,
         NEW n \in Nat, Counted(log, wait, lost, n),
         NEW line \in TraceLines, line.n = n + 1
  PROVE  Counted(log, Append(wait, line), lost, n + 1)
<1> DEFINE w == Append(wait, line)
           a == n - Len(wait)
<1>1. /\ Len(wait) \in Nat /\ Len(w) = Len(wait) + 1
      /\ DOMAIN wait = 1 .. Len(wait) /\ DOMAIN w = 1 .. Len(wait) + 1
      /\ \A i \in DOMAIN wait : w[i] = wait[i]
      /\ w[Len(wait) + 1] = line
  OBVIOUS
<1>2. n + 1 - Len(w) = a /\ a \in Nat /\ n + 1 = a + (Len(wait) + 1)
  BY <1>1 DEF Counted
<1>3. \A i \in DOMAIN wait : wait[i].n = a + i
  BY DEF Counted
<1>4. lost \subseteq 1 .. a /\ Numbers(log) = (1 .. a) \ lost /\ Ascending(log)
  BY DEF Counted
<1> HIDE DEF w, a
<1>5. ASSUME NEW i \in DOMAIN w
      PROVE  w[i].n = a + i
  <2>1. i \in DOMAIN wait \/ i = Len(wait) + 1
    BY <1>1
  <2>2. CASE i \in DOMAIN wait
    BY <2>2, <1>1, <1>3
  <2>3. CASE i = Len(wait) + 1
    BY <2>3, <1>1, <1>2
  <2> QED
    BY <2>1, <2>2, <2>3
<1>6. Counted(log, w, lost, n + 1)
  BY <1>2, <1>4, <1>5 DEF Counted
<1> QED
  BY <1>6 DEF w

(* What is said, in the file and waiting.                                  *)
LEMMA CountedTogether ==
  ASSUME NEW log \in Seq(TraceLines), NEW wait \in Seq(TraceLines), NEW lost,
         NEW n \in Nat, Counted(log, wait, lost, n)
  PROVE  /\ log \o wait \in Seq(TraceLines)
         /\ Numbers(log \o wait) = (1 .. n) \ lost /\ Ascending(log \o wait)
         /\ Numbers(wait) = (n - Len(wait) + 1) .. n
<1> DEFINE u == log \o wait
           a == n - Len(wait)
<1>1. /\ a \in Nat /\ lost \subseteq 1 .. a
      /\ Numbers(log) = (1 .. a) \ lost /\ Ascending(log)
      /\ \A i \in DOMAIN wait : wait[i].n = a + i
      /\ Len(wait) \in Nat /\ DOMAIN wait = 1 .. Len(wait) /\ n = a + Len(wait)
  BY DEF Counted
<1>2. /\ u \in Seq(TraceLines) /\ Len(u) = Len(log) + Len(wait)
      /\ Len(log) \in Nat /\ DOMAIN log = 1 .. Len(log) /\ DOMAIN u = 1 .. Len(u)
  BY Appended
<1>3. \A i \in DOMAIN log : i \in DOMAIN u /\ u[i] = log[i]
  BY <1>2
<1>4. \A i \in DOMAIN wait : Len(log) + i \in DOMAIN u /\ u[Len(log) + i] = wait[i]
  BY <1>1, <1>2
<1>5. \A i \in DOMAIN u : \/ i \in DOMAIN log /\ u[i] = log[i]
                         \/ \E j \in DOMAIN wait : i = Len(log) + j /\ u[i] = wait[j]
  BY Appended
<1> HIDE DEF u, a
<1>6. \A i \in DOMAIN log : log[i].n \in 1 .. a
  BY <1>1 DEF Numbers
<1>7. Numbers(wait) = (a + 1) .. n
  <2>1. ASSUME NEW k \in (a + 1) .. n
        PROVE  k \in Numbers(wait)
    <3>1. k - a \in DOMAIN wait /\ a + (k - a) = k
      BY <1>1
    <3>2. wait[k - a].n = k
      BY <1>1, <3>1
    <3> QED
      BY <3>1, <3>2 DEF Numbers
  <2>2. \A i \in DOMAIN wait : wait[i].n \in (a + 1) .. n
    BY <1>1
  <2> QED
    BY <2>1, <2>2 DEF Numbers
<1>8. Numbers(u) = Numbers(log) \cup Numbers(wait)
  <2>1. Numbers(u) \subseteq Numbers(log) \cup Numbers(wait)
    BY <1>5 DEF Numbers
  <2>2. Numbers(log) \subseteq Numbers(u)
    BY <1>3 DEF Numbers
  <2>3. Numbers(wait) \subseteq Numbers(u)
    BY <1>4 DEF Numbers
  <2> QED
    BY <2>1, <2>2, <2>3
<1>9. Numbers(u) = (1 .. n) \ lost
  BY <1>1, <1>7, <1>8
<1>10. Ascending(u)
  <2> SUFFICES ASSUME NEW i \in DOMAIN u, NEW j \in DOMAIN u, i < j
               PROVE  u[i].n < u[j].n
    BY DEF Ascending
  <2>1. CASE i \in DOMAIN log /\ u[i] = log[i] /\ j \in DOMAIN log /\ u[j] = log[j]
    BY <2>1, <1>1 DEF Ascending
  <2>2. CASE i \in DOMAIN log /\ u[i] = log[i] /\ j \notin DOMAIN log
    <3>1. PICK k \in DOMAIN wait : u[j] = wait[k]
      BY <2>2, <1>5
    <3>2. u[j].n = a + k /\ k >= 1 /\ k \in Nat /\ u[i].n \in 1 .. a
      BY <2>2, <3>1, <1>1, <1>6
    <3> QED
      BY <3>2, <1>1
  <2>3. CASE i \notin DOMAIN log
    <3>1. PICK k \in DOMAIN wait : i = Len(log) + k /\ u[i] = wait[k]
      BY <2>3, <1>5
    <3>2. j \notin DOMAIN log
      BY <2>3, <1>2
    <3>3. PICK l \in DOMAIN wait : j = Len(log) + l /\ u[j] = wait[l]
      BY <3>2, <1>5
    <3>4. k < l /\ u[i].n = a + k /\ u[j].n = a + l
      BY <3>1, <3>3, <1>1, <1>2
    <3> QED
      BY <3>4, <1>1
  <2> QED
    BY <1>5, <2>1, <2>2, <2>3
<1> QED
  BY <1>2, <1>7, <1>9, <1>10 DEF u, a

(* They are written: nothing waits.                                        *)
LEMMA CountedWritten ==
  ASSUME NEW log \in Seq(TraceLines), NEW wait \in Seq(TraceLines), NEW lost,
         NEW n \in Nat, Counted(log, wait, lost, n)
  PROVE  Counted(log \o wait, <<>>, lost, n)
<1>1. lost \subseteq 1 .. n - Len(wait) /\ Len(wait) \in Nat /\ n - Len(wait) \in Nat
  BY DEF Counted
<1>2. n - Len(<<>>) = n /\ lost \subseteq 1 .. n /\ DOMAIN <<>> = {}
  BY <1>1
<1>3. Numbers(log \o wait) = (1 .. n) \ lost /\ Ascending(log \o wait)
  BY CountedTogether
<1> QED
  BY <1>2, <1>3 DEF Counted

(* The write fails: nothing waits either.                                  *)
LEMMA CountedLost ==
  ASSUME NEW log \in Seq(TraceLines), NEW wait \in Seq(TraceLines), NEW lost,
         NEW n \in Nat, Counted(log, wait, lost, n)
  PROVE  Counted(log, <<>>, lost \cup Numbers(wait), n)
<1> DEFINE a == n - Len(wait)
<1>1. /\ lost \subseteq 1 .. a /\ Len(wait) \in Nat /\ a \in Nat
      /\ Numbers(log) = (1 .. a) \ lost /\ Ascending(log)
  BY DEF Counted
<1>2. Numbers(wait) = (a + 1) .. n
  BY CountedTogether
<1>3. a <= n
  BY <1>1
<1>4. n - Len(<<>>) = n /\ DOMAIN <<>> = {}
  OBVIOUS
<1> HIDE DEF a
<1>5. lost \cup Numbers(wait) \subseteq 1 .. n
  BY <1>1, <1>2, <1>3
<1>6. Numbers(log) = (1 .. n) \ (lost \cup Numbers(wait))
  BY <1>1, <1>2, <1>3
<1> QED
  BY <1>1, <1>4, <1>5, <1>6 DEF Counted

(* What pageIn() logs are events of this tick.                             *)
LEMMA MovementsNow ==
  ASSUME NEW p \in Pages, NEW victim \in SUBSET Pages, TypeOK,
         victim = {} \/ Cardinality(victim) = 1
  PROVE  /\ Movements(p, victim) \in Seq(Events)
         /\ \A i \in DOMAIN Movements(p, victim) : Movements(p, victim)[i].tick = tick
<1> DEFINE e == Event(CHOOSE q \in victim : TRUE, "evicted")
           g == Event(p, "paged in")
<1>1. \A q \in Pages, what \in {"paged in", "evicted"} :
        Event(q, what) \in Events /\ Event(q, what).tick = tick
  BY DEF Event, Events, TypeOK
<1>2. g \in Events /\ g.tick = tick
  BY <1>1
<1>3. victim # {} => e \in Events /\ e.tick = tick
  <2>1. victim # {} => (CHOOSE q \in victim : TRUE) \in Pages
    OBVIOUS
  <2> QED
    BY <1>1, <2>1
<1>4. Movements(p, victim) = IF victim = {} THEN <<g>> ELSE <<e, g>>
  BY DEF Movements
<1> HIDE DEF e, g
<1>5. <<g>> \in Seq(Events) /\ \A i \in DOMAIN <<g>> : <<g>>[i].tick = tick
  BY <1>2
<1>6. victim # {} => <<e, g>> \in Seq(Events) /\ \A i \in DOMAIN <<e, g>> : <<e, g>>[i].tick = tick
  BY <1>2, <1>3
<1> QED
  BY <1>4, <1>5, <1>6

------------------------------------------------------------------------------
(* A new process.                                                          *)
LEMMA AddProcessStep ==
  ASSUME Inv, NEW pid \in Pids, AddProcess(pid)
  PROVE  Inv'
<1>1. TypeOK'
  BY DEF Inv, TypeOK, AddProcess, tracing, PagesOf, Pages
<1> QED
  BY <1>1 DEF Inv, AddProcess, tracing, LinesCounted, EventsAccounted, NoFlushSince,
              UnseenPast, ExitLosesNothing

(* A process that is over: its frames go.                                  *)
LEMMA RemoveProcessStep ==
  ASSUME Inv, NEW pid \in Pids, RemoveProcess(pid)
  PROVE  Inv'
<1>1. TypeOK'
  <2>1. Cardinality(frames') <= NumFrames
    <3>1. IsFiniteSet(frames)
      <4>1. IsFiniteSet(Pages)
        BY EventLogConstants, FS_Product DEF Pages
      <4> QED
        BY <4>1, FS_Subset DEF Inv, TypeOK
    <3>2. frames' \subseteq frames
      BY DEF RemoveProcess
    <3>3. Cardinality(frames') <= Cardinality(frames)
      BY <3>1, <3>2, FS_Subset
    <3>4. IsFiniteSet(frames') /\ NumFrames \in Nat
      BY <3>1, <3>2, FS_Subset, EventLogConstants
    <3> QED
      BY <3>1, <3>3, <3>4, FS_CardinalityType DEF Inv, TypeOK
  <2> QED
    BY <2>1 DEF Inv, TypeOK, RemoveProcess, tracing
<1> QED
  BY <1>1 DEF Inv, RemoveProcess, tracing, LinesCounted, EventsAccounted, NoFlushSince,
              UnseenPast, ExitLosesNothing

(* A page comes in, and another one has to go if there is no room: the     *)
(* frames stay as many, the events wait for the end of the tick.           *)
LEMMA PageInStep ==
  ASSUME Inv, NEW p \in Pages, NEW victim \in SUBSET Pages, PageIn(p, victim)
  PROVE  Inv'
<1>1. /\ phase = "running" /\ UNCHANGED <<phase, tick, unseen, file, lostTicks>>
      /\ UNCHANGED <<trace, procLog, said, unopened, unwritten>>
      /\ pendingEvents' = pendingEvents \o Movements(p, victim)
      /\ events' = events \o Movements(p, victim)
      /\ \/ victim = {} /\ Cardinality(frames) < NumFrames
         \/ Cardinality(victim) = 1 /\ victim \subseteq frames
  BY DEF PageIn, tracing
<1>2. /\ Movements(p, victim) \in Seq(Events)
      /\ \A i \in DOMAIN Movements(p, victim) : Movements(p, victim)[i].tick = tick
  BY <1>1, MovementsNow DEF Inv
<1>3. TypeOK'
  <2>1. IsFiniteSet(frames)
    <3>1. IsFiniteSet(Pages)
      BY EventLogConstants, FS_Product DEF Pages
    <3> QED
      BY <3>1, FS_Subset DEF Inv, TypeOK
  <2>2. Cardinality(frames') <= NumFrames
    <3>1. frames' = (frames \ victim) \cup {p} /\ NumFrames \in Nat
      BY EventLogConstants DEF PageIn, FramesAfter
    <3>2. IsFiniteSet(frames \ victim) /\ Cardinality(frames \ victim) \in Nat
      BY <2>1, FS_Subset, FS_CardinalityType
    <3>3. Cardinality(frames \ victim) + 1 <= NumFrames
      <4>1. CASE victim = {} /\ Cardinality(frames) < NumFrames
        <5>1. frames \ victim = frames
          BY <4>1
        <5> QED
          BY <4>1, <5>1, <3>1, <3>2
      <4>2. CASE Cardinality(victim) = 1 /\ victim \subseteq frames
        <5>1. IsFiniteSet(victim) /\ frames \cap victim = victim
          BY <2>1, <4>2, FS_Subset
        <5>2. Cardinality(frames \ victim) = Cardinality(frames) - Cardinality(frames \cap victim)
          BY <2>1, FS_Difference
        <5>3. Cardinality(frames) \in Nat /\ Cardinality(frames) <= NumFrames
          BY <2>1, FS_CardinalityType DEF Inv, TypeOK
        <5> QED
          BY <5>1, <5>2, <5>3, <4>2, <3>1
      <4> QED
        BY <1>1, <4>1, <4>2
    <3>4. Cardinality(frames') <= Cardinality(frames \ victim) + 1
      <4> DEFINE rest == frames \ victim
      <4>1. Cardinality(rest \cup {p}) \in {Cardinality(rest), Cardinality(rest) + 1}
        BY <3>2, FS_AddElement
      <4> HIDE DEF rest
      <4>2. Cardinality(rest) \in Nat => Cardinality(rest \cup {p}) <= Cardinality(rest) + 1
        BY <4>1
      <4> QED
        BY <3>1, <3>2, <4>2 DEF rest
    <3>5. Cardinality(frames') \in Nat
      BY <3>1, <3>2, FS_AddElement, FS_CardinalityType
    <3> QED
      BY <3>1, <3>2, <3>3, <3>4, <3>5
  <2>3. frames' \subseteq Pages /\ store' \subseteq Pages /\ procs' \subseteq Pids
    BY DEF Inv, TypeOK, PageIn, FramesAfter
  <2>4. numPagedIn' \in Nat /\ numPagedOut' \in Nat
    <3>1. Cardinality(victim) \in Nat
      <4>1. Cardinality({}) = 0
        BY FS_EmptySet
      <4>2. Cardinality(victim) \in {0, 1}
        BY <1>1, <4>1
      <4> QED
        BY <4>2
    <3> QED
      BY <3>1 DEF Inv, TypeOK, PageIn, PagedInAfter
  <2>5. pendingEvents' \in Seq(Events) /\ events' \in Seq(Events)
    BY <1>1, <1>2, Appended DEF Inv, TypeOK
  <2> QED
    BY <1>1, <2>2, <2>3, <2>4, <2>5 DEF Inv, TypeOK
<1>4. EventsAccounted'
  <2> DEFINE m == Movements(p, victim)
  <2>1. pendingEvents \in Seq(Events) /\ events \in Seq(Events)
    BY DEF Inv, TypeOK
  <2>2. ASSUME NEW i \in DOMAIN pendingEvents'
        PROVE  pendingEvents'[i].tick = tick
    <3>1. \/ i \in DOMAIN pendingEvents /\ pendingEvents'[i] = pendingEvents[i]
          \/ \E j \in DOMAIN m : pendingEvents'[i] = m[j]
      BY <1>1, <1>2, <2>1, Appended
    <3> QED
      BY <3>1, <1>2 DEF Inv, EventsAccounted
  <2>3. ToSet(pendingEvents') = ToSet(pendingEvents) \cup ToSet(m)
    BY <1>1, <1>2, <2>1, Appended
  <2>4. ASSUME NEW i \in DOMAIN events'
        PROVE  \/ events'[i] \in ToSet(file) \cup ToSet(pendingEvents')
               \/ events'[i].tick \in lostTicks
    <3>1. \/ i \in DOMAIN events /\ events'[i] = events[i]
          \/ \E j \in DOMAIN m : events'[i] = m[j]
      BY <1>1, <1>2, <2>1, Appended
    <3>2. CASE i \in DOMAIN events /\ events'[i] = events[i]
      BY <3>2, <2>3 DEF Inv, EventsAccounted
    <3>3. CASE \E j \in DOMAIN m : events'[i] = m[j]
      BY <3>3, <2>3 DEF ToSet
    <3> QED
      BY <3>1, <3>2, <3>3
  <2> QED
    BY <1>1, <2>2, <2>4 DEF EventsAccounted
<1> QED
  BY <1>1, <1>3, <1>4 DEF Inv, LinesCounted, NoFlushSince, UnseenPast,
                          ExitLosesNothing

(* A line more waits, the newest.                                          *)
LEMMA TraceLineStep ==
  ASSUME Inv, NEW pid \in Pids, TraceLine(pid)
  PROVE  Inv'
<1> DEFINE line == [n |-> said[pid] + 1, tick |-> tick]
<1>1. /\ phase = "running" /\ UNCHANGED <<phase, tick, unseen, procs, store, frames>>
      /\ UNCHANGED <<numPagedIn, numPagedOut, pendingEvents, file, procLog>>
      /\ UNCHANGED <<unopened, unwritten, events, lostTicks>>
  BY DEF TraceLine, paging
<1>2. /\ said \in [Pids -> Nat] /\ trace \in [Pids -> Seq(TraceLines)]
      /\ procLog \in [Pids -> Seq(TraceLines)] /\ tick \in Nat
  BY DEF Inv, TypeOK
<1>3. /\ said' = [said EXCEPT ![pid] = @ + 1]
      /\ trace' = [trace EXCEPT ![pid] = Append(@, line)]
  BY <1>2 DEF TraceLine
<1>4. line \in TraceLines
  BY <1>2 DEF TraceLines
<1>5. TypeOK'
  BY <1>1, <1>2, <1>3, <1>4 DEF Inv, TypeOK
<1>6. ASSUME NEW q \in Pids
      PROVE  \/ q # pid /\ trace'[q] = trace[q] /\ said'[q] = said[q]
             \/ /\ q = pid /\ said'[q] = said[q] + 1
                /\ trace'[q] = Append(trace[q], line)
  BY <1>2, <1>3
<1>7. ASSUME NEW q \in Pids, NEW i \in DOMAIN trace'[q]
      PROVE  \/ i \in DOMAIN trace[q] /\ trace'[q][i] = trace[q][i]
             \/ q = pid /\ i = Len(trace[q]) + 1 /\ trace'[q][i] = line
  <2>1. CASE q # pid
    BY <2>1, <1>6
  <2>2. CASE q = pid
    <3>1. trace[q] \in Seq(TraceLines) /\ trace'[q] = Append(trace[q], line)
      BY <2>2, <1>2, <1>6
    <3> HIDE DEF line
    <3> QED
      BY <2>2, <3>1, <1>4
  <2> QED
    BY <2>1, <2>2
<1>8. LinesCounted'
  <2> SUFFICES ASSUME NEW q \in Pids
               PROVE  Counted(procLog[q], trace'[q], unwritten[q], said'[q])
    BY <1>1 DEF LinesCounted
  <2>1. /\ Counted(procLog[q], trace[q], unwritten[q], said[q])
        /\ procLog[q] \in Seq(TraceLines) /\ trace[q] \in Seq(TraceLines) /\ said[q] \in Nat
    BY <1>2 DEF Inv, LinesCounted
  <2>2. CASE q # pid
    BY <2>1, <2>2, <1>6
  <2>3. CASE q = pid
    <3>1. line.n = said[q] + 1 /\ said'[q] = said[q] + 1 /\ trace'[q] = Append(trace[q], line)
      BY <2>3, <1>6
    <3> HIDE DEF line
    <3> QED
      BY <2>1, <3>1, <1>4, CountedOneMore
  <2> QED
    BY <2>2, <2>3
<1>9. NoFlushSince'
  <2> SUFFICES ASSUME NEW q \in Pids \ unopened, NEW i \in DOMAIN trace'[q]
               PROVE  /\ trace'[q][i].tick <= tick
                      /\ \A t \in trace'[q][i].tick .. tick - 1 :
                           t % FlushTicks = 0 => t = unseen /\ trace'[q][i].tick < t
    BY <1>1 DEF NoFlushSince
  <2>1. CASE i \in DOMAIN trace[q] /\ trace'[q][i] = trace[q][i]
    BY <2>1 DEF Inv, NoFlushSince
  <2>2. CASE trace'[q][i] = line
    <3>1. trace'[q][i].tick = tick
      BY <2>2
    <3> QED
      BY <3>1, <1>2
  <2> QED
    BY <1>7, <2>1, <2>2
<1> QED
  BY <1>1, <1>5, <1>8, <1>9 DEF Inv, EventsAccounted, UnseenPast, ExitLosesNothing

------------------------------------------------------------------------------
(* appendEvents(): nothing waits any longer, and what was not written is   *)
(* of a tick that is lost.                                                 *)
LEMMA AppendEventsStep ==
  ASSUME Inv, NEW opened \in BOOLEAN, AppendEvents(opened), UNCHANGED events
  PROVE  /\ pendingEvents' = <<>>
         /\ file' \in Seq(Events) /\ lostTicks' \subseteq Nat
         /\ \A i \in DOMAIN events :
              events[i] \in ToSet(file') \/ events[i].tick \in lostTicks'
<1>1. /\ pendingEvents \in Seq(Events) /\ file \in Seq(Events)
      /\ lostTicks \subseteq Nat /\ tick \in Nat
  BY DEF Inv, TypeOK
<1>2. /\ pendingEvents' = <<>>
      /\ file' = IF opened THEN file \o pendingEvents ELSE file
      /\ lostTicks' = IF opened \/ pendingEvents = <<>> THEN lostTicks
                      ELSE lostTicks \cup {tick}
  BY DEF AppendEvents, PendingAfter
<1>3. file' \in Seq(Events) /\ ToSet(file) \subseteq ToSet(file')
  BY <1>1, <1>2, Appended
<1>4. ASSUME NEW i \in DOMAIN events
      PROVE  events[i] \in ToSet(file') \/ events[i].tick \in lostTicks'
  <2>1. CASE events[i] \in ToSet(file) \/ events[i].tick \in lostTicks
    BY <2>1, <1>2, <1>3
  <2>2. CASE events[i] \in ToSet(pendingEvents)
    <3>1. pendingEvents # <<>> /\ events[i].tick = tick
      BY <2>2 DEF ToSet, Inv, EventsAccounted
    <3>2. CASE opened
      BY <3>2, <2>2, <1>1, <1>2, Appended
    <3>3. CASE ~ opened
      BY <3>1, <3>3, <1>2
    <3> QED
      BY <3>2, <3>3
  <2> QED
    BY <2>1, <2>2 DEF Inv, EventsAccounted
<1> QED
  BY <1>1, <1>2, <1>3, <1>4

(* flushProcessLogs(): the lines of a process are in its file, or lost in  *)
(* the attempt, or still wait because it found none.                       *)
LEMMA FlushStep ==
  ASSUME Inv, NEW opened \in SUBSET Pids, NEW written \in SUBSET opened,
         FlushProcessLogs(opened, written)
  PROVE  /\ {trace', procLog'} \subseteq [Pids -> Seq(TraceLines)]
         /\ unopened' \subseteq Pids /\ unwritten' \in [Pids -> SUBSET Nat]
         /\ said' \in [Pids -> Nat]
         /\ LinesCounted'
         /\ \A pid \in Pids \ unopened' : trace'[pid] = <<>>
<1>1. /\ said \in [Pids -> Nat] /\ trace \in [Pids -> Seq(TraceLines)]
      /\ procLog \in [Pids -> Seq(TraceLines)] /\ unwritten \in [Pids -> SUBSET Nat]
  BY DEF Inv, TypeOK
<1>2. /\ UNCHANGED said
      /\ unopened' = {pid \in Pids : trace[pid] # <<>> /\ pid \notin opened}
      /\ trace' = [pid \in Pids |-> IF pid \in opened THEN <<>> ELSE trace[pid]]
      /\ procLog' = [pid \in Pids |-> IF pid \in written THEN procLog[pid] \o trace[pid]
                                      ELSE procLog[pid]]
      /\ unwritten' = [pid \in Pids |->
                         IF pid \in opened \ written
                         THEN unwritten[pid] \cup Numbers(trace[pid])
                         ELSE unwritten[pid]]
  BY DEF FlushProcessLogs, TraceAfter
<1>3. ASSUME NEW pid \in Pids
      PROVE  /\ trace'[pid] \in Seq(TraceLines) /\ procLog'[pid] \in Seq(TraceLines)
             /\ unwritten'[pid] \subseteq Nat
             /\ Counted(procLog'[pid], trace'[pid], unwritten'[pid], said'[pid])
  <2> DEFINE log  == procLog[pid]
             wait == trace[pid]
             lost == unwritten[pid]
             n    == said[pid]
  <2>1. /\ log \in Seq(TraceLines) /\ wait \in Seq(TraceLines) /\ n \in Nat
        /\ lost \subseteq Nat /\ Counted(log, wait, lost, n)
    BY <1>1 DEF Inv, LinesCounted
  <2>2. said'[pid] = n
    BY <1>2
  <2>3. CASE pid \notin opened
    <3>1. trace'[pid] = wait /\ procLog'[pid] = log /\ unwritten'[pid] = lost
      BY <1>2, <2>3
    <3> QED
      BY <2>1, <2>2, <3>1
  <2>4. CASE pid \in written
    <3>1. trace'[pid] = <<>> /\ procLog'[pid] = log \o wait /\ unwritten'[pid] = lost
      BY <1>2, <2>4
    <3> HIDE DEF log, wait, lost, n
    <3>2. Counted(log \o wait, <<>>, lost, n) /\ log \o wait \in Seq(TraceLines)
      BY <2>1, CountedWritten, CountedTogether
    <3>3. <<>> \in Seq(TraceLines)
      OBVIOUS
    <3> QED
      BY <2>1, <2>2, <3>1, <3>2, <3>3
  <2>5. CASE pid \in opened \ written
    <3>1. /\ trace'[pid] = <<>> /\ procLog'[pid] = log
          /\ unwritten'[pid] = lost \cup Numbers(wait)
      BY <1>2, <2>5
    <3> HIDE DEF log, wait, lost, n
    <3>2. Counted(log, <<>>, lost \cup Numbers(wait), n)
      BY <2>1, CountedLost
    <3>3. Numbers(wait) \subseteq Nat
      <4>1. \A i \in DOMAIN wait : wait[i] \in TraceLines
        BY <2>1
      <4> QED
        BY <4>1 DEF Numbers, TraceLines
    <3>4. <<>> \in Seq(TraceLines)
      OBVIOUS
    <3> QED
      BY <2>1, <2>2, <3>1, <3>2, <3>3, <3>4
  <2> QED
    BY <2>3, <2>4, <2>5
<1>4. LinesCounted'
  BY <1>3 DEF LinesCounted
<1>5. ASSUME NEW pid \in Pids \ unopened'
      PROVE  trace'[pid] = <<>>
  BY <1>2
<1>6. {trace', procLog'} \subseteq [Pids -> Seq(TraceLines)] /\ unwritten' \in [Pids -> SUBSET Nat]
  BY <1>2, <1>3
<1> QED
  BY <1>1, <1>2, <1>4, <1>5, <1>6

(* The end of a tick.  What waits afterwards came after the last flush     *)
(* that was due.                                                           *)
LEMMA EndTickStep ==
  ASSUME Inv, NEW opened \in BOOLEAN, NEW openedFor \in SUBSET Pids,
         NEW written \in SUBSET openedFor, EndTick(opened, openedFor, written)
  PROVE  Inv'
<1>1. /\ phase = "running" /\ UNCHANGED <<phase, events>>
      /\ UNCHANGED <<procs, store, frames, numPagedIn, numPagedOut>>
      /\ AppendEvents(opened)
      /\ \/ tick' = tick + 1 /\ unseen' = unseen
         \/ unseen = 0 /\ tick' = tick + 2 /\ unseen' = tick + 1
  <2>1. tick \in Nat
    BY DEF Inv, TypeOK
  <2> QED
    BY <2>1 DEF EndTick, NextTicks, paging
<1>2. /\ pendingEvents' = <<>>
      /\ file' \in Seq(Events) /\ lostTicks' \subseteq Nat
      /\ \A i \in DOMAIN events :
           events[i] \in ToSet(file') \/ events[i].tick \in lostTicks'
  BY <1>1, AppendEventsStep
<1>3. EventsAccounted'
  BY <1>1, <1>2 DEF EventsAccounted
<1>4. /\ tick \in Nat \ {0} /\ tick' \in Nat \ {0} /\ unseen \in Nat /\ unseen' \in Nat
      /\ UnseenPast'
  BY <1>1 DEF Inv, TypeOK, UnseenPast
<1>5. /\ {trace', procLog'} \subseteq [Pids -> Seq(TraceLines)]
      /\ said' \in [Pids -> Nat] /\ unopened' \subseteq Pids
      /\ unwritten' \in [Pids -> SUBSET Nat]
      /\ LinesCounted' /\ NoFlushSince'
  <2>1. CASE tick % FlushTicks = 0
    <3>1. FlushProcessLogs(openedFor, written)
      BY <2>1 DEF EndTick, TracesDue
    <3>2. \A pid \in Pids \ unopened' : trace'[pid] = <<>>
      BY <3>1, FlushStep
    <3>3. NoFlushSince'
      BY <3>2 DEF NoFlushSince
    <3> QED
      BY <3>1, <3>3, FlushStep
  <2>2. CASE tick % FlushTicks # 0
    <3>1. UNCHANGED <<trace, procLog, said, unopened, unwritten>>
      BY <2>2 DEF EndTick, TracesDue, tracing
    <3>2. NoFlushSince'
      <4> SUFFICES ASSUME NEW pid \in Pids \ unopened, NEW i \in DOMAIN trace[pid]
                   PROVE  /\ trace[pid][i].tick <= tick'
                          /\ \A t \in trace[pid][i].tick .. tick' - 1 :
                               t % FlushTicks = 0 => t = unseen' /\ trace[pid][i].tick < t
        BY <3>1 DEF NoFlushSince
      <4> DEFINE b == trace[pid][i].tick
      <4>1. /\ b <= tick
            /\ \A t \in b .. tick - 1 : t % FlushTicks = 0 => t = unseen /\ b < t
        BY DEF Inv, NoFlushSince
      <4>2. trace[pid][i] \in TraceLines
        BY DEF Inv, TypeOK
      <4>3. b \in Nat
        BY <4>2 DEF TraceLines
      <4> HIDE DEF b
      <4>4. b <= tick'
        BY <1>1, <1>4, <4>1, <4>3
      <4>5. ASSUME NEW t \in b .. tick' - 1, t % FlushTicks = 0
            PROVE  t = unseen' /\ b < t
        <5>1. t # tick
          BY <2>2, <4>5
        <5>2. CASE t \in b .. tick - 1
          BY <5>2, <4>1, <4>3, <4>5, <1>1, <1>4
        <5>3. CASE t = tick + 1 /\ tick' = tick + 2
          BY <5>3, <4>1, <4>3, <1>1, <1>4
        <5>4. t \in b .. tick - 1 \/ (t = tick + 1 /\ tick' = tick + 2)
          <6>1. CASE tick' = tick + 1
            BY <6>1, <5>1, <1>4, <4>3
          <6>2. CASE tick' = tick + 2
            BY <6>2, <5>1, <1>4, <4>3
          <6> QED
            BY <6>1, <6>2, <1>1
        <5> QED
          BY <5>2, <5>3, <5>4
      <4> QED
        BY <4>4, <4>5 DEF b
    <3> QED
      BY <3>1, <3>2 DEF Inv, TypeOK, LinesCounted
  <2> QED
    BY <2>1, <2>2
<1>6. TypeOK'
  BY <1>1, <1>2, <1>4, <1>5 DEF Inv, TypeOK
<1> QED
  BY <1>1, <1>3, <1>4, <1>5, <1>6 DEF Inv, ExitLosesNothing

(* exit: both kinds of files are written once more.                        *)
LEMMA ExitStep ==
  ASSUME Inv, NEW opened \in BOOLEAN, NEW openedFor \in SUBSET Pids,
         NEW written \in SUBSET openedFor, Exit(opened, openedFor, written)
  PROVE  Inv'
<1>1. /\ phase' = "exited" /\ UNCHANGED <<tick, unseen, events>>
      /\ UNCHANGED <<procs, store, frames, numPagedIn, numPagedOut>>
      /\ AppendEvents(opened) /\ FlushProcessLogs(openedFor, written)
  BY DEF Exit, paging, FlushAtExit
<1>2. /\ pendingEvents' = <<>>
      /\ file' \in Seq(Events) /\ lostTicks' \subseteq Nat
      /\ \A i \in DOMAIN events :
           events[i] \in ToSet(file') \/ events[i].tick \in lostTicks'
  BY <1>1, AppendEventsStep
<1>3. /\ {trace', procLog'} \subseteq [Pids -> Seq(TraceLines)]
      /\ unopened' \subseteq Pids /\ LinesCounted'
      /\ unwritten' \in [Pids -> SUBSET Nat]
      /\ \A pid \in Pids \ unopened' : trace'[pid] = <<>>
  BY <1>1, FlushStep
<1>4. said' \in [Pids -> Nat]
  BY <1>1, FlushStep
<1>5. TypeOK'
  BY <1>1, <1>2, <1>3, <1>4 DEF Inv, TypeOK
<1>6. EventsAccounted'
  BY <1>1, <1>2 DEF EventsAccounted
<1>7. NoFlushSince' /\ UnseenPast' /\ ExitLosesNothing'
  BY <1>1, <1>2, <1>3 DEF Inv, NoFlushSince, UnseenPast, ExitLosesNothing
<1> QED
  BY <1>3, <1>5, <1>6, <1>7 DEF Inv

(* A crash changes nothing but that nothing follows.                       *)
LEMMA CrashStep ==
  ASSUME Inv, Crash
  PROVE  Inv'
<1>1. phase' = "crashed" /\ UNCHANGED <<tick, unseen, procs, store, frames>>
  BY DEF Crash, paging
<1>2. UNCHANGED <<numPagedIn, numPagedOut, pendingEvents, file, events, lostTicks>>
  BY DEF Crash, paging
<1>3. UNCHANGED <<trace, procLog, said, unopened, unwritten>>
  BY DEF Crash, tracing
<1>4. TypeOK'
  BY <1>1, <1>2, <1>3 DEF Inv, TypeOK
<1> QED
  BY <1>1, <1>2, <1>3, <1>4
  DEF Inv, LinesCounted, EventsAccounted, NoFlushSince,
              UnseenPast, ExitLosesNothing

------------------------------------------------------------------------------
(* Nothing waits at the start.                                             *)
LEMMA InitInv == Init => Inv
<1> SUFFICES ASSUME Init PROVE Inv
  OBVIOUS
<1>1. TypeOK
  <2>1. Cardinality(frames) <= NumFrames
    BY EventLogConstants, FS_EmptySet DEF Init
  <2>2. tick \in Nat \ {0}
    BY EventLogConstants DEF Init
  <2> QED
    BY <2>1, <2>2 DEF Init, TypeOK
<1>2. LinesCounted
  <2>1. Len(<<>>) = 0 /\ DOMAIN <<>> = {} /\ 0 - 0 = 0 /\ 1 .. 0 = {}
    OBVIOUS
  <2>2. Counted(<<>>, <<>>, {}, 0)
    BY <2>1 DEF Counted, Numbers, Ascending
  <2> QED
    BY <2>2 DEF LinesCounted, Init
<1>3. UnseenPast
  BY <1>1 DEF Init, TypeOK, UnseenPast
<1> QED
  BY <1>1, <1>2, <1>3 DEF Inv, Init, EventsAccounted, NoFlushSince, ExitLosesNothing

LEMMA NextInv == Inv /\ [Next]_vars => Inv'
<1> SUFFICES ASSUME Inv, [Next]_vars PROVE Inv'
  OBVIOUS
<1>1. CASE UNCHANGED vars
  <2>1. /\ UNCHANGED <<phase, tick, unseen, procs, store, frames, numPagedIn, numPagedOut>>
        /\ UNCHANGED <<pendingEvents, file, trace, procLog, said, unopened, unwritten>>
        /\ UNCHANGED <<events, lostTicks>>
    BY <1>1 DEF vars, paging, tracing
  <2>2. TypeOK'
    BY <2>1 DEF Inv, TypeOK
  <2> QED
    BY <2>1, <2>2 DEF Inv, LinesCounted, EventsAccounted, NoFlushSince,
              UnseenPast, ExitLosesNothing
<1>2. CASE Next
  <2>1. \A p \in Pages : {} \in SUBSET Pages /\ {p} \in SUBSET Pages
    OBVIOUS
  <2> QED
    BY <1>2, <2>1, AddProcessStep, RemoveProcessStep, TraceLineStep, PageInStep,
       EndTickStep, ExitStep, CrashStep DEF Next
<1> QED
  BY <1>1, <1>2

LEMMA Invariance == Spec => []Inv
  BY InitInv, NextInv, PTL DEF Spec

------------------------------------------------------------------------------
(***************************************************************************)
(* What the log says.  A failed append takes the events of the tick that   *)
(* goes on, all of them and no others: earlier ones are in the file, or    *)
(* their tick is lost already.                                             *)
(***************************************************************************)
TicksPast ==
  /\ \A i \in DOMAIN events : events[i].tick <= tick
  /\ phase = "running" => /\ \A i \in DOMAIN file : file[i].tick < tick
                          /\ \A t \in lostTicks : t < tick

(* A page is in one place at most, and only pages of processes that are    *)
(* there are anywhere.                                                     *)
PagesPlaced ==
  /\ frames \cup store \subseteq procs \X VPNs
  /\ frames \cap store = {}

(* All movements together tell where the pages are.                        *)
EventsTellResidency ==
  \A page \in procs \X VPNs : page \in frames <=> LastSays(events, page, "paged in")

LogInv == Inv /\ LogLacksOnlyFailedTicks /\ TicksPast /\ PagesPlaced /\ EventsTellResidency

(* The end of a tick, or of the run, at the log.                           *)
LEMMA AppendKeepsLog ==
  ASSUME LogInv, phase = "running", NEW opened \in BOOLEAN, AppendEvents(opened),
         UNCHANGED events
  PROVE  /\ LogLacksOnlyFailedTicks'
         /\ \A i \in DOMAIN file' : file'[i].tick <= tick
         /\ \A t \in lostTicks' : t <= tick
<1>1. /\ pendingEvents \in Seq(Events) /\ file \in Seq(Events) /\ events \in Seq(Events)
      /\ lostTicks \subseteq Nat /\ tick \in Nat
  BY DEF LogInv, Inv, TypeOK
<1>2. /\ pendingEvents' = <<>>
      /\ file' = IF opened THEN file \o pendingEvents ELSE file
      /\ lostTicks' = IF opened \/ pendingEvents = <<>> THEN lostTicks
                      ELSE lostTicks \cup {tick}
  BY DEF AppendEvents, PendingAfter
<1>3. /\ \A i \in DOMAIN pendingEvents : pendingEvents[i].tick = tick
      /\ \A i \in DOMAIN file : file[i].tick < tick
      /\ \A t \in lostTicks : t < tick
      /\ Without(events, LostEvents) = file \o pendingEvents
  BY DEF LogInv, Inv, EventsAccounted, TicksPast, LogLacksOnlyFailedTicks, Told
<1>4. \A e \in Events : e.tick \in Nat
  BY DEF Events
<1>5. \A i \in DOMAIN file' : file'[i].tick <= tick
  <2>1. \A i \in DOMAIN file : file[i].tick <= tick
    BY <1>1, <1>3, <1>4
  <2>2. ASSUME NEW i \in DOMAIN (file \o pendingEvents)
        PROVE  (file \o pendingEvents)[i].tick <= tick
    <3>1. \/ i \in DOMAIN file /\ (file \o pendingEvents)[i] = file[i]
          \/ \E j \in DOMAIN pendingEvents :
               i = Len(file) + j /\ (file \o pendingEvents)[i] = pendingEvents[j]
      BY <1>1, Appended
    <3> QED
      BY <3>1, <2>1, <1>1, <1>3
  <2> QED
    BY <1>2, <2>1, <2>2
<1>6. \A t \in lostTicks' : t <= tick
  BY <1>1, <1>2, <1>3
<1>7. file' \in Seq(Events) /\ file' \o <<>> = file'
  <2>1. file' \in Seq(Events)
    BY <1>1, <1>2, Appended
  <2> QED
    BY <2>1
<1>8. CASE opened \/ pendingEvents = <<>>
  <2>1. LostEvents' = LostEvents
    BY <1>8, <1>2 DEF LostEvents
  <2>2. file' = file \o pendingEvents
    BY <1>8, <1>1, <1>2
  <2>3. Told' = file \o pendingEvents
    BY <1>2, <1>7, <2>2 DEF Told
  <2> QED
    BY <1>3, <1>5, <1>6, <2>1, <2>3 DEF LogLacksOnlyFailedTicks
<1>9. CASE ~ (opened \/ pendingEvents = <<>>)
  <2> DEFINE R == {e \in Events : e.tick = tick}
  <2>1. Told' = file
    BY <1>2, <1>7, <1>9 DEF Told
  <2>2. Range(file) \cap R = {}
    <3>1. \A i \in DOMAIN file : file[i] \notin R
      BY <1>1, <1>3, <1>4
    <3> QED
      BY <3>1 DEF Range
  <2>3. Range(pendingEvents) \subseteq R
    <3>1. \A i \in DOMAIN pendingEvents : pendingEvents[i] \in R
      BY <1>1, <1>3
    <3> QED
      BY <3>1 DEF Range
  <2>4. \A i \in DOMAIN events : events[i] \in LostEvents' <=> events[i] \in LostEvents \cup R
    <3>1. \A i \in DOMAIN events : events[i] \in Events /\ events[i] \in ToSet(events)
      BY <1>1 DEF ToSet
    <3>2. lostTicks' = lostTicks \cup {tick}
      BY <1>2, <1>9
    <3> QED
      BY <3>1, <3>2 DEF LostEvents
  <2> HIDE DEF R
  <2>5. Without(events, LostEvents \cup R) = file
    <3>1. EndsWithAll(Without(events, LostEvents), file, pendingEvents, R)
      BY <1>3, <2>2, <2>3 DEF EndsWithAll
    <3> QED
      BY <3>1, <1>1, WithoutMore
  <2>6. Without(events, LostEvents') = Without(events, LostEvents \cup R)
    BY <1>1, <2>4, WithoutSame
  <2> QED
    BY <1>5, <1>6, <2>1, <2>5, <2>6 DEF LogLacksOnlyFailedTicks
<1> QED
  BY <1>8, <1>9

(* A page comes in: its events are the newest of all, and the log says     *)
(* them last.                                                              *)
LEMMA PageInLogged ==
  ASSUME LogInv, NEW p \in Pages, NEW victim \in SUBSET Pages, PageIn(p, victim)
  PROVE  LogLacksOnlyFailedTicks' /\ TicksPast'
<1> DEFINE m == Movements(p, victim)
<1>1. /\ phase = "running" /\ UNCHANGED <<phase, tick, file, lostTicks>>
      /\ pendingEvents' = pendingEvents \o m
      /\ events' = events \o m
      /\ victim = {} \/ Cardinality(victim) = 1
  BY DEF PageIn
<1>2. m \in Seq(Events) /\ \A i \in DOMAIN m : m[i].tick = tick
  BY <1>1, MovementsNow DEF LogInv, Inv
<1>3. /\ pendingEvents \in Seq(Events) /\ file \in Seq(Events) /\ events \in Seq(Events)
      /\ lostTicks \subseteq Nat /\ tick \in Nat
  BY DEF LogInv, Inv, TypeOK
<1>4. /\ Without(events, LostEvents) = file \o pendingEvents
      /\ \A i \in DOMAIN events : events[i].tick <= tick
      /\ \A i \in DOMAIN file : file[i].tick < tick
      /\ \A t \in lostTicks : t < tick
  BY <1>1 DEF LogInv, LogLacksOnlyFailedTicks, Told, TicksPast
<1> HIDE DEF m
<1>5. /\ ToSet(events') = ToSet(events) \cup ToSet(m)
      /\ events' \in Seq(Events)
      /\ \A i \in DOMAIN events' :
           \/ i \in DOMAIN events /\ events'[i] = events[i]
           \/ \E j \in DOMAIN m : i = Len(events) + j /\ events'[i] = m[j]
  BY <1>1, <1>2, <1>3, Appended
<1>6. tick \notin lostTicks
  BY <1>3, <1>4
<1>7. TicksPast'
  <2>1. \A i \in DOMAIN events' : events'[i].tick <= tick
    BY <1>2, <1>3, <1>4, <1>5
  <2> QED
    BY <1>1, <1>4, <2>1 DEF TicksPast
<1>8. Range(m) \cap LostEvents = {}
  BY <1>2, <1>6 DEF LostEvents, Range
<1>9. \A i \in DOMAIN events' : events'[i] \in LostEvents' <=> events'[i] \in LostEvents
  <2>1. \A e : e \in LostEvents <=> e \in ToSet(events) /\ e.tick \in lostTicks
    BY DEF LostEvents
  <2>2. \A e : e \in LostEvents' <=> e \in ToSet(events') /\ e.tick \in lostTicks
    BY <1>1 DEF LostEvents
  <2>3. ASSUME NEW i \in DOMAIN events'
        PROVE  events'[i] \in LostEvents' <=> events'[i] \in LostEvents
    <3>1. CASE i \in DOMAIN events /\ events'[i] = events[i]
      <4>1. events[i] \in ToSet(events)
        BY <3>1 DEF ToSet
      <4> QED
        BY <3>1, <4>1, <2>1, <2>2, <1>5
    <3>2. CASE \E j \in DOMAIN m : events'[i] = m[j]
      BY <3>2, <2>1, <2>2, <1>2, <1>6
    <3> QED
      BY <3>1, <3>2, <1>5
  <2> QED
    BY <2>3
<1>10. Without(events', LostEvents') = (file \o pendingEvents) \o m
  <2>1. Without(events', LostEvents') = Without(events', LostEvents)
    BY <1>5, <1>9, WithoutSame
  <2>2. Without(events \o m, LostEvents) = Without(events, LostEvents) \o m
    BY <1>2, <1>3, <1>8, WithoutConcat
  <2> QED
    BY <2>1, <2>2, <1>1, <1>4
<1>11. (file \o pendingEvents) \o m = file \o (pendingEvents \o m)
  BY <1>2, <1>3, ConcatAssociative
<1>12. Told' = file \o (pendingEvents \o m)
  BY <1>1 DEF Told
<1> QED
  BY <1>7, <1>10, <1>11, <1>12 DEF LogLacksOnlyFailedTicks

(* The newest event is the last one of its page, and of no other.          *)
LEMMA LastAppended ==
  ASSUME NEW T, NEW s \in Seq(T), NEW e \in T, NEW page, NEW what
  PROVE  LastSays(Append(s, e), page, what)
           <=> IF e.page = page THEN e.what = what ELSE LastSays(s, page, what)
<1> DEFINE u == Append(s, e)
           n == Len(s) + 1
<1>1. /\ Len(s) \in Nat /\ DOMAIN s = 1 .. Len(s) /\ DOMAIN u = 1 .. n
      /\ \A i \in DOMAIN s : u[i] = s[i]
      /\ u[n] = e
  OBVIOUS
<1> HIDE DEF u
<1>2. n \in DOMAIN u /\ \A i \in DOMAIN u : i <= n /\ (i = n \/ i \in DOMAIN s)
  BY <1>1
<1>3. \A i \in DOMAIN s : i \in DOMAIN u /\ i < n
  BY <1>1
<1>4. CASE e.page = page
  <2>1. LastSays(u, page, what) => e.what = what
    <3> SUFFICES ASSUME NEW i \in DOMAIN u, u[i].what = what,
                        \A j \in DOMAIN u : j > i => u[j].page # page
                 PROVE  e.what = what
      BY DEF LastSays, IsLastOf
    <3>1. ~ (n > i)
      BY <1>1, <1>2, <1>4
    <3>2. i = n
      BY <1>1, <1>2, <3>1
    <3> QED
      BY <3>2, <1>1
  <2>2. e.what = what => LastSays(u, page, what)
    <3>1. \A j \in DOMAIN u : ~ (j > n)
      BY <1>1
    <3> QED
      BY <3>1, <1>1, <1>2, <1>4 DEF LastSays, IsLastOf
  <2> QED
    BY <1>4, <2>1, <2>2 DEF u
<1>5. CASE e.page # page
  <2>1. LastSays(u, page, what) => LastSays(s, page, what)
    <3> SUFFICES ASSUME NEW i \in DOMAIN u, u[i].page = page, u[i].what = what,
                        \A j \in DOMAIN u : j > i => u[j].page # page
                 PROVE  LastSays(s, page, what)
      BY DEF LastSays, IsLastOf
    <3>1. i \in DOMAIN s
      BY <1>1, <1>2, <1>5
    <3>2. s[i].page = page /\ s[i].what = what
      BY <3>1, <1>1
    <3>3. \A j \in DOMAIN s : j > i => s[j].page # page
      BY <1>1, <1>3
    <3> QED
      BY <3>1, <3>2, <3>3 DEF LastSays, IsLastOf
  <2>2. LastSays(s, page, what) => LastSays(u, page, what)
    <3> SUFFICES ASSUME NEW i \in DOMAIN s, s[i].page = page, s[i].what = what,
                        \A j \in DOMAIN s : j > i => s[j].page # page
                 PROVE  LastSays(u, page, what)
      BY DEF LastSays, IsLastOf
    <3>1. i \in DOMAIN u /\ u[i].page = page /\ u[i].what = what
      BY <1>1, <1>3
    <3>2. \A j \in DOMAIN u : j > i => u[j].page # page
      BY <1>1, <1>2, <1>5
    <3> QED
      BY <3>1, <3>2 DEF LastSays, IsLastOf
  <2> QED
    BY <1>5, <2>1, <2>2 DEF u
<1> QED
  BY <1>4, <1>5

(* An eviction and the coming of a page, appended together.                *)
LEMMA LastOfTwo ==
  ASSUME NEW T, NEW s \in Seq(T), NEW e \in T, NEW g \in T, NEW page, NEW what
  PROVE  LastSays(s \o <<e, g>>, page, what)
           <=> IF g.page = page THEN g.what = what
               ELSE IF e.page = page THEN e.what = what ELSE LastSays(s, page, what)
<1>1. Append(s, e) \in Seq(T)
  OBVIOUS
<1>2. s \o <<e, g>> = Append(Append(s, e), g)
  OBVIOUS
<1>3. LastSays(Append(s, e), page, what)
        <=> IF e.page = page THEN e.what = what ELSE LastSays(s, page, what)
  BY LastAppended
<1>4. LastSays(Append(Append(s, e), g), page, what)
        <=> IF g.page = page THEN g.what = what ELSE LastSays(Append(s, e), page, what)
  BY <1>1, LastAppended
<1> QED
  BY <1>2, <1>3, <1>4

(* pageIn() keeps the log true to the frames: the page that comes in is    *)
(* said to be there, the one that has to go is said to have gone.          *)
LEMMA PageInTold ==
  ASSUME LogInv, NEW p \in Pages, NEW victim \in SUBSET Pages, PageIn(p, victim)
  PROVE  PagesPlaced' /\ EventsTellResidency'
<1> DEFINE g == Event(p, "paged in")
           v == CHOOSE q \in victim : TRUE
           e == Event(v, "evicted")
<1>1. /\ p \in store /\ UNCHANGED procs
      /\ victim \subseteq frames /\ (victim = {} \/ Cardinality(victim) = 1)
      /\ frames' = (frames \ victim) \cup {p}
      /\ store' = (store \cup victim) \ {p}
      /\ events' = events \o (IF victim = {} THEN <<g>> ELSE <<e, g>>)
  BY DEF PageIn, FramesAfter, Movements
<1>2. /\ frames \cup store \subseteq procs \X VPNs /\ frames \cap store = {}
      /\ events \in Seq(Events) /\ frames \subseteq Pages
      /\ \A page \in procs \X VPNs : page \in frames <=> LastSays(events, page, "paged in")
  BY DEF LogInv, Inv, TypeOK, PagesPlaced, EventsTellResidency
<1>3. \A q \in Pages, what \in {"paged in", "evicted"} :
        /\ Event(q, what) \in Events
        /\ Event(q, what).page = q /\ Event(q, what).what = what
  BY DEF Event, Events, LogInv, Inv, TypeOK
<1>4. g \in Events /\ g.page = p /\ g.what = "paged in"
  BY <1>3
<1>5. PagesPlaced'
  BY <1>1, <1>2 DEF PagesPlaced
<1>6. CASE victim = {}
  <2> HIDE DEF g
  <2>1. events' = Append(events, g)
    <3>1. events' = events \o <<g>>
      BY <1>1, <1>6
    <3> QED
      BY <3>1, <1>2, <1>4, AppendIsConcat
  <2>2. \A page \in procs \X VPNs :
          LastSays(events', page, "paged in")
            <=> IF g.page = page THEN g.what = "paged in"
                ELSE LastSays(events, page, "paged in")
    BY <2>1, <1>2, <1>4, LastAppended
  <2>3. frames' = frames \cup {p}
    BY <1>1, <1>6
  <2> QED
    BY <2>2, <2>3, <1>1, <1>2, <1>4, <1>5 DEF EventsTellResidency
<1>7. CASE victim # {}
  <2>1. v \in victim /\ victim = {v}
    <3>1. v \in victim
      BY <1>7
    <3>2. IsFiniteSet(frames)
      <4>1. IsFiniteSet(Pages)
        BY EventLogConstants, FS_Product DEF Pages
      <4> QED
        BY <4>1, <1>2, FS_Subset
    <3>3. IsFiniteSet(victim) /\ Cardinality(victim) = 1
      BY <3>2, <1>1, <1>7, FS_Subset
    <3>4. PICK x : victim = {x}
      BY <3>3, FS_Singleton
    <3> QED
      BY <3>1, <3>4
  <2>2. e \in Events /\ e.page = v /\ e.what = "evicted"
    <3>1. v \in Pages
      BY <2>1
    <3> QED
      BY <3>1, <1>3
  <2>3. v # p /\ v \in frames
    BY <2>1, <1>1, <1>2
  <2> HIDE DEF v
  <2>4. events' = events \o <<e, g>>
    BY <1>1, <1>7
  <2> HIDE DEF g, e
  <2>5. \A page \in procs \X VPNs :
          LastSays(events', page, "paged in")
            <=> IF g.page = page THEN g.what = "paged in"
                ELSE IF e.page = page THEN e.what = "paged in"
                ELSE LastSays(events, page, "paged in")
    BY <1>2, <1>4, <2>2, <2>4, LastOfTwo
  <2>6. frames' = (frames \ {v}) \cup {p}
    BY <1>1, <2>1
  <2>7. "evicted" # "paged in"
    OBVIOUS
  <2> QED
    BY <2>2, <2>3, <2>5, <2>6, <2>7, <1>1, <1>2, <1>4, <1>5 DEF EventsTellResidency
<1> QED
  BY <1>5, <1>6, <1>7

(* A new process: none of its pages is in memory, and no event was ever    *)
(* about one.                                                              *)
LEMMA AddProcessTold ==
  ASSUME LogInv, NEW pid \in Pids, AddProcess(pid)
  PROVE  PagesPlaced' /\ EventsTellResidency'
<1>1. /\ pid \notin procs /\ \A i \in DOMAIN events : events[i].page[1] # pid
      /\ procs' = procs \cup {pid} /\ store' = store \cup ({pid} \X VPNs)
      /\ UNCHANGED <<frames, events>>
  BY DEF AddProcess, PagesOf
<1>2. /\ frames \cup store \subseteq procs \X VPNs /\ frames \cap store = {}
      /\ \A page \in procs \X VPNs : page \in frames <=> LastSays(events, page, "paged in")
  BY DEF LogInv, PagesPlaced, EventsTellResidency
<1>3. \A page \in {pid} \X VPNs : page \notin frames /\ page[1] = pid
  BY <1>1, <1>2
<1>4. \A page \in {pid} \X VPNs : ~ LastSays(events, page, "paged in")
  BY <1>1, <1>3 DEF LastSays, IsLastOf
<1>5. PagesPlaced'
  BY <1>1, <1>2 DEF PagesPlaced
<1>6. \A page \in procs' \X VPNs : page \in procs \X VPNs \/ page \in {pid} \X VPNs
  BY <1>1
<1>7. EventsTellResidency'
  BY <1>1, <1>2, <1>3, <1>4, <1>6 DEF EventsTellResidency
<1> QED
  BY <1>5, <1>7

(* A process that is over: nobody asks about its pages any more.           *)
LEMMA RemoveProcessTold ==
  ASSUME LogInv, NEW pid \in Pids, RemoveProcess(pid)
  PROVE  PagesPlaced' /\ EventsTellResidency'
<1>1. /\ procs' = procs \ {pid} /\ store' = store \ ({pid} \X VPNs)
      /\ frames' = frames \ ({pid} \X VPNs) /\ UNCHANGED events
  BY DEF RemoveProcess, PagesOf
<1>2. /\ frames \cup store \subseteq procs \X VPNs /\ frames \cap store = {}
      /\ \A page \in procs \X VPNs : page \in frames <=> LastSays(events, page, "paged in")
  BY DEF LogInv, PagesPlaced, EventsTellResidency
<1>3. \A page \in procs' \X VPNs : page \in procs \X VPNs /\ page \notin {pid} \X VPNs
  BY <1>1
<1>4. PagesPlaced'
  BY <1>1, <1>2 DEF PagesPlaced
<1>5. EventsTellResidency'
  BY <1>1, <1>2, <1>3 DEF EventsTellResidency
<1> QED
  BY <1>4, <1>5

LEMMA InitLog == Init => LogInv
<1> SUFFICES ASSUME Init PROVE LogInv
  OBVIOUS
<1>1. Inv
  BY InitInv
<1>2. /\ procs = {} /\ store = {} /\ frames = {} /\ pendingEvents = <<>> /\ file = <<>>
      /\ events = <<>> /\ lostTicks = {}
  BY DEF Init
<1>3. LogLacksOnlyFailedTicks
  <2>1. events \in Seq(Events) /\ Range(events) \cap LostEvents = {}
    BY <1>2 DEF Range
  <2>2. Without(events, LostEvents) = events
    BY <2>1, WithoutNone
  <2> QED
    BY <2>2, <1>2 DEF LogLacksOnlyFailedTicks, Told
<1> QED
  BY <1>1, <1>2, <1>3 DEF LogInv, TicksPast, PagesPlaced, EventsTellResidency

LEMMA NextLog == LogInv /\ [Next]_vars => LogInv'
<1> SUFFICES ASSUME LogInv, [Next]_vars PROVE LogInv'
  OBVIOUS
<1>1. Inv'
  BY NextInv DEF LogInv
<1>2. ASSUME UNCHANGED <<pendingEvents, file, events, lostTicks, tick, phase>>
      PROVE  LogLacksOnlyFailedTicks' /\ TicksPast'
  <2>1. UNCHANGED <<Told, LostEvents>>
    BY <1>2 DEF Told, LostEvents
  <2> QED
    BY <1>2, <2>1 DEF LogInv, LogLacksOnlyFailedTicks, TicksPast
<1>3. ASSUME UNCHANGED <<procs, store, frames, events>>
      PROVE  PagesPlaced' /\ EventsTellResidency'
  BY <1>3 DEF LogInv, PagesPlaced, EventsTellResidency
<1>4. CASE UNCHANGED vars
  BY <1>1, <1>2, <1>3, <1>4 DEF LogInv, vars, paging
<1>5. ASSUME NEW pid \in Pids, AddProcess(pid)
      PROVE  LogInv'
  <2>1. UNCHANGED <<pendingEvents, file, events, lostTicks, tick, phase>>
    BY <1>5 DEF AddProcess
  <2> QED
    BY <1>1, <1>2, <1>5, <2>1, AddProcessTold DEF LogInv
<1>6. ASSUME NEW pid \in Pids, RemoveProcess(pid)
      PROVE  LogInv'
  <2>1. UNCHANGED <<pendingEvents, file, events, lostTicks, tick, phase>>
    BY <1>6 DEF RemoveProcess
  <2> QED
    BY <1>1, <1>2, <1>6, <2>1, RemoveProcessTold DEF LogInv
<1>7. ASSUME NEW pid \in Pids, TraceLine(pid)
      PROVE  LogInv'
  <2>1. UNCHANGED <<pendingEvents, file, events, lostTicks, tick, phase>>
    BY <1>7 DEF TraceLine
  <2>2. UNCHANGED <<procs, store, frames, events>>
    BY <1>7 DEF TraceLine, paging
  <2> QED
    BY <1>1, <1>2, <1>3, <2>1, <2>2 DEF LogInv
<1>8. ASSUME NEW p \in Pages, NEW victim \in SUBSET Pages, PageIn(p, victim)
      PROVE  LogInv'
  BY <1>1, <1>8, PageInLogged, PageInTold DEF LogInv
<1>9. ASSUME NEW opened \in BOOLEAN, NEW openedFor \in SUBSET Pids,
             NEW written \in SUBSET openedFor, EndTick(opened, openedFor, written)
      PROVE  LogInv'
  <2>1. /\ phase = "running" /\ tick' \in {tick + 1, tick + 2} /\ UNCHANGED <<phase, events>>
        /\ UNCHANGED <<procs, store, frames>> /\ AppendEvents(opened)
    BY <1>9 DEF EndTick, NextTicks, paging
  <2>2. /\ LogLacksOnlyFailedTicks'
        /\ \A i \in DOMAIN file' : file'[i].tick <= tick
        /\ \A t \in lostTicks' : t <= tick
    BY <2>1, AppendKeepsLog
  <2>3. /\ tick \in Nat /\ lostTicks' \subseteq Nat
        /\ \A i \in DOMAIN file' : file'[i].tick \in Nat
        /\ \A i \in DOMAIN events : events[i].tick \in Nat
    <3>1. /\ tick \in Nat /\ lostTicks' \subseteq Nat
          /\ file' \in Seq(Events) /\ events \in Seq(Events)
      BY <1>1 DEF LogInv, Inv, TypeOK
    <3>2. \A e \in Events : e.tick \in Nat
      BY DEF Events
    <3> QED
      BY <3>1, <3>2
  <2>4. /\ \A i \in DOMAIN file' : file'[i].tick < tick'
        /\ \A t \in lostTicks' : t < tick'
        /\ \A i \in DOMAIN events : events[i].tick <= tick'
    BY <2>1, <2>2, <2>3 DEF LogInv, TicksPast
  <2>5. TicksPast'
    BY <2>1, <2>4 DEF TicksPast
  <2> QED
    BY <1>1, <1>3, <2>1, <2>2, <2>5 DEF LogInv
<1>10. ASSUME NEW opened \in BOOLEAN, NEW openedFor \in SUBSET Pids,
              NEW written \in SUBSET openedFor, Exit(opened, openedFor, written)
       PROVE  LogInv'
  <2>1. /\ phase = "running" /\ phase' = "exited" /\ UNCHANGED <<tick, events>>
        /\ UNCHANGED <<procs, store, frames>> /\ AppendEvents(opened)
    BY <1>10 DEF Exit, paging, FlushAtExit
  <2>2. LogLacksOnlyFailedTicks'
    BY <2>1, AppendKeepsLog
  <2>3. TicksPast'
    BY <2>1 DEF LogInv, TicksPast
  <2> QED
    BY <1>1, <1>3, <2>1, <2>2, <2>3 DEF LogInv
<1>11. CASE Crash
  <2>1. /\ phase' = "crashed" /\ UNCHANGED <<tick, events, pendingEvents, file, lostTicks>>
        /\ UNCHANGED <<procs, store, frames>>
    BY <1>11 DEF Crash, paging
  <2>2. LogLacksOnlyFailedTicks'
    BY <2>1 DEF LogInv, LogLacksOnlyFailedTicks, Told, LostEvents
  <2>3. TicksPast'
    BY <2>1 DEF LogInv, TicksPast
  <2> QED
    BY <1>1, <1>3, <2>1, <2>2, <2>3 DEF LogInv
<1>12. \A p \in Pages : {} \in SUBSET Pages /\ {p} \in SUBSET Pages
  OBVIOUS
<1> QED
  BY <1>4, <1>5, <1>6, <1>7, <1>8, <1>9, <1>10, <1>11, <1>12 DEF Next

LEMMA LogInvariance == Spec => []LogInv
  BY InitLog, NextLog, PTL DEF Spec

------------------------------------------------------------------------------
(* The state of both kinds of files and of their buffers keeps its types.  *)
THEOREM TypeCorrect == Spec => []TypeOK
  BY Invariance, PTL DEF Inv

(* No line of a process is doubled, out of order, or lost otherwise than   *)
(* in a write that failed, however often its file could not be opened.     *)
THEOREM NoLineLost == Spec => []TraceComplete
<1>1. Inv => TraceComplete
  <2> SUFFICES ASSUME Inv, NEW pid \in Pids
               PROVE  LET lines == procLog[pid] \o trace[pid]
                      IN  /\ Numbers(lines) = (1 .. said[pid]) \ unwritten[pid]
                          /\ Ascending(lines)
    BY DEF TraceComplete
  <2>1. /\ Counted(procLog[pid], trace[pid], unwritten[pid], said[pid]) /\ said[pid] \in Nat
        /\ procLog[pid] \in Seq(TraceLines) /\ trace[pid] \in Seq(TraceLines)
    BY DEF Inv, LinesCounted, TypeOK
  <2> QED
    BY <2>1, CountedTogether
<1> QED
  BY <1>1, Invariance, PTL

(* Among FlushTicks ticks in a row there is one in which traces are due.   *)
LEMMA FlushIsNear ==
  ASSUME NEW F \in Nat \ {0}, NEW t \in Nat
  PROVE  \E k \in t .. t + F - 1 : k % F = 0
<1> DEFINE r == t % F
<1>1. r \in 0 .. F - 1 /\ t = F * (t \div F) + r /\ t \div F \in Int
  OBVIOUS
<1>2. CASE r = 0
  BY <1>2
<1>3. CASE r # 0
  <2> DEFINE k == t + F - r
  <2>1. k \in t .. t + F - 1
    BY <1>1, <1>3
  <2>2. k = F * (t \div F + 1)
    BY <1>1
  <2>3. k % F = 0
    <3> DEFINE d == t \div F + 1 - k \div F
    <3>1. k \in Nat /\ k = F * (k \div F) + (k % F) /\ k % F \in 0 .. F - 1 /\ k \div F \in Int
      BY <2>1
    <3>2. d \in Int /\ F * d = k % F
      BY <1>1, <2>2, <3>1
    <3>3. d >= 1 => F * d >= F
      BY <3>2
    <3>4. d <= -1 => F * d <= - F
      BY <3>2
    <3> HIDE DEF d
    <3>5. d = 0
      BY <3>1, <3>2, <3>3, <3>4
    <3> QED
      BY <3>2, <3>5
  <2> QED
    BY <2>1, <2>3
<1> QED
  BY <1>2, <1>3

(* The log lacks at most the tick that goes on, and a trace at most the    *)
(* last FlushTicks ticks, or twice as many if a flush was due in the tick  *)
(* nobody saw, whenever the program ends; exit loses nothing.              *)
THEOREM FilesKeepUp == Spec => []LossIsBounded
<1>1. Inv => LogATickBehind
  <2> SUFFICES ASSUME Inv, NEW i \in DOMAIN events, events[i].tick < tick
               PROVE  events[i] \in ToSet(file) \/ events[i].tick \in lostTicks
    BY DEF LogATickBehind
  <2>1. events[i] \in ToSet(pendingEvents) => events[i].tick = tick
    BY DEF Inv, EventsAccounted, ToSet
  <2>2. tick \in Nat
    BY DEF Inv, TypeOK
  <2> QED
    BY <2>1, <2>2 DEF Inv, EventsAccounted
<1>2. Inv => TraceAFlushBehind
  <2> SUFFICES ASSUME Inv, NEW pid \in Pids \ unopened, NEW i \in DOMAIN trace[pid]
               PROVE  LET t == trace[pid][i].tick
                      IN  tick - t < IF FlushUnseenSince(t) THEN 2 * FlushTicks ELSE FlushTicks
    BY DEF TraceAFlushBehind
  <2> DEFINE t == trace[pid][i].tick
  <2>1. /\ t <= tick
        /\ \A k \in t .. tick - 1 : k % FlushTicks = 0 => k = unseen /\ t < k
    BY DEF Inv, NoFlushSince
  <2>2. trace[pid][i] \in TraceLines /\ tick \in Nat /\ unseen \in Nat
    BY DEF Inv, TypeOK
  <2>3. t \in Nat /\ FlushTicks \in Nat \ {0}
    BY <2>2, EventLogConstants DEF TraceLines
  <2> HIDE DEF t
  <2>4. PICK k \in t .. t + FlushTicks - 1 : k % FlushTicks = 0
    BY <2>3, FlushIsNear
  <2>5. CASE k \notin t .. tick - 1
    <3>1. tick - t < FlushTicks /\ tick - t < 2 * FlushTicks
      BY <2>1, <2>2, <2>3, <2>4, <2>5
    <3> QED
      BY <3>1 DEF t
  <2>6. CASE k \in t .. tick - 1
    <3>1. k = unseen /\ FlushUnseenSince(t)
      BY <2>1, <2>3, <2>4, <2>6 DEF FlushUnseenSince
    <3>2. PICK l \in t + FlushTicks .. t + FlushTicks + FlushTicks - 1 : l % FlushTicks = 0
      <4>1. t + FlushTicks \in Nat
        BY <2>3
      <4> QED
        BY <4>1, <2>3, FlushIsNear
    <3>3. l \notin t .. tick - 1
      BY <2>1, <2>3, <2>4, <3>1, <3>2
    <3>4. tick - t < 2 * FlushTicks
      BY <2>2, <2>3, <3>2, <3>3
    <3> QED
      BY <3>1, <3>4 DEF t
  <2> QED
    BY <2>5, <2>6
<1>3. Inv => LossIsBounded
  BY <1>1, <1>2 DEF LossIsBounded, Inv
<1> QED
  BY <1>3, Invariance, PTL

(* The log is the movements of pages in their order, less those of the     *)
(* ticks whose append failed, however often it fails and whenever the      *)
(* program ends.                                                           *)
THEOREM OnlyFailedTicksLacking == Spec => []LogLacksOnlyFailedTicks
  BY LogInvariance, PTL DEF LogInv

(* Erasing the lost events erases nothing that says more of a page whose   *)
(* last movement is not among them.                                        *)
LEMMA LastMovementKept ==
  ASSUME events \in Seq(Events), Told = Without(events, LostEvents),
         NEW page, LastMovementTold(page), NEW what
  PROVE  LastSays(events, page, what) <=> LastSays(Told, page, what)
<1> DEFINE K == Kept(events, LostEvents)
<1>1. /\ DOMAIN Told = 1 .. Cardinality(K)
      /\ \A n \in DOMAIN Told : \E i \in K : Rank(K, i) = n /\ Told[n] = events[i]
      /\ \A i \in K : Rank(K, i) \in DOMAIN Told /\ Told[Rank(K, i)] = events[i]
  <2>1. /\ DOMAIN Without(events, LostEvents) = 1 .. Cardinality(K)
        /\ \A n \in 1 .. Cardinality(K) :
             \E i \in K : Rank(K, i) = n /\ Without(events, LostEvents)[n] = events[i]
        /\ \A i \in K : /\ Rank(K, i) \in 1 .. Cardinality(K)
                        /\ Without(events, LostEvents)[Rank(K, i)] = events[i]
    BY WithoutPlaces
  <2> HIDE DEF K
  <2> QED
    BY <2>1
<1>2. IsFiniteSet(K) /\ K \subseteq DOMAIN events /\ K \subseteq Int
  BY KeptFinite
<1>3. \A i \in DOMAIN events : events[i].tick \notin lostTicks => i \in K
  BY DEF Kept, LostEvents
<1>4. \A i, j \in K : Rank(K, i) < Rank(K, j) => i < j
  BY <1>2, RankAscends
<1> HIDE DEF K
<1>5. CASE \A i \in DOMAIN events : events[i].page # page
  <2>1. \A n \in DOMAIN Told : Told[n].page # page
    BY <1>1, <1>2, <1>5
  <2> QED
    BY <1>5, <2>1 DEF LastSays, IsLastOf
<1>6. ASSUME NEW i \in DOMAIN events, IsLastOf(events, i, page), events[i].tick \notin lostTicks
      PROVE  LastSays(events, page, what) <=> LastSays(Told, page, what)
  <2> DEFINE n == Rank(K, i)
  <2>1. i \in K /\ n \in DOMAIN Told /\ Told[n] = events[i]
    BY <1>1, <1>3, <1>6
  <2>2. \A j \in DOMAIN events : events[j].page = page => ~ j > i
    BY <1>6 DEF IsLastOf
  <2>3. IsLastOf(Told, n, page)
    <3>1. ASSUME NEW m \in DOMAIN Told, m > n
          PROVE  Told[m].page # page
      <4>1. PICK j \in K : Rank(K, j) = m /\ Told[m] = events[j]
        BY <1>1
      <4>2. n < Rank(K, j)
        BY <3>1, <4>1, <1>1, <2>1
      <4>3. i < j
        BY <4>2, <1>4, <2>1
      <4> QED
        BY <4>1, <4>3, <1>2, <2>2
    <3> QED
      BY <2>1, <3>1, <1>6 DEF IsLastOf
  <2>4. \A j \in DOMAIN events : IsLastOf(events, j, page) => j = i
    BY <1>6 DEF IsLastOf
  <2> HIDE DEF n
  <2>5. \A m \in DOMAIN Told : IsLastOf(Told, m, page) => m = n
    BY <1>1, <2>1, <2>3 DEF IsLastOf
  <2>6. LastSays(events, page, what) <=> events[i].what = what
    BY <1>6, <2>4 DEF LastSays
  <2>7. LastSays(Told, page, what) <=> Told[n].what = what
    BY <2>1, <2>3, <2>5 DEF LastSays
  <2> QED
    BY <2>1, <2>6, <2>7
<1> QED
  BY <1>5, <1>6 DEF LastMovementTold

(* The log says of every page of the processes that are there whether it   *)
(* is in memory, unless its last movement got lost with an append that     *)
(* failed.                                                                 *)
THEOREM LogTellsWhere == Spec => []LogTellsResidency
<1>1. LogInv => LogTellsResidency
  <2> SUFFICES ASSUME LogInv, NEW page \in procs \X VPNs, LastMovementTold(page)
               PROVE  page \in frames <=> LastSays(Told, page, "paged in")
    BY DEF LogTellsResidency
  <2>1. events \in Seq(Events) /\ Told = Without(events, LostEvents)
    BY DEF LogInv, Inv, TypeOK, LogLacksOnlyFailedTicks
  <2>2. page \in frames <=> LastSays(events, page, "paged in")
    BY DEF LogInv, EventsTellResidency
  <2> QED
    BY <2>1, <2>2, LastMovementKept
<1> QED
  BY <1>1, LogInvariance, PTL
==============================================================================
