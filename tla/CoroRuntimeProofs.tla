------------------------- MODULE CoroRuntimeProofs -------------------------
(***************************************************************************)
(* Proofs about the coroutine runtime, for every value of its constants:   *)
(* first of its queues and frames, then of the reactor and the timers.     *)
(***************************************************************************)
EXTENDS CoroRuntimeProperties, SequenceTheorems, TLAPS

USE NilAssumption, SchedulerAssumption, MaxEventsAssumption,
    ExclusiveAssumption, WantAssumption, SignalsAssumption

-----------------------------------------------------------------------------
(* Arithmetic of the timeout. *)

(* The product of two naturals is one: a timeout in ms becomes ticks. *)
LEMMA ProductNat == \A a, b \in Nat : a * b \in Nat
  BY SMT

(* The cast of caculate_time_out to int is an integer. *)
LEMMA ToIntType == \A x \in Int : ToInt(x) \in Int
<1>1. \A m \in Nat \ {0} : \A y \in Int : y % m \in 0 .. m - 1
  BY SMT
<1>2. 2 * (IntMax + 1) \in Nat \ {0}
  BY SMT
<1> QED
  BY <1>1, <1>2, SMT DEF ToInt

(* epoll_wait ends at a tick of the clock, or never. *)
LEMMA PollUntilType ==
  ASSUME clock \in Nat, NEW ms \in Int
  PROVE  PollUntil(ms) \in Nat \cup {Forever}
<1>1. CASE ms < 0
  BY <1>1 DEF PollUntil, Forever
<1>2. CASE ms \in Nat
  <2>1. ms * Gran \in Nat
    BY <1>2, ProductNat
  <2> QED
    BY <1>2, <2>1, SMT DEF PollUntil, Forever
<1> QED
  BY <1>1, <1>2, SMT

(* The timeout derived from a sleeper is an int. *)
LEMMA SleepTimeoutType ==
  ASSUME clock \in Nat, NEW at \in Nat
  PROVE  SleepTimeout(at) \in Int
<1>1. \A m \in Nat \ {0} : \A y \in Int : y \div m \in Int
  BY SMT
<1>2. AtLeast0((at - clock) \div Gran) \in Int
  BY <1>1, SMT DEF AtLeast0
<1> QED
  BY <1>2, ToIntType DEF SleepTimeout

(* caculate_time_out leaves a deadline of the right type. *)
LEMMA CalculateType ==
  ASSUME SchedTypeOK, caculate_time_out
  PROVE  until' \in Nat \cup {Forever}
<1>1. clock \in Nat /\ \A s \in sleepys : s.at \in Nat
  BY SMT DEF SchedTypeOK, SleepItem
<1>2. CASE ready # <<>> /\ until' = PollUntil(0)
  BY <1>1, <1>2, PollUntilType
<1>3. CASE until' = PollUntil(-1)
  BY <1>1, <1>3, PollUntilType
<1>4. CASE \E s \in sleepys : until' = PollUntil(SleepTimeout(s.at))
  BY <1>1, <1>4, PollUntilType, SleepTimeoutType
<1> QED
  BY <1>2, <1>3, <1>4 DEF caculate_time_out

(* The queue operations keep the queue a sequence of coroutines. *)
LEMMA QueueType ==
  ASSUME NEW q \in Seq(Coros), NEW c \in Coros
  PROVE  /\ Append(q, c) \in Seq(Coros)
         /\ q # <<>> => Head(q) \in Coros /\ Tail(q) \in Seq(Coros)
  BY SMT

(* Sockets are passed from coroutine to coroutine. *)
LEMMA PassType ==
  ASSUME holders \in [Fds -> SUBSET Coros], NEW S, NEW d \in Coros, PassSockets(S, d)
  PROVE  holders' \in [Fds -> SUBSET Coros]
  BY DEF PassSockets

-----------------------------------------------------------------------------
(* Type correctness. *)

USE DEF GoTo, Running, Free, MayUse, vars, schedVars, ioVars, taskVars, progVars, kernelVars

(* The loop of __run keeps the types. *)
LEMMA LoopStepType == TypeOK /\ LoopStep => TypeOK'
<1> SUFFICES ASSUME TypeOK, LoopStep PROVE TypeOK'
  OBVIOUS
<1> USE DEF TypeOK
<1>1. CASE LoopTest
  BY <1>1 DEF LoopTest, SchedTypeOK, IOTypeOK, TaskTypeOK, Phase
<1>2. CASE Resume
  <2>1. Head(ready) \in Coros /\ ready' \in Seq(Coros)
    BY <1>2, QueueType DEF Resume, SchedTypeOK
  <2>2. TaskTypeOK'
    BY <1>2, <2>1 DEF Resume, ResumeFrame, TaskTypeOK, FrameState
  <2> QED
    BY <1>2, <2>1, <2>2 DEF Resume, SchedTypeOK, IOTypeOK, Phase
<1>3. CASE ResumeDone
  BY <1>3 DEF ResumeDone, SchedTypeOK, IOTypeOK, TaskTypeOK, Phase
<1>4. CASE Expire
  <2>1. ready' \in Seq(Coros)
    BY <1>4, QueueType DEF Expire, internal_spawn, SchedTypeOK, SleepItem
  <2> QED
    BY <1>4, <2>1 DEF Expire, SchedTypeOK, IOTypeOK, TaskTypeOK, Phase
<1>5. CASE ExpireDone
  BY <1>5 DEF ExpireDone, SchedTypeOK, IOTypeOK, TaskTypeOK, Phase
<1>6. CASE EnterPoll
  <2>1. until' \in Nat \cup {Forever}
    BY <1>6, CalculateType DEF EnterPoll
  <2> QED
    BY <1>6, <2>1 DEF EnterPoll, SchedTypeOK, IOTypeOK, TaskTypeOK, Phase
<1>7. CASE PollEvents
  BY <1>7 DEF PollEvents, EpollWait, Reportable, SchedTypeOK, IOTypeOK, TaskTypeOK, Phase
<1>8. CASE PollTimeout
  BY <1>8 DEF PollTimeout, SchedTypeOK, IOTypeOK, TaskTypeOK, Phase
<1>9. CASE Deliver
  <2> PICK fd \in events :
        /\ TakeWaiter(fd)
        /\ events' = events \ {fd}
        /\ IF table[fd] # Nil THEN internal_spawn(table[fd]) ELSE UNCHANGED ready
    BY <1>9 DEF Deliver
  <2>1. fd \in Fds /\ table[fd] \in Coros \cup {Nil}
    BY DEF IOTypeOK
  <2>2. ready' \in Seq(Coros)
    BY <2>1, QueueType DEF internal_spawn, SchedTypeOK
  <2>3. IOTypeOK'
    BY <2>1 DEF TakeWaiter, IOTypeOK
  <2> QED
    BY <1>9, <2>2, <2>3 DEF Deliver, SchedTypeOK, TaskTypeOK, Phase
<1>10. CASE DeliverDone
  BY <1>10 DEF DeliverDone, EndOfIteration, SchedTypeOK, IOTypeOK, TaskTypeOK, Phase, SleepItem
<1>11. CASE AwakeThread
  BY <1>11 DEF AwakeThread, SchedTypeOK, IOTypeOK, TaskTypeOK, Phase
<1> QED
  BY <1>1, <1>2, <1>3, <1>4, <1>5, <1>6, <1>7, <1>8, <1>9, <1>10, <1>11 DEF LoopStep

(* Whatever the running coroutine does keeps the types. *)
LEMMA CoroStepType ==
  ASSUME TypeOK, NEW c \in Coros, CoroStep(c)
  PROVE  TypeOK'
<1> USE DEF TypeOK
<1>1. ASSUME NEW d \in Coros, AwaitTask(c, d) PROVE TypeOK'
  <2>1. ready' \in Seq(Coros)
    BY <1>1, QueueType DEF AwaitTask, internal_spawn, SchedTypeOK
  <2>2. TaskTypeOK'
    BY <1>1 DEF AwaitTask, StartAwaited, TaskTypeOK, FrameState
  <2> QED
    BY <1>1, <2>1, <2>2 DEF AwaitTask, SchedTypeOK, IOTypeOK, Phase
<1>2. ASSUME NEW d \in Durations, AwaitSleep(c, d) PROVE TypeOK'
  <2>1. clock + d * Gran \in Nat
    BY ProductNat DEF SchedTypeOK
  <2>2. SchedTypeOK'
    BY <1>2, <2>1 DEF AwaitSleep, sleep_until, SchedTypeOK, SleepItem, Phase
  <2> QED
    BY <1>2, <2>2 DEF AwaitSleep, Suspend, IOTypeOK, TaskTypeOK, FrameState
<1>3. ASSUME NEW fd \in Fds, NEW ev \in Event, AwaitEvent(c, fd, ev) PROVE TypeOK'
  <2>1. IOTypeOK'
    BY <1>3 DEF AwaitEvent, add_waiter, EpollCtlAdd, EpollCtlMod, Arm, IOTypeOK
  <2> QED
    BY <1>3, <2>1 DEF AwaitEvent, Suspend, SchedTypeOK, TaskTypeOK, FrameState, Phase
<1>4. CASE Finish(c)
  <2>1. ready' \in Seq(Coros)
    <3>1. ready \in Seq(Coros) /\ parent[c] \in Coros \cup {Nil}
      BY DEF SchedTypeOK, TaskTypeOK
    <3>2. \/ ready' = ready
          \/ parent[c] \in Coros /\ ready' = Append(ready, parent[c])
      BY <1>4, <3>1 DEF Finish, internal_spawn
    <3> QED
      BY <3>1, <3>2, QueueType
  <2> QED
    BY <1>4, <2>1
    DEF Finish, FinalSuspend, SchedTypeOK, IOTypeOK, TaskTypeOK, FrameState, Phase
<1>5. ASSUME NEW d \in Coros, Spawn(c, d) PROVE TypeOK'
  <2>1. ready' \in Seq(Coros)
    BY <1>5, QueueType DEF Spawn, internal_spawn, SchedTypeOK
  <2>2. holders' \in [Fds -> SUBSET Coros]
    BY <1>5, PassType DEF Spawn
  <2> QED
    BY <1>5, <2>1, <2>2 DEF Spawn, StartDetached, SchedTypeOK, IOTypeOK, TaskTypeOK, FrameState
<1>6. ASSUME NEW fd \in Fds, NEW ev \in Event, OpSucceeds(c, fd, ev) PROVE TypeOK'
  BY <1>6 DEF OpSucceeds, Drain, SchedTypeOK, IOTypeOK, TaskTypeOK
<1>7. ASSUME NEW fd \in Fds, NEW ev \in Event, OpWouldBlock(c, fd, ev) PROVE TypeOK'
  BY <1>7 DEF OpWouldBlock, SchedTypeOK, IOTypeOK, TaskTypeOK
<1>8. ASSUME NEW fd \in Fds, NEW ev \in Event, AwaitEventThrows(c, fd, ev) PROVE TypeOK'
  BY <1>8 DEF AwaitEventThrows, add_waiter_throws, SchedTypeOK, IOTypeOK, TaskTypeOK
<1>9. ASSUME NEW fd \in Fds, Close(c, fd) PROVE TypeOK'
  BY <1>9 DEF Close, CloseFd, SchedTypeOK, IOTypeOK, TaskTypeOK
<1>10. ASSUME NEW lfd \in Fds, NEW fd \in Fds, Accept(c, lfd, fd) PROVE TypeOK'
  <2>1. holders' \in [Fds -> SUBSET Coros]
    BY <1>10 DEF Accept, TaskTypeOK
  <2> QED
    BY <1>10, <2>1 DEF Accept, ReuseFd, SchedTypeOK, IOTypeOK, TaskTypeOK, Event
<1> QED
  BY <1>1, <1>2, <1>3, <1>4, <1>5, <1>6, <1>7, <1>8, <1>9, <1>10 DEF CoroStep, Yield

(* Every step keeps the types. *)
LEMMA TypeStep == TypeOK /\ [Next]_vars => TypeOK'
<1> SUFFICES ASSUME TypeOK, [Next]_vars PROVE TypeOK'
  OBVIOUS
<1> USE DEF TypeOK
<1>1. ASSUME NEW d \in Coros, MainSpawn(d) PROVE TypeOK'
  <2>1. ready' \in Seq(Coros)
    BY <1>1, QueueType DEF MainSpawn, internal_spawn, SchedTypeOK
  <2>2. holders' \in [Fds -> SUBSET Coros]
    BY <1>1, PassType DEF MainSpawn
  <2> QED
    BY <1>1, <2>1, <2>2 DEF MainSpawn, StartDetached, SchedTypeOK, IOTypeOK, TaskTypeOK, FrameState
<1>2. CASE run
  BY <1>2 DEF run, SchedTypeOK, IOTypeOK, TaskTypeOK, Phase
<1>3. CASE Tick
  BY <1>3 DEF Tick, SchedTypeOK, IOTypeOK, TaskTypeOK
<1>4. CASE PollInterrupted
  BY <1>4 DEF PollInterrupted, SchedTypeOK, IOTypeOK, TaskTypeOK, Phase
<1>5. ASSUME NEW fd \in Fds, NEW ev \in Event, PeerActs(fd, ev) PROVE TypeOK'
  BY <1>5 DEF PeerActs, Arrive, SchedTypeOK, IOTypeOK, TaskTypeOK
<1>6. CASE UNCHANGED vars
  BY <1>6 DEF SchedTypeOK, IOTypeOK, TaskTypeOK
<1> QED
  BY <1>1, <1>2, <1>3, <1>4, <1>5, <1>6, LoopStepType, CoroStepType DEF Next, Environment

(* The variables of the runtime always have the values their declarations in
   the code allow: no step leaves a queue, a table or a deadline without one. *)
THEOREM TypeCorrect == Spec => []TypeOK
<1>1. Init => TypeOK
  BY DEF Init, SchedInit, IOInit, TaskInit, TypeOK, SchedTypeOK, IOTypeOK, TaskTypeOK,
         Phase, FrameState, Forever
<1> QED
  BY <1>1, TypeStep, PTL DEF Spec

-----------------------------------------------------------------------------
(* Wake-ups. *)

(* A frame that is not allocated is nobody's callee. *)
FreshFrames == \A c \in Coros : frame[c] = "none" => parent[c] = Nil

(* The inductive invariant.  NoStaleWakeup keeps the running coroutine out of
   all queues, so that it may enter one; NoDoubleWakeup lets a callee queue
   its caller, and lets the queue drop its head's only occurrence. *)
WakeInv ==
  /\ TypeOK
  /\ NoStaleWakeup
  /\ NoDoubleWakeup
  /\ OneRuns
  /\ CalleesReclaimed
  /\ FreshFrames

(* What Append and Tail do to the members of a queue without duplicates. *)
LEMMA AppendMembers ==
  ASSUME NEW q \in Seq(Coros), NEW x \in Coros
  PROVE  LET r == Append(q, x) IN
         /\ \A c \in Coros : (\E i \in DOMAIN r : r[i] = c)
                              <=> (\E i \in DOMAIN q : q[i] = c) \/ c = x
         /\ (/\ \A i, j \in DOMAIN q : q[i] = q[j] => i = j
             /\ ~ \E i \in DOMAIN q : q[i] = x)
            => \A i, j \in DOMAIN r : r[i] = r[j] => i = j
<1> DEFINE r == Append(q, x)
<1>1. /\ DOMAIN q = 1 .. Len(q) /\ Len(q) \in Nat
      /\ DOMAIN r = 1 .. Len(q) + 1
      /\ \A i \in 1 .. Len(q) : r[i] = q[i]
      /\ r[Len(q) + 1] = x
  BY SMT
<1> HIDE DEF r
<1>2. \A c \in Coros : (\E i \in DOMAIN r : r[i] = c)
                       <=> (\E i \in DOMAIN q : q[i] = c) \/ c = x
  BY <1>1, SMT
<1>3. (/\ \A i, j \in DOMAIN q : q[i] = q[j] => i = j
       /\ ~ \E i \in DOMAIN q : q[i] = x)
      => \A i, j \in DOMAIN r : r[i] = r[j] => i = j
  BY <1>1, SMT
<1> QED
  BY <1>2, <1>3 DEF r

LEMMA TailMembers ==
  ASSUME NEW q \in Seq(Coros), q # <<>>,
         \A i, j \in DOMAIN q : q[i] = q[j] => i = j
  PROVE  LET r == Tail(q) IN
         /\ \A c \in Coros : (\E i \in DOMAIN r : r[i] = c)
                              <=> (\E i \in DOMAIN q : q[i] = c) /\ c # Head(q)
         /\ \A i, j \in DOMAIN r : r[i] = r[j] => i = j
         /\ \E i \in DOMAIN q : q[i] = Head(q)
<1> DEFINE r == Tail(q)
<1>1. /\ DOMAIN q = 1 .. Len(q) /\ Len(q) \in Nat \ {0}
      /\ DOMAIN r = 1 .. Len(q) - 1
      /\ \A i \in 1 .. Len(q) - 1 : r[i] = q[i + 1]
      /\ Head(q) = q[1]
  BY SMT
<1> HIDE DEF r
<1>2. \A c \in Coros : (\E i \in DOMAIN r : r[i] = c)
                       <=> (\E i \in DOMAIN q : q[i] = c) /\ c # Head(q)
  <2> SUFFICES ASSUME NEW c \in Coros
               PROVE  (\E i \in DOMAIN r : r[i] = c)
                        <=> (\E i \in DOMAIN q : q[i] = c) /\ c # Head(q)
    OBVIOUS
  <2>1. ASSUME NEW i \in DOMAIN r, r[i] = c
        PROVE  (\E k \in DOMAIN q : q[k] = c) /\ c # Head(q)
    <3>1. i + 1 \in DOMAIN q /\ q[i + 1] = c /\ 1 \in DOMAIN q /\ i + 1 # 1
      BY <1>1, <2>1, SMT
    <3> QED
      BY <1>1, <3>1
  <2>2. ASSUME NEW i \in DOMAIN q, q[i] = c, c # Head(q)
        PROVE  \E k \in DOMAIN r : r[k] = c
    <3>1. i - 1 \in DOMAIN r /\ r[i - 1] = c
      BY <1>1, <2>2, SMT
    <3> QED
      BY <3>1
  <2> QED
    BY <2>1, <2>2
<1>3. \A i, j \in DOMAIN r : r[i] = r[j] => i = j
  BY <1>1, SMT
<1>4. \E i \in DOMAIN q : q[i] = Head(q)
  BY <1>1, SMT
<1> QED
  BY <1>2, <1>3, <1>4 DEF r

(* internal_spawn adds one handle to those in the ready queue. *)
LEMMA Queued ==
  ASSUME TypeOK, NEW h \in Coros, ready' = Append(ready, h)
  PROVE  /\ \A c \in Coros : InReady(c)' <=> InReady(c) \/ c = h
         /\ (/\ \A i, j \in DOMAIN ready : ready[i] = ready[j] => i = j
             /\ ~ InReady(h))
            => (\A i, j \in DOMAIN ready : ready[i] = ready[j] => i = j)'
<1>1. ready \in Seq(Coros)
  BY DEF TypeOK, SchedTypeOK
<1>2. \A c \in Coros : (\E i \in DOMAIN ready' : ready'[i] = c)
                       <=> (\E i \in DOMAIN ready : ready[i] = c) \/ c = h
  BY <1>1, AppendMembers
<1>3. (/\ \A i, j \in DOMAIN ready : ready[i] = ready[j] => i = j
       /\ ~ \E i \in DOMAIN ready : ready[i] = h)
      => \A i, j \in DOMAIN ready' : ready'[i] = ready'[j] => i = j
  BY <1>1, AppendMembers
<1> QED
  BY <1>2, <1>3, Zenon DEF InReady

(* A step that moves no handle, and neither enters nor leaves a coroutine. *)
LEMMA NoHandleMoves ==
  ASSUME WakeInv, TypeOK', UNCHANGED <<ready, sleepys, table, frame, parent>>,
         phase' = "coro" <=> phase = "coro"
  PROVE  WakeInv'
  BY DEF WakeInv, NoStaleWakeup, NoDoubleWakeup, OneRuns, CalleesReclaimed, FreshFrames,
         InReady, Asleep, InTable, AwaitsChild, Live

(* A new coroutine is queued by main or by the running coroutine. *)
LEMMA SpawnWake ==
  ASSUME WakeInv, TypeOK', NEW d \in Coros, StartDetached(d), internal_spawn(d),
         UNCHANGED <<phase, sleepys, table>>
  PROVE  WakeInv'
<1>1. frame[d] = "none" /\ parent[d] = Nil /\ ~InReady(d) /\ ~Asleep(d) /\ ~InTable(d)
      /\ ~AwaitsChild(d)
  BY DEF WakeInv, StartDetached, NoStaleWakeup, FreshFrames
<1>2. /\ \A c \in Coros : InReady(c)' <=> InReady(c) \/ c = d
      /\ (\A i, j \in DOMAIN ready : ready[i] = ready[j] => i = j)'
  BY <1>1, Queued DEF internal_spawn, WakeInv, NoDoubleWakeup
<1>3. /\ \A c \in Coros : frame'[c] = IF c = d THEN "suspended" ELSE frame[c]
      /\ parent' = parent
  BY DEF StartDetached, WakeInv, TypeOK, TaskTypeOK
<1>4. \A c \in Coros : /\ Asleep(c)' <=> Asleep(c)
                       /\ InTable(c)' <=> InTable(c)
                       /\ AwaitsChild(c)' <=> AwaitsChild(c)
  BY <1>1, <1>3 DEF Asleep, InTable, AwaitsChild, Live
<1>5. NoStaleWakeup'
  BY <1>1, <1>2, <1>3, <1>4 DEF WakeInv, NoStaleWakeup
<1>6. NoDoubleWakeup'
  BY <1>1, <1>2, <1>3, <1>4 DEF WakeInv, NoDoubleWakeup, Live
<1>7. OneRuns'
  BY <1>1, <1>3 DEF WakeInv, OneRuns
<1>8. CalleesReclaimed' /\ FreshFrames'
  BY <1>1, <1>2, <1>3 DEF WakeInv, CalleesReclaimed, FreshFrames, TypeOK, TaskTypeOK
<1> QED
  BY <1>5, <1>6, <1>7, <1>8 DEF WakeInv

(* The running coroutine calls d and is out of play until d has finished. *)
LEMMA AwaitTaskWake ==
  ASSUME WakeInv, TypeOK', NEW c \in Coros, NEW d \in Coros, AwaitTask(c, d)
  PROVE  WakeInv'
<1>1. /\ frame[d] = "none" /\ ~InReady(d) /\ ~Asleep(d) /\ ~InTable(d) /\ ~AwaitsChild(d)
      /\ frame[c] = "running" /\ ~InReady(c) /\ ~Asleep(c) /\ ~InTable(c) /\ ~AwaitsChild(c)
      /\ c # d
  BY DEF AwaitTask, WakeInv, StartAwaited, NoStaleWakeup
<1>2. /\ \A b \in Coros : InReady(b)' <=> InReady(b) \/ b = d
      /\ (\A i, j \in DOMAIN ready : ready[i] = ready[j] => i = j)'
  BY <1>1, Queued DEF AwaitTask, internal_spawn, WakeInv, NoDoubleWakeup
<1>3. \A b \in Coros : /\ frame'[b] = IF b \in {c, d} THEN "suspended" ELSE frame[b]
                       /\ parent'[b] = IF b = d THEN c ELSE parent[b]
  BY DEF AwaitTask, StartAwaited, WakeInv, TypeOK, TaskTypeOK
<1>4. \A b \in Coros : /\ Asleep(b)' <=> Asleep(b)
                       /\ InTable(b)' <=> InTable(b)
                       /\ AwaitsChild(b)' <=> AwaitsChild(b) \/ b = c
  BY <1>1, <1>3 DEF AwaitTask, Asleep, InTable, AwaitsChild, Live
<1>5. NoStaleWakeup'
  BY <1>1, <1>2, <1>3, <1>4 DEF WakeInv, NoStaleWakeup
<1>6. NoDoubleWakeup'
  <2>1. \A b, e \in Coros :
          Live(b)' /\ Live(e)' /\ parent'[b] = parent'[e] /\ parent'[b] # Nil => b = e
    BY <1>1, <1>3 DEF WakeInv, NoDoubleWakeup, Live, AwaitsChild
  <2> QED
    BY <1>1, <1>2, <1>4, <2>1 DEF AwaitTask, WakeInv, NoDoubleWakeup
<1>7. OneRuns'
  BY <1>1, <1>3 DEF AwaitTask, WakeInv, OneRuns
<1>8. CalleesReclaimed' /\ FreshFrames'
  BY <1>1, <1>2, <1>3 DEF WakeInv, CalleesReclaimed, FreshFrames, TypeOK, TaskTypeOK
<1> QED
  BY <1>5, <1>6, <1>7, <1>8 DEF WakeInv

(* The running coroutine goes to sleep: its handle enters the timer queue. *)
LEMMA AwaitSleepWake ==
  ASSUME WakeInv, TypeOK', NEW c \in Coros, NEW d \in Durations, AwaitSleep(c, d)
  PROVE  WakeInv'
<1>1. frame[c] = "running" /\ ~InReady(c) /\ ~Asleep(c) /\ ~InTable(c) /\ ~AwaitsChild(c)
  BY DEF AwaitSleep, WakeInv, NoStaleWakeup
<1>2. PICK item : item.coro = c /\ sleepys' = sleepys \cup {item}
  BY DEF AwaitSleep, sleep_until
<1>3. \A b \in Coros : frame'[b] = IF b = c THEN "suspended" ELSE frame[b]
  BY DEF AwaitSleep, Suspend, WakeInv, TypeOK, TaskTypeOK
<1>4. \A b \in Coros : /\ Asleep(b)' <=> Asleep(b) \/ b = c
                       /\ InReady(b)' <=> InReady(b)
                       /\ InTable(b)' <=> InTable(b)
                       /\ AwaitsChild(b)' <=> AwaitsChild(b)
  BY <1>1, <1>2, <1>3 DEF AwaitSleep, Suspend, Asleep, InReady, InTable, AwaitsChild, Live
<1>5. NoStaleWakeup'
  BY <1>1, <1>3, <1>4 DEF WakeInv, NoStaleWakeup
<1>6. NoDoubleWakeup'
  <2>1. \A s, t \in sleepys' : s.coro = t.coro => s = t
    BY <1>1, <1>2 DEF WakeInv, NoDoubleWakeup, Asleep
  <2>2. \A b, e \in Coros :
          Live(b)' /\ Live(e)' /\ parent'[b] = parent'[e] /\ parent'[b] # Nil => b = e
    BY <1>1, <1>3 DEF AwaitSleep, Suspend, WakeInv, NoDoubleWakeup, Live
  <2> QED
    BY <1>1, <1>4, <2>1, <2>2 DEF AwaitSleep, WakeInv, NoDoubleWakeup
<1>7. OneRuns'
  BY <1>1, <1>3 DEF AwaitSleep, WakeInv, OneRuns
<1>8. CalleesReclaimed' /\ FreshFrames'
  BY <1>3, <1>4 DEF AwaitSleep, Suspend, WakeInv, CalleesReclaimed, FreshFrames, TypeOK,
                    TaskTypeOK
<1> QED
  BY <1>5, <1>6, <1>7, <1>8 DEF WakeInv

(* The running coroutine waits for a socket: its handle enters the table,
   possibly in the place of another, which is then in no queue at all. *)
LEMMA AwaitEventWake ==
  ASSUME WakeInv, TypeOK', NEW c \in Coros, NEW fd \in Fds, NEW ev \in Event,
         AwaitEvent(c, fd, ev)
  PROVE  WakeInv'
<1>1. frame[c] = "running" /\ ~InReady(c) /\ ~Asleep(c) /\ ~InTable(c) /\ ~AwaitsChild(c)
  BY DEF AwaitEvent, WakeInv, NoStaleWakeup
<1>2. \A gd \in Fds : table'[gd] = IF gd = fd THEN c ELSE table[gd]
  BY DEF AwaitEvent, add_waiter, WakeInv, TypeOK, IOTypeOK
<1>3. \A b \in Coros : frame'[b] = IF b = c THEN "suspended" ELSE frame[b]
  BY DEF AwaitEvent, Suspend, WakeInv, TypeOK, TaskTypeOK
<1>4. \A b \in Coros : /\ InTable(b)' => InTable(b) \/ b = c
                       /\ InReady(b)' <=> InReady(b)
                       /\ Asleep(b)' <=> Asleep(b)
                       /\ AwaitsChild(b)' <=> AwaitsChild(b)
  BY <1>1, <1>2, <1>3 DEF AwaitEvent, Suspend, Asleep, InReady, InTable, AwaitsChild, Live
<1>5. NoStaleWakeup'
  BY <1>1, <1>3, <1>4 DEF WakeInv, NoStaleWakeup
<1>6. NoDoubleWakeup'
  <2>1. \A gd, hd \in Fds : table'[gd] = table'[hd] /\ table'[gd] # Nil => gd = hd
    BY <1>1, <1>2 DEF WakeInv, NoDoubleWakeup, InTable
  <2>2. \A b, e \in Coros :
          Live(b)' /\ Live(e)' /\ parent'[b] = parent'[e] /\ parent'[b] # Nil => b = e
    BY <1>1, <1>3 DEF AwaitEvent, Suspend, WakeInv, NoDoubleWakeup, Live
  <2> QED
    BY <1>1, <1>4, <2>1, <2>2 DEF AwaitEvent, WakeInv, NoDoubleWakeup
<1>7. OneRuns'
  BY <1>1, <1>3 DEF AwaitEvent, WakeInv, OneRuns
<1>8. CalleesReclaimed' /\ FreshFrames'
  BY <1>3, <1>4 DEF AwaitEvent, Suspend, WakeInv, CalleesReclaimed, FreshFrames, TypeOK,
                    TaskTypeOK
<1> QED
  BY <1>5, <1>6, <1>7, <1>8 DEF WakeInv

(* The running coroutine finishes and queues its caller, if it has one. *)
LEMMA FinishWake ==
  ASSUME WakeInv, TypeOK', NEW c \in Coros, Finish(c)
  PROVE  WakeInv'
<1>1. frame[c] = "running" /\ ~InReady(c) /\ ~Asleep(c) /\ ~InTable(c) /\ ~AwaitsChild(c)
  BY DEF Finish, WakeInv, NoStaleWakeup
<1>2. /\ \A b \in Coros : frame'[b] = IF b = c THEN "final" ELSE frame[b]
      /\ parent' = parent
  BY DEF Finish, FinalSuspend, WakeInv, TypeOK, TaskTypeOK
<1>3. \A b \in Coros : /\ Asleep(b)' <=> Asleep(b)
                       /\ InTable(b)' <=> InTable(b)
                       /\ AwaitsChild(b)' <=> AwaitsChild(b) /\ b # parent[c]
  BY <1>1, <1>2 DEF Finish, Asleep, InTable, AwaitsChild, Live, WakeInv, NoDoubleWakeup
<1>4. /\ \A b \in Coros : InReady(b)' <=> InReady(b) \/ b = parent[c]
      /\ (\A i, j \in DOMAIN ready : ready[i] = ready[j] => i = j)'
  <2>1. CASE parent[c] = Nil
    BY <2>1 DEF Finish, InReady, WakeInv, NoDoubleWakeup
  <2>2. CASE parent[c] # Nil
    <3>1. parent[c] \in Coros /\ AwaitsChild(parent[c])
      BY <1>1, <2>2 DEF WakeInv, TypeOK, TaskTypeOK, AwaitsChild, Live
    <3>2. ~InReady(parent[c])
      BY <3>1 DEF WakeInv, NoDoubleWakeup
    <3> QED
      BY <2>2, <3>1, <3>2, Queued DEF Finish, internal_spawn, WakeInv, NoDoubleWakeup
  <2> QED
    BY <2>1, <2>2
<1>5. \A b \in Coros : b = parent[c] =>
        frame[b] = "suspended" /\ ~Asleep(b) /\ ~InTable(b) /\ b # c
  BY <1>1 DEF WakeInv, NoStaleWakeup, NoDoubleWakeup, AwaitsChild, Live
<1>6. NoStaleWakeup'
  BY <1>1, <1>2, <1>3, <1>4, <1>5 DEF WakeInv, NoStaleWakeup
<1>7. NoDoubleWakeup'
  <2>1. \A b, e \in Coros :
          Live(b)' /\ Live(e)' /\ parent'[b] = parent'[e] /\ parent'[b] # Nil => b = e
    BY <1>1, <1>2 DEF WakeInv, NoDoubleWakeup, Live
  <2> QED
    BY <1>3, <1>4, <1>5, <2>1 DEF Finish, WakeInv, NoDoubleWakeup
<1>8. OneRuns'
  BY <1>1, <1>2 DEF Finish, WakeInv, OneRuns
<1>9. CalleesReclaimed' /\ FreshFrames'
  BY <1>2, <1>4 DEF WakeInv, CalleesReclaimed, FreshFrames, TypeOK, TaskTypeOK
<1> QED
  BY <1>6, <1>7, <1>8, <1>9 DEF WakeInv

(* The head of the ready queue is resumed; a callee it awaited is reclaimed. *)
LEMMA ResumeWake ==
  ASSUME WakeInv, TypeOK', Resume
  PROVE  WakeInv'
<1> DEFINE c == Head(ready)
<1>1. /\ c \in Coros /\ InReady(c)
      /\ \A b \in Coros : InReady(b)' <=> InReady(b) /\ b # c
      /\ (\A i, j \in DOMAIN ready : ready[i] = ready[j] => i = j)'
  BY TailMembers, QueueType
  DEF Resume, WakeInv, TypeOK, SchedTypeOK, NoDoubleWakeup, InReady
<1> HIDE DEF c
<1>2. frame[c] = "suspended" /\ ~Asleep(c) /\ ~InTable(c) /\ ~AwaitsChild(c)
  BY <1>1 DEF WakeInv, NoStaleWakeup, NoDoubleWakeup
<1>3. \A b \in Coros :
        /\ frame'[b] = IF b = c THEN "running"
                       ELSE IF parent[b] = c /\ frame[b] = "final" THEN "none" ELSE frame[b]
        /\ parent'[b] = IF parent[b] = c /\ frame[b] = "final" THEN Nil ELSE parent[b]
  BY <1>1 DEF c, Resume, ResumeFrame, Reclaimed
<1>4. \A b \in Coros : /\ Live(b)' <=> Live(b)
                       /\ Live(b) => parent'[b] = parent[b]
  BY <1>2, <1>3 DEF Live
<1>5. \A b \in Coros : /\ Asleep(b)' <=> Asleep(b)
                       /\ InTable(b)' <=> InTable(b)
                       /\ AwaitsChild(b)' <=> AwaitsChild(b)
  BY <1>4 DEF Resume, Asleep, InTable, AwaitsChild
<1>6. NoStaleWakeup'
  BY <1>1, <1>2, <1>3, <1>5 DEF WakeInv, NoStaleWakeup
<1>7. NoDoubleWakeup'
  <2>1. \A b, e \in Coros :
          Live(b)' /\ Live(e)' /\ parent'[b] = parent'[e] /\ parent'[b] # Nil => b = e
    BY <1>4 DEF WakeInv, NoDoubleWakeup
  <2> QED
    BY <1>1, <1>5, <2>1 DEF Resume, WakeInv, NoDoubleWakeup
<1>8. OneRuns'
  BY <1>1, <1>3 DEF Resume, WakeInv, OneRuns
<1>9. CalleesReclaimed'
  <2> SUFFICES ASSUME NEW d \in Coros, frame'[d] = "final", parent'[d] # Nil
               PROVE  InReady(parent[d])'
    BY <1>3 DEF CalleesReclaimed
  <2>1. frame[d] = "final" /\ parent[d] # Nil /\ parent[d] # c /\ parent'[d] = parent[d]
    BY <1>2, <1>3
  <2>2. InReady(parent[d]) /\ parent[d] \in Coros
    BY <2>1 DEF WakeInv, CalleesReclaimed, TypeOK, TaskTypeOK
  <2> QED
    BY <1>1, <2>1, <2>2 DEF InReady
<1>10. FreshFrames'
  BY <1>2, <1>3 DEF WakeInv, FreshFrames
<1> QED
  BY <1>6, <1>7, <1>8, <1>9, <1>10 DEF WakeInv

(* An expired sleeper moves to the ready queue. *)
LEMMA ExpireWake ==
  ASSUME WakeInv, TypeOK', Expire
  PROVE  WakeInv'
<1> PICK s \in sleepys : internal_spawn(s.coro) /\ sleepys' = sleepys \ {s}
  BY DEF Expire
<1>1. s.coro \in Coros /\ Asleep(s.coro)
  BY DEF WakeInv, TypeOK, SchedTypeOK, SleepItem, Asleep
<1>2. frame[s.coro] = "suspended" /\ ~InReady(s.coro) /\ ~InTable(s.coro) /\ ~AwaitsChild(s.coro)
  BY <1>1 DEF WakeInv, NoStaleWakeup, NoDoubleWakeup
<1>3. /\ \A b \in Coros : InReady(b)' <=> InReady(b) \/ b = s.coro
      /\ (\A i, j \in DOMAIN ready : ready[i] = ready[j] => i = j)'
  BY <1>1, <1>2, Queued DEF internal_spawn, WakeInv, NoDoubleWakeup
<1>4. \A b \in Coros : /\ Asleep(b)' <=> Asleep(b) /\ b # s.coro
                       /\ InTable(b)' <=> InTable(b)
                       /\ AwaitsChild(b)' <=> AwaitsChild(b)
  BY DEF Expire, Asleep, InTable, AwaitsChild, Live, WakeInv, NoDoubleWakeup
<1>5. NoStaleWakeup'
  BY <1>2, <1>3, <1>4 DEF Expire, WakeInv, NoStaleWakeup
<1>6. NoDoubleWakeup'
  BY <1>2, <1>3, <1>4 DEF Expire, WakeInv, NoDoubleWakeup, Live
<1>7. OneRuns' /\ FreshFrames'
  BY DEF Expire, WakeInv, OneRuns, FreshFrames
<1>8. CalleesReclaimed'
  BY <1>3 DEF Expire, WakeInv, CalleesReclaimed, TypeOK, TaskTypeOK
<1> QED
  BY <1>5, <1>6, <1>7, <1>8 DEF WakeInv

(* A reported waiter moves to the ready queue. *)
LEMMA DeliverWake ==
  ASSUME WakeInv, TypeOK', Deliver
  PROVE  WakeInv'
<1> PICK fd \in events :
      /\ TakeWaiter(fd)
      /\ IF table[fd] # Nil THEN internal_spawn(table[fd]) ELSE UNCHANGED ready
  BY DEF Deliver
<1>1. fd \in Fds /\ table[fd] \in Coros \cup {Nil}
  BY DEF WakeInv, TypeOK, IOTypeOK
<1>2. CASE table[fd] = Nil
  BY <1>2, NoHandleMoves DEF Deliver, TakeWaiter
<1>3. CASE table[fd] # Nil
  <2> DEFINE h == table[fd]
  <2>1. h \in Coros /\ InTable(h)
    BY <1>1, <1>3 DEF InTable
  <2>2. frame[h] = "suspended" /\ ~InReady(h) /\ ~Asleep(h) /\ ~AwaitsChild(h)
    BY <2>1 DEF WakeInv, NoStaleWakeup, NoDoubleWakeup
  <2>3. /\ \A b \in Coros : InReady(b)' <=> InReady(b) \/ b = h
        /\ (\A i, j \in DOMAIN ready : ready[i] = ready[j] => i = j)'
    BY <1>3, <2>1, <2>2, Queued DEF internal_spawn, WakeInv, NoDoubleWakeup
  <2>4. \A gd \in Fds : table'[gd] = IF gd = fd THEN Nil ELSE table[gd]
    BY <1>3 DEF TakeWaiter, WakeInv, TypeOK, IOTypeOK
  <2>5. \A b \in Coros : /\ InTable(b)' <=> InTable(b) /\ b # h
                         /\ Asleep(b)' <=> Asleep(b)
                         /\ AwaitsChild(b)' <=> AwaitsChild(b)
    BY <1>1, <1>3, <2>4 DEF Deliver, Asleep, InTable, AwaitsChild, Live, WakeInv, NoDoubleWakeup
  <2> HIDE DEF h
  <2>6. NoStaleWakeup'
    BY <2>2, <2>3, <2>5 DEF Deliver, WakeInv, NoStaleWakeup
  <2>7. NoDoubleWakeup'
    <3>1. \A gd, hd \in Fds : table'[gd] = table'[hd] /\ table'[gd] # Nil => gd = hd
      BY <2>4 DEF WakeInv, NoDoubleWakeup
    <3> QED
      BY <2>2, <2>3, <2>5, <3>1 DEF Deliver, WakeInv, NoDoubleWakeup, Live
  <2>8. OneRuns' /\ FreshFrames'
    BY DEF Deliver, WakeInv, OneRuns, FreshFrames
  <2>9. CalleesReclaimed'
    BY <2>3 DEF Deliver, WakeInv, CalleesReclaimed, TypeOK, TaskTypeOK
  <2> QED
    BY <2>6, <2>7, <2>8, <2>9 DEF WakeInv
<1> QED
  BY <1>2, <1>3

(* The invariant is inductive. *)
LEMMA WakeStep == WakeInv /\ [Next]_vars => WakeInv'
<1> SUFFICES ASSUME WakeInv, [Next]_vars PROVE WakeInv'
  OBVIOUS
<1>1. TypeOK'
  BY TypeStep DEF WakeInv
<1>2. ASSUME LoopStep PROVE WakeInv'
  <2>1. CASE LoopTest \/ ResumeDone \/ ExpireDone \/ EnterPoll \/ PollEvents \/ PollTimeout
             \/ DeliverDone \/ AwakeThread
    BY <1>1, <2>1, NoHandleMoves
    DEF LoopTest, ResumeDone, ExpireDone, EnterPoll, PollEvents, PollTimeout, DeliverDone,
        EndOfIteration, AwakeThread
  <2> QED
    BY <1>1, <1>2, <2>1, ResumeWake, ExpireWake, DeliverWake DEF LoopStep
<1>3. ASSUME NEW c \in Coros, CoroStep(c) PROVE WakeInv'
  <2>1. ASSUME NEW d \in Coros, Spawn(c, d) PROVE WakeInv'
    BY <1>1, <2>1, SpawnWake DEF Spawn
  <2>2. ASSUME NEW fd \in Fds, NEW ev \in Event,
               OpSucceeds(c, fd, ev) \/ OpWouldBlock(c, fd, ev) \/ AwaitEventThrows(c, fd, ev)
        PROVE  WakeInv'
    BY <1>1, <2>2, NoHandleMoves
    DEF OpSucceeds, Drain, OpWouldBlock, AwaitEventThrows, add_waiter_throws
  <2>3. ASSUME NEW fd \in Fds, Close(c, fd) PROVE WakeInv'
    BY <1>1, <2>3, NoHandleMoves DEF Close, CloseFd
  <2>4. ASSUME NEW lfd \in Fds, NEW fd \in Fds, Accept(c, lfd, fd) PROVE WakeInv'
    BY <1>1, <2>4, NoHandleMoves DEF Accept, ReuseFd
  <2> QED
    BY <1>1, <1>3, <2>1, <2>2, <2>3, <2>4, AwaitTaskWake, AwaitSleepWake, AwaitEventWake, FinishWake
    DEF CoroStep, Yield
<1>4. ASSUME NEW d \in Coros, MainSpawn(d) PROVE WakeInv'
  BY <1>1, <1>4, SpawnWake DEF MainSpawn
<1>5. CASE run \/ Environment \/ UNCHANGED vars
  BY <1>1, <1>5, NoHandleMoves DEF run, Environment, Tick, PollInterrupted, PeerActs, Arrive
<1> QED
  BY <1>2, <1>3, <1>4, <1>5 DEF Next

LEMMA WakeInvariant == Spec => []WakeInv
<1>1. Init => WakeInv
  <2>1. Init => TypeOK
    BY DEF Init, SchedInit, IOInit, TaskInit, TypeOK, SchedTypeOK, IOTypeOK, TaskTypeOK,
           Phase, FrameState, Forever
  <2> QED
    BY <2>1 DEF Init, SchedInit, IOInit, TaskInit, WakeInv, NoStaleWakeup, NoDoubleWakeup,
                OneRuns, CalleesReclaimed, FreshFrames, InReady, Asleep, InTable, AwaitsChild,
                Live
<1> QED
  BY <1>1, WakeStep, PTL DEF Spec

(* coroutine_handle::resume() is only ever called, now or later, on the frame
   of a suspended coroutine. *)
THEOREM WakeupsAreFresh == Spec => []NoStaleWakeup
  BY WakeInvariant, PTL DEF WakeInv

(* A suspended coroutine waits for one thing at a time: nothing resumes it
   twice for one suspension. *)
THEOREM WakeupsExclusive == Spec => []NoDoubleWakeup
  BY WakeInvariant, PTL DEF WakeInv

(* The coroutines run one at a time, and only from the loop of __run. *)
THEOREM RunsOneAtATime == Spec => []OneRuns
  BY WakeInvariant, PTL DEF WakeInv

(* The frame of a finished call has an owner that will destroy it: a caller
   that is already in the ready queue. *)
THEOREM FramesHaveOwners == Spec => []CalleesReclaimed
  BY WakeInvariant, PTL DEF WakeInv

-----------------------------------------------------------------------------
(* The reactor and the timers: no edge is lost, no wake-up is spurious, timers
   fire in order, epoll_wait ends in time for them, and the thread is deaf for
   less than a millisecond. *)

(* The kernel registrations and the table.  A registration without an entry
   does not exist; an entry without one is what close() leaves behind. *)
TableInv ==
  /\ \A fd \in Fds : interest[fd] # "none" => /\ fd \in open
                                              /\ table[fd] # Nil
                                              /\ interest[fd] = mask[fd]
  /\ want # Nil => phase = "coro" /\ want[1] \in open

(* The array of poll() is empty outside of it, and holds events that are
   true. *)
EventsInv ==
  /\ phase # "deliver" => events = {}
  /\ \A fd \in events : interest[fd] \in level[fd]

(* The inductive invariant of the reactor. *)
ReactorInv ==
  /\ TypeOK
  /\ TableInv
  /\ EventsInv
  /\ NoLostEdge

(* A step of the thread outside of poll() and of coroutines. *)
LEMMA ReactorIdle ==
  ASSUME ReactorInv, TypeOK', UNCHANGED ioVars, UNCHANGED <<want, events>>,
         want # Nil => phase' = "coro",
         phase' # "deliver" => events = {}
  PROVE  ReactorInv'
  BY DEF ReactorInv, TableInv, EventsInv, NoLostEdge

LEMMA ReactorStep == ReactorInv /\ [Next]_vars => ReactorInv'
<1> SUFFICES ASSUME ReactorInv, [Next]_vars PROVE ReactorInv'
  OBVIOUS
<1> USE DEF ReactorInv
<1>1. TypeOK'
  BY TypeStep
<1>2. ASSUME LoopStep PROVE ReactorInv'
  <2>1. CASE LoopTest \/ Resume \/ ResumeDone \/ Expire \/ ExpireDone \/ EnterPoll
             \/ PollTimeout \/ DeliverDone \/ AwakeThread
    BY <1>1, <2>1, ReactorIdle
    DEF LoopTest, Resume, ResumeDone, Expire, ExpireDone, EnterPoll, PollTimeout, DeliverDone,
        EndOfIteration, AwakeThread, TableInv, EventsInv
  <2>2. CASE PollEvents
    BY <1>1, <2>2 DEF PollEvents, EpollWait, Reportable, TableInv, EventsInv, NoLostEdge
  <2>3. CASE Deliver
    <3> PICK fd \in events : TakeWaiter(fd) /\ events' = events \ {fd}
      BY <2>3 DEF Deliver
    <3>1. fd \in Fds /\ \A gd \in events : gd \in Fds
      BY DEF TypeOK
    <3>2. CASE table[fd] = Nil
      BY <1>1, <2>3, <3>1, <3>2 DEF Deliver, TakeWaiter, TableInv, EventsInv, NoLostEdge, TypeOK,
                                    IOTypeOK, Event
    <3>3. CASE table[fd] # Nil
      <4>1. /\ \A gd \in Fds : /\ table'[gd] = IF gd = fd THEN Nil ELSE table[gd]
                               /\ mask'[gd] = IF gd = fd THEN "none" ELSE mask[gd]
                               /\ interest'[gd] = IF gd = fd THEN "none" ELSE interest[gd]
            /\ pending' = pending \ {fd} /\ UNCHANGED <<open, level>>
        BY <3>3 DEF TakeWaiter, TypeOK, IOTypeOK
      <4>2. "none" \notin level[fd]
        BY <3>1 DEF TypeOK, IOTypeOK, Event
      <4>3. TableInv'
        BY <2>3, <4>1 DEF Deliver, TableInv
      <4>4. EventsInv' /\ NoLostEdge'
        BY <2>3, <3>1, <4>1, <4>2 DEF Deliver, EventsInv, NoLostEdge
      <4> QED
        BY <1>1, <4>3, <4>4
    <3> QED
      BY <3>2, <3>3
  <2> QED
    BY <1>2, <2>1, <2>2, <2>3 DEF LoopStep
<1>3. ASSUME NEW c \in Coros, CoroStep(c) PROVE ReactorInv'
  <2>1. ASSUME NEW d \in Coros, AwaitTask(c, d) \/ Spawn(c, d) PROVE ReactorInv'
    BY <1>1, <2>1, ReactorIdle DEF AwaitTask, Spawn, TableInv, EventsInv
  <2>2. ASSUME NEW d \in Durations, AwaitSleep(c, d) PROVE ReactorInv'
    BY <1>1, <2>2, ReactorIdle DEF AwaitSleep, TableInv, EventsInv
  <2>3. CASE Finish(c)
    BY <1>1, <2>3, ReactorIdle DEF Finish, TableInv, EventsInv
  <2>4. ASSUME NEW fd \in Fds, NEW ev \in Event, AwaitEvent(c, fd, ev) PROVE ReactorInv'
    <3>1. /\ \A gd \in Fds : /\ table'[gd] = IF gd = fd THEN c ELSE table[gd]
                             /\ mask'[gd] = IF gd = fd THEN ev ELSE mask[gd]
                             /\ interest'[gd] = IF gd = fd THEN ev ELSE interest[gd]
          /\ pending' = IF ev \in level[fd] THEN pending \cup {fd} ELSE pending \ {fd}
          /\ UNCHANGED <<open, level, events>>
          /\ phase = "coro" /\ phase' = "resume" /\ want' = Nil /\ want = <<fd, ev>>
      BY <2>4 DEF AwaitEvent, add_waiter, EpollCtlAdd, EpollCtlMod, Arm, TypeOK, IOTypeOK
    <3>2. fd \in open /\ events = {} /\ c # Nil
      BY <3>1 DEF TableInv, EventsInv
    <3> QED
      BY <1>1, <3>1, <3>2 DEF TableInv, EventsInv, NoLostEdge
  <2>5. ASSUME NEW fd \in Fds, NEW ev \in Event, OpSucceeds(c, fd, ev) PROVE ReactorInv'
    BY <1>1, <2>5 DEF OpSucceeds, Drain, TableInv, EventsInv, NoLostEdge, TypeOK, IOTypeOK
  <2>6. ASSUME NEW fd \in Fds, NEW ev \in Event, OpWouldBlock(c, fd, ev) PROVE ReactorInv'
    BY <1>1, <2>6 DEF OpWouldBlock, TableInv, EventsInv, NoLostEdge
  <2>7. ASSUME NEW fd \in Fds, NEW ev \in Event, AwaitEventThrows(c, fd, ev) PROVE ReactorInv'
    BY <1>1, <2>7 DEF AwaitEventThrows, add_waiter_throws, TableInv, EventsInv, NoLostEdge
  <2>8. ASSUME NEW fd \in Fds, Close(c, fd) PROVE ReactorInv'
    BY <1>1, <2>8 DEF Close, CloseFd, TableInv, EventsInv, NoLostEdge, TypeOK, IOTypeOK
  <2>9. ASSUME NEW lfd \in Fds, NEW fd \in Fds, Accept(c, lfd, fd) PROVE ReactorInv'
    BY <1>1, <2>9 DEF Accept, ReuseFd, TableInv, EventsInv, NoLostEdge, TypeOK, IOTypeOK
  <2> QED
    BY <1>3, <2>1, <2>2, <2>3, <2>4, <2>5, <2>6, <2>7, <2>8, <2>9 DEF CoroStep, Yield
<1>4. ASSUME NEW d \in Coros, MainSpawn(d) PROVE ReactorInv'
  BY <1>1, <1>4, ReactorIdle DEF MainSpawn, TableInv, EventsInv
<1>5. CASE run \/ Tick \/ PollInterrupted \/ UNCHANGED vars
  BY <1>1, <1>5, ReactorIdle DEF run, Tick, PollInterrupted, TableInv, EventsInv
<1>6. ASSUME NEW fd \in Fds, NEW ev \in Event, PeerActs(fd, ev) PROVE ReactorInv'
  BY <1>1, <1>6 DEF PeerActs, Arrive, TableInv, EventsInv, NoLostEdge, TypeOK, IOTypeOK
<1> QED
  BY <1>2, <1>3, <1>4, <1>5, <1>6 DEF Next, Environment

LEMMA ReactorInvariant == Spec => []ReactorInv
<1>1. Init => ReactorInv
  <2>1. Init => TypeOK
    BY DEF Init, SchedInit, IOInit, TaskInit, TypeOK, SchedTypeOK, IOTypeOK, TaskTypeOK,
           Phase, FrameState, Forever
  <2> QED
    BY <2>1 DEF Init, SchedInit, IOInit, ReactorInv, TableInv, EventsInv, NoLostEdge, Event
<1> QED
  BY <1>1, ReactorStep, PTL DEF Spec

(* An event that comes while its waiter is being registered, between the call
   that would have blocked and epoll_ctl, is not lost; nor is one that comes
   while poll() walks its array. *)
THEOREM EdgesAreKept == Spec => []NoLostEdge
  BY ReactorInvariant, PTL DEF ReactorInv

(* Only the loop of poll() erases an entry of the table. *)
LEMMA ErasedByDeliver ==
  ASSUME TypeOK, [Next]_vars, NEW fd \in Fds, table[fd] # Nil, table'[fd] = Nil
  PROVE  fd \in events
<1>1. CASE LoopStep
  <2>1. CASE Deliver
    BY <2>1 DEF Deliver, TakeWaiter, TypeOK, IOTypeOK
  <2> QED
    BY <1>1, <2>1 DEF LoopStep, LoopTest, Resume, ResumeDone, Expire, ExpireDone, EnterPoll,
                      PollEvents, PollTimeout, DeliverDone, AwakeThread
<1>2. ASSUME NEW c \in Coros, CoroStep(c) PROVE FALSE
  <2>1. ASSUME NEW gd \in Fds, NEW ev \in Event, AwaitEvent(c, gd, ev) PROVE FALSE
    BY <2>1 DEF AwaitEvent, add_waiter, TypeOK, IOTypeOK
  <2> QED
    BY <1>2, <2>1 DEF CoroStep, Yield, AwaitTask, Spawn, AwaitSleep, Finish, OpSucceeds, Drain,
                      OpWouldBlock, AwaitEventThrows, add_waiter_throws, Close, CloseFd, Accept,
                      ReuseFd
<1> QED
  BY <1>1, <1>2 DEF Next, Environment, MainSpawn, run, Tick, PollInterrupted, PeerActs, Arrive

(* A coroutine is readied for a socket only when its operation would not
   block: the kernel watches for what the entry asks for. *)
THEOREM WakeupsAreTrue == Spec => NoSpuriousWakeup
<1>1. ReactorInv /\ [Next]_vars =>
        \A fd \in Fds : table[fd] # Nil /\ table'[fd] = Nil => mask[fd] \in level[fd]
  <2> SUFFICES ASSUME ReactorInv, [Next]_vars, NEW fd \in Fds, table[fd] # Nil, table'[fd] = Nil
               PROVE  mask[fd] \in level[fd]
    OBVIOUS
  <2>1. fd \in events
    BY ErasedByDeliver DEF ReactorInv
  <2>2. interest[fd] \in level[fd] /\ interest[fd] # "none"
    BY <2>1 DEF ReactorInv, EventsInv, TypeOK, IOTypeOK, Event
  <2> QED
    BY <2>2 DEF ReactorInv, TableInv
<1>2. ReactorInv /\ [Next]_vars =>
        [\A fd \in Fds : table[fd] # Nil /\ table'[fd] = Nil => mask[fd] \in level[fd]]_vars
  BY <1>1
<1> QED
  BY <1>2, ReactorInvariant, PTL DEF Spec, NoSpuriousWakeup

-----------------------------------------------------------------------------
(* Timers. *)

(* The time __run has read is not in the future. *)
NowInv == TypeOK /\ now <= clock

LEMMA NowStep == NowInv /\ [Next]_vars => NowInv'
<1> SUFFICES ASSUME NowInv, [Next]_vars PROVE NowInv'
  OBVIOUS
<1>1. TypeOK' /\ clock \in Nat /\ now \in Nat
  BY TypeStep DEF NowInv, TypeOK, SchedTypeOK
<1>2. now' <= clock'
  <2>1. CASE Tick
    BY <1>1, <2>1 DEF Tick, NowInv
  <2>2. CASE LoopStep
    BY <1>1, <2>2
    DEF NowInv, LoopStep, LoopTest, Resume, ResumeDone, Expire, ExpireDone, EnterPoll,
        PollEvents, PollTimeout, Deliver, DeliverDone, AwakeThread
  <2>3. ASSUME NEW c \in Coros, CoroStep(c) PROVE now' = now /\ clock' = clock
    BY <2>3
    DEF CoroStep, Yield, AwaitTask, Spawn, AwaitSleep, AwaitEvent, Finish, OpSucceeds,
        OpWouldBlock, AwaitEventThrows, Close, Accept
  <2> QED
    BY <1>1, <2>1, <2>2, <2>3
    DEF NowInv, Next, Environment, MainSpawn, run, PollInterrupted, PeerActs
<1> QED
  BY <1>1, <1>2 DEF NowInv

(* Sleepers are readied in the order of their deadlines, none too early. *)
THEOREM TimersFireInOrder == Spec => TimersInOrder
<1>1. Init => NowInv
  BY DEF Init, SchedInit, IOInit, TaskInit, NowInv, TypeOK, SchedTypeOK, IOTypeOK, TaskTypeOK,
         Phase, FrameState, Forever
<1>2. NowInv /\ [Next]_vars =>
        [\A s \in sleepys : s \notin sleepys' =>
             s.at <= clock /\ \A t \in sleepys' : s.at <= t.at]_vars
  <2> SUFFICES ASSUME NowInv, [Next]_vars, NEW s \in sleepys, s \notin sleepys'
               PROVE  s.at <= clock /\ \A t \in sleepys' : s.at <= t.at
    OBVIOUS
  <2>1. CASE Expire
    <3>1. s.at <= now /\ \A t \in sleepys' : s.at <= t.at
      BY <2>1 DEF Expire, IsTop
    <3>2. s.at \in Nat /\ now \in Nat /\ clock \in Nat /\ now <= clock
      BY DEF NowInv, TypeOK, SchedTypeOK, SleepItem
    <3> QED
      BY <3>1, <3>2
  <2>2. CASE LoopStep /\ ~Expire
    BY <2>2 DEF LoopStep, LoopTest, Resume, ResumeDone, ExpireDone, EnterPoll, PollEvents,
                PollTimeout, Deliver, DeliverDone, AwakeThread
  <2>3. ASSUME NEW c \in Coros, CoroStep(c) PROVE FALSE
    BY <2>3
    DEF CoroStep, Yield, AwaitTask, Spawn, AwaitSleep, sleep_until, AwaitEvent, Finish,
        OpSucceeds, OpWouldBlock, AwaitEventThrows, Close, Accept
  <2> QED
    BY <2>1, <2>2, <2>3
    DEF Next, Environment, MainSpawn, run, Tick, PollInterrupted, PeerActs
<1> QED
  BY <1>1, <1>2, NowStep, PTL DEF Spec, TimersInOrder

-----------------------------------------------------------------------------
(* The timeout of epoll_wait. *)

(* Division takes the nearest multiple from below. *)
LEMMA Division ==
  ASSUME NEW x \in Int
  PROVE  /\ x \div Gran \in Int
         /\ (x \div Gran) * Gran <= x /\ x < (x \div Gran) * Gran + Gran
BY SMT

(* Multiplication by Gran keeps the order. *)
LEMMA Scaled == \A a, b \in Int : a <= b => a * Gran <= b * Gran
BY SMT

(* An int stays what it is. *)
LEMMA ToIntKeeps ==
  ASSUME NEW x \in Nat, x <= IntMax
  PROVE  ToInt(x) = x
<1>1. x + IntMax + 1 \in 0 .. 2 * (IntMax + 1) - 1 /\ 2 * (IntMax + 1) \in Nat \ {0}
  BY SMT
<1>2. \A m \in Nat \ {0} : \A y \in 0 .. m - 1 : y % m = y
  BY SMT
<1>3. (x + IntMax + 1) % (2 * (IntMax + 1)) = x + IntMax + 1
  BY <1>1, <1>2
<1> QED BY <1>3, SMT DEF ToInt

(* For a sleeper that is not too far off, epoll_wait ends at a tick that is
   not after its deadline unless that has passed, and less than a millisecond
   before it. *)
LEMMA TimeoutFits ==
  ASSUME clock \in Nat, NEW at \in Nat, at <= clock + IntMax * Gran
  PROVE  LET end == PollUntil(SleepTimeout(at)) IN
         /\ end \in Nat /\ (end <= at \/ end <= clock) /\ at < end + Gran
<1> DEFINE q == (at - clock) \div Gran
           ms == AtLeast0(q)
<1>1. q \in Int /\ q * Gran <= at - clock /\ at - clock < q * Gran + Gran
  BY Division
<1>2. q <= IntMax
  <2>1. IntMax * Gran \in Nat
    BY ProductNat
  <2>2. CASE q > IntMax
    <3>1. (IntMax + 1) * Gran <= q * Gran /\ q * Gran \in Int
      BY <1>1, <2>2, Scaled
    <3>2. (IntMax + 1) * Gran = IntMax * Gran + Gran
      BY SMT
    <3>3. at - clock <= IntMax * Gran
      BY <2>1
    <3> QED BY <1>1, <2>1, <3>1, <3>2, <3>3
  <2> QED BY <1>1, <2>2
<1> HIDE DEF q
<1>3. ms \in Nat /\ ms <= IntMax /\ ms = IF q > 0 THEN q ELSE 0
  BY <1>1, <1>2 DEF AtLeast0
<1> HIDE DEF ms
<1>4. SleepTimeout(at) = ms
  BY <1>3, ToIntKeeps DEF SleepTimeout, q, ms
<1>5. ms * Gran \in Nat
  BY <1>3, ProductNat
<1>6. PollUntil(SleepTimeout(at)) = clock + ms * Gran
  BY <1>3, <1>4 DEF PollUntil
<1>7. CASE q > 0
  <2>1. ms * Gran = q * Gran
    BY <1>3, <1>7
  <2> QED BY <1>1, <1>5, <1>6, <2>1
<1>8. CASE ~(q > 0)
  <2>1. ms * Gran = 0
    BY <1>3, <1>8
  <2>2. q * Gran <= 0
    <3>1. q * Gran <= 0 * Gran
      BY <1>1, <1>8, Scaled
    <3> QED BY <3>1
  <2>3. q * Gran \in Int
    BY <1>1
  <2> QED BY <1>1, <1>6, <2>1, <2>2, <2>3
<1> QED BY <1>7, <1>8

(* No sleeper is further off than the longest sleep. *)
TimerInv ==
  /\ \A s \in sleepys : s.at <= clock + IntMax * Gran
  /\ PollRespectsTimers

(* All but the clock, the call of epoll_wait and a co_await sleep(). *)
LEMMA ThreadStep ==
  ASSUME [Next]_vars, ~Tick, ~EnterPoll, ~ \E c \in Coros, d \in Durations : AwaitSleep(c, d)
  PROVE  /\ clock' = clock /\ sleepys' \subseteq sleepys
         /\ phase' = "poll" => phase = "poll" /\ UNCHANGED <<ready, sleepys, until>>
<1>1. CASE LoopStep
  BY <1>1 DEF LoopStep, LoopTest, Resume, ResumeDone, Expire, ExpireDone, PollEvents,
              PollTimeout, Deliver, DeliverDone, EndOfIteration, AwakeThread
<1>2. ASSUME NEW c \in Coros, CoroStep(c) PROVE UNCHANGED <<clock, sleepys>> /\ phase' # "poll"
  BY <1>2
  DEF CoroStep, Yield, AwaitTask, Spawn, AwaitEvent, Finish, OpSucceeds, OpWouldBlock,
      AwaitEventThrows, Close, Accept
<1> QED
  BY <1>1, <1>2 DEF Next, Environment, MainSpawn, run, PollInterrupted, PeerActs

LEMMA TimerStep ==
  ASSUME ShortSleeps, TypeOK, TimerInv, [Next]_vars
  PROVE  TimerInv'
<1>0. clock \in Nat /\ IntMax * Gran \in Nat /\ until \in Nat \cup {Forever}
      /\ \A s \in sleepys : s.at \in Nat
  BY ProductNat DEF TypeOK, SchedTypeOK, SleepItem
<1>1. CASE Tick
  <2>1. clock' = clock + 1 /\ UNCHANGED <<phase, ready, sleepys, until>>
    BY <1>1 DEF Tick
  <2>2. \A s \in sleepys' : s.at <= clock' + IntMax * Gran
    BY <1>0, <2>1 DEF TimerInv
  <2>3. until # Forever /\ until <= clock => until <= clock'
    BY <1>0, <2>1
  <2>4. PollRespectsTimers'
    BY <1>0, <2>1, <2>3 DEF TimerInv, PollRespectsTimers
  <2> QED BY <2>2, <2>4 DEF TimerInv
<1>2. CASE EnterPoll
  <2>1. UNCHANGED <<ready, sleepys, clock>> /\ caculate_time_out
    BY <1>2 DEF EnterPoll
  <2>2. CASE ready # <<>> /\ until' = PollUntil(0)
    <3>1. until' = clock
      BY <1>0, <2>2, SMT DEF PollUntil
    <3> QED BY <1>0, <2>1, <3>1 DEF TimerInv, PollRespectsTimers, Forever
  <2>3. CASE ready = <<>> /\ sleepys = {}
    BY <2>1, <2>3 DEF TimerInv, PollRespectsTimers
  <2>4. ASSUME ready = <<>>, NEW s \in sleepys, IsTop(s), until' = PollUntil(SleepTimeout(s.at))
        PROVE  TimerInv'
    <3>1. until' \in Nat /\ (until' <= s.at \/ until' <= clock)
      BY <1>0, <2>4, TimeoutFits DEF TimerInv
    <3>2. \A t \in sleepys : until' <= t.at \/ until' <= clock
      BY <1>0, <2>4, <3>1 DEF IsTop
    <3> QED BY <2>1, <2>4, <3>1, <3>2 DEF TimerInv, PollRespectsTimers, Forever
  <2> QED BY <2>1, <2>2, <2>3, <2>4 DEF caculate_time_out
<1>3. ASSUME NEW c \in Coros, NEW d \in Durations, AwaitSleep(c, d) PROVE TimerInv'
  <2>1. sleepys' = sleepys \cup {[at |-> clock + d * Gran, coro |-> c]} /\ clock' = clock
        /\ phase' = "resume"
    BY <1>3 DEF AwaitSleep, sleep_until
  <2>2. d * Gran <= IntMax * Gran /\ d * Gran \in Nat
    BY ProductNat, Scaled DEF ShortSleeps
  <2>3. clock + d * Gran <= clock + IntMax * Gran
    BY <1>0, <2>2
  <2> QED BY <2>1, <2>3 DEF TimerInv, PollRespectsTimers
<1>4. CASE ~Tick /\ ~EnterPoll /\ ~ \E c \in Coros, d \in Durations : AwaitSleep(c, d)
  BY <1>4, ThreadStep DEF TimerInv, PollRespectsTimers
<1> QED BY <1>1, <1>2, <1>3, <1>4

LEMMA TimerInvariant == ASSUME ShortSleeps PROVE Spec => []TimerInv
<1>1. Init => TimerInv
  BY DEF Init, SchedInit, TimerInv, PollRespectsTimers
<1>2. TypeOK /\ TimerInv /\ [Next]_vars => TimerInv'
  BY TimerStep
<1> QED BY <1>1, <1>2, TypeCorrect, PTL DEF Spec

(* With sleeps that an int can say in milliseconds, epoll_wait never blocks
   past the first deadline, nor at all while a coroutine is ready
   (caculate_time_out), whatever else the program and its peers do. *)
THEOREM PollEndsInTime == ASSUME ShortSleeps PROVE Spec => []PollRespectsTimers
<1>1. TimerInv => PollRespectsTimers
  BY DEF TimerInv
<1> QED BY <1>1, TimerInvariant, PTL

-----------------------------------------------------------------------------
(* The sleep at the end of an iteration. *)

(* When epoll_wait has run into its timeout, or the thread sleeps, some
   deadline is less than a millisecond away; and if it has reported an event
   a coroutine is ready. *)
DeafInv ==
  /\ phase = "poll" /\ ready = <<>> /\ sleepys # {} =>
       until # Forever /\ \E s \in sleepys : s.at < until + Gran
  /\ phase = "deliver" /\ events = {} /\ ready = <<>> /\ sleepys # {} =>
       \E s \in sleepys : s.at < clock + Gran
  /\ phase = "asleep" => until # Forever /\ until < clock + Gran

LEMMA DeafStep ==
  ASSUME ~Signals, ReactorInv, TimerInv, DeafInv, [Next]_vars
  PROVE  DeafInv'
<1>0. clock \in Nat /\ Gran \in Nat /\ until \in Nat \cup {Forever}
      /\ \A s \in sleepys : s.at \in Nat
  BY DEF ReactorInv, TypeOK, SchedTypeOK, SleepItem
<1>1. CASE Tick
  <2>1. clock' = clock + 1 /\ UNCHANGED <<phase, ready, sleepys, until, events>>
    BY <1>1 DEF Tick
  <2>2. \A n \in Nat : n < clock + Gran => n < clock' + Gran
    BY <1>0, <2>1
  <2> QED BY <1>0, <2>1, <2>2 DEF DeafInv
<1>2. CASE EnterPoll
  <2>1. UNCHANGED <<ready, sleepys>> /\ phase' = "poll" /\ caculate_time_out
    BY <1>2 DEF EnterPoll
  <2>2. CASE ready # <<>> \/ sleepys = {}
    BY <2>1, <2>2 DEF DeafInv
  <2>3. ASSUME NEW s \in sleepys, until' = PollUntil(SleepTimeout(s.at)) PROVE DeafInv'
    <3>1. until' \in Nat /\ s.at < until' + Gran
      BY <1>0, <2>3, TimeoutFits DEF TimerInv
    <3> QED BY <2>1, <3>1 DEF DeafInv, Forever
  <2> QED BY <2>1, <2>2, <2>3 DEF caculate_time_out
<1>3. CASE PollTimeout
  <2>1. /\ phase = "poll" /\ until # Forever /\ clock >= until /\ phase' = "deliver"
        /\ UNCHANGED <<ready, sleepys, clock>>
    BY <1>3 DEF PollTimeout
  <2>2. \A n \in Nat : n < until + Gran => n < clock + Gran
    BY <1>0, <2>1
  <2> QED BY <1>0, <2>1, <2>2 DEF DeafInv
<1>4. CASE PollEvents
  BY <1>4 DEF PollEvents, EpollWait, DeafInv
<1>5. CASE Deliver
  <2>1. PICK fd \in events :
          IF table[fd] # Nil THEN internal_spawn(table[fd]) ELSE UNCHANGED ready
    BY <1>5 DEF Deliver
  <2>2. fd \in Fds /\ interest[fd] \in level[fd]
    BY DEF ReactorInv, TypeOK, EventsInv
  <2>3. interest[fd] # "none"
    BY <2>2 DEF ReactorInv, TypeOK, IOTypeOK, Event
  <2>4. table[fd] # Nil /\ table[fd] \in Coros
    BY <2>2, <2>3 DEF ReactorInv, TableInv, TypeOK, IOTypeOK
  <2>5. ready' = Append(ready, table[fd]) /\ ready \in Seq(Coros)
    BY <2>1, <2>4 DEF internal_spawn, ReactorInv, TypeOK, SchedTypeOK
  <2>6. ready' # <<>>
    BY <2>4, <2>5, SMT
  <2>7. phase' = "deliver"
    BY <1>5 DEF Deliver
  <2> QED BY <2>6, <2>7 DEF DeafInv
<1>6. CASE DeliverDone
  <2>1. phase = "deliver" /\ events = {} /\ EndOfIteration /\ clock' = clock
    BY <1>6 DEF DeliverDone
  <2>2. CASE phase' = "loop"
    BY <2>2 DEF DeafInv
  <2>3. ASSUME ready = <<>>, NEW s \in sleepys, IsTop(s), until' = s.at, phase' = "asleep"
        PROVE  DeafInv'
    <3>1. PICK t \in sleepys : t.at < clock + Gran
      BY <2>1, <2>3 DEF DeafInv
    <3>2. s.at <= t.at /\ s.at \in Nat /\ t.at \in Nat
      BY <1>0, <2>3 DEF IsTop
    <3> QED BY <1>0, <2>1, <2>3, <3>1, <3>2 DEF DeafInv, Forever
  <2> QED BY <2>1, <2>2, <2>3 DEF EndOfIteration
<1>7. CASE LoopTest \/ Resume \/ ResumeDone \/ Expire \/ ExpireDone \/ AwakeThread \/ run
  BY <1>7 DEF LoopTest, Resume, ResumeDone, Expire, ExpireDone, AwakeThread, run, DeafInv
<1>8. ASSUME NEW c \in Coros, CoroStep(c) PROVE DeafInv'
  <2>1. phase' \notin {"poll", "deliver", "asleep"}
    BY <1>8
    DEF CoroStep, Yield, AwaitTask, AwaitSleep, Spawn, AwaitEvent, Finish, OpSucceeds,
        OpWouldBlock, AwaitEventThrows, Close, Accept
  <2> QED BY <2>1 DEF DeafInv
<1>9. ASSUME NEW d \in Coros, MainSpawn(d) PROVE DeafInv'
  BY <1>9 DEF MainSpawn, DeafInv
<1>10. ASSUME NEW fd \in Fds, NEW ev \in Event, PeerActs(fd, ev) PROVE DeafInv'
  BY <1>10 DEF PeerActs, DeafInv
<1>11. CASE UNCHANGED vars
  BY <1>11 DEF DeafInv
<1> QED
  BY <1>1, <1>2, <1>3, <1>4, <1>5, <1>6, <1>7, <1>8, <1>9, <1>10, <1>11
  DEF Next, LoopStep, Environment, PollInterrupted

(* What is left to the sleep of the thread (sleep_until at the end of __run),
   which no socket can end, is what the timeout of epoll_wait was cut by: less
   than a millisecond, if no signal has ended epoll_wait. *)
THEOREM DeafForLessThanAMs == ASSUME ShortSleeps, ~Signals PROVE Spec => []DeafUnderOneMs
<1>1. Init => DeafInv
  BY DEF Init, SchedInit, DeafInv
<1>2. ReactorInv /\ TimerInv /\ DeafInv /\ [Next]_vars => DeafInv'
  BY DeafStep
<1>3. TypeOK /\ DeafInv => DeafUnderOneMs
  <2>1. Gran \in Nat /\ \A u, c \in Nat : u < c + Gran => u - c < Gran
    OBVIOUS
  <2> QED BY <2>1 DEF TypeOK, SchedTypeOK, DeafInv, DeafUnderOneMs
<1> QED BY <1>1, <1>2, <1>3, ReactorInvariant, TimerInvariant, TypeCorrect, PTL DEF Spec
=============================================================================
