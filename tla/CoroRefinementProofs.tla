----------------------- MODULE CoroRefinementProofs -----------------------
(***************************************************************************)
(* What holds when every socket is used by one call chain: no coroutine is *)
(* lost, run() returns only when every coroutine has finished, and the     *)
(* runtime implements CoroContract.                                        *)
(*                                                                         *)
(* A call chain has one coroutine that is not awaiting another, so that    *)
(* the entry a coroutine finds in the table for its own socket can only be *)
(* its own, and it is not in the table while it runs.                      *)
(***************************************************************************)
EXTENDS CoroRuntimeProofs, CoroRuntimeRefinement

USE NilAssumption, SchedulerAssumption, MaxEventsAssumption,
    ExclusiveAssumption, WantAssumption, SignalsAssumption
USE DEF GoTo, Running, Free, MayUse, vars, schedVars, ioVars, taskVars, progVars, kernelVars

(* The coroutine at the end of a call chain. *)
Leaf(c) == Live(c) /\ ~AwaitsChild(c)

(* A call chain starts at a coroutine that nobody awaits and whose frame is
   still there; a callee is in the chain of its caller; one leaf each. *)
ChainShape ==
  /\ \A c \in Coros : frame[c] = "none" => root[c] = c
  /\ \A c \in Coros : Live(c) => parent[root[c]] = Nil /\ frame[root[c]] # "none"
  /\ \A c, d \in Coros : Live(d) /\ parent[d] = c => root[d] = root[c]
  /\ \A c, d \in Coros : Leaf(c) /\ Leaf(d) /\ root[c] = root[d] => c = d

(* A socket has one chain that holds it, while it is open.  Who waits for it,
   or is about to, is in that chain, and the kernel watches every socket
   somebody waits for. *)
ChainUses ==
  /\ \A fd \in Fds : \A r, q \in holders[fd] : r = q
  /\ \A fd \in Fds : fd \notin open => holders[fd] = {}
  /\ \A fd \in Fds : table[fd] # Nil =>
       root[table[fd]] \in holders[fd] /\ interest[fd] # "none"
  /\ \A c \in Coros : frame[c] = "running" /\ want # Nil => root[c] \in holders[want[1]]

(* Every suspended coroutine is in some queue or awaits a callee. *)
AllQueued ==
  \A c \in Coros :
    frame[c] = "suspended" => InReady(c) \/ Asleep(c) \/ InTable(c) \/ AwaitsChild(c)

ChainInv ==
  /\ WakeInv
  /\ ChainShape
  /\ ChainUses
  /\ AllQueued

-----------------------------------------------------------------------------
(* Every action of the runtime keeps ChainShape. *)

(* A step that neither starts, finishes nor reclaims a coroutine. *)
LEMMA SameShape ==
  ASSUME ChainShape, TypeOK, UNCHANGED <<parent, root>>,
         \A c \in Coros : Live(c)' <=> Live(c),
         \A c \in Coros : frame'[c] = "none" <=> frame[c] = "none"
  PROVE  ChainShape'
<1>1. \A c \in Coros : root[c] \in Coros
  BY DEF TypeOK, TaskTypeOK
<1> QED
  BY <1>1 DEF ChainShape, Leaf, AwaitsChild

LEMMA StartDetachedShape ==
  ASSUME ChainInv, NEW d \in Coros, StartDetached(d)
  PROVE  ChainShape'
<1>1. frame[d] = "none" /\ parent[d] = Nil /\ root[d] = d /\ ~AwaitsChild(d) /\ ~Live(d)
  BY DEF ChainInv, ChainShape, WakeInv, StartDetached, NoStaleWakeup, FreshFrames, Live
<1>2. /\ \A c \in Coros : frame'[c] = IF c = d THEN "suspended" ELSE frame[c]
      /\ UNCHANGED <<parent, root>>
  BY DEF StartDetached, ChainInv, WakeInv, TypeOK, TaskTypeOK
<1>3. \A c \in Coros : /\ Live(c)' <=> Live(c) \/ c = d
                       /\ AwaitsChild(c)' <=> AwaitsChild(c)
  BY <1>1, <1>2 DEF Live, AwaitsChild
<1>4. \A c \in Coros : root[c] \in Coros
  BY DEF ChainInv, WakeInv, TypeOK, TaskTypeOK
<1>5. \A c \in Coros : Live(c) => root[c] # d
  BY <1>1 DEF ChainInv, ChainShape
<1> QED
  BY <1>1, <1>2, <1>3, <1>4, <1>5 DEF ChainInv, ChainShape, Leaf

LEMMA StartAwaitedShape ==
  ASSUME ChainInv, NEW c \in Coros, NEW d \in Coros, StartAwaited(c, d), frame[c] = "running"
  PROVE  ChainShape'
<1>1. /\ frame[d] = "none" /\ ~AwaitsChild(d) /\ ~Live(d) /\ c # d
      /\ Live(c) /\ ~AwaitsChild(c) /\ parent[d] = Nil
  BY DEF ChainInv, WakeInv, StartAwaited, NoStaleWakeup, FreshFrames, Live
<1>2. \A b \in Coros : /\ frame'[b] = IF b \in {c, d} THEN "suspended" ELSE frame[b]
                       /\ parent'[b] = IF b = d THEN c ELSE parent[b]
                       /\ root'[b] = IF b = d THEN root[c] ELSE root[b]
                       /\ root[b] \in Coros
  BY DEF StartAwaited, ChainInv, WakeInv, TypeOK, TaskTypeOK
<1>3. \A b \in Coros : /\ Live(b)' <=> Live(b) \/ b = d
                       /\ AwaitsChild(b)' <=> AwaitsChild(b) \/ b = c
  BY <1>1, <1>2 DEF Live, AwaitsChild
<1>4. \A b \in Coros : Live(b) => root[b] # d
  BY <1>1 DEF ChainInv, ChainShape
<1>5. \A b \in Coros : Live(b)' => parent'[root'[b]] = Nil /\ frame'[root'[b]] # "none"
  BY <1>1, <1>2, <1>3, <1>4 DEF ChainInv, ChainShape
<1>6. \A b, e \in Coros : Live(e)' /\ parent'[e] = b => root'[e] = root'[b]
  <2> SUFFICES ASSUME NEW b \in Coros, NEW e \in Coros, Live(e)', parent'[e] = b
               PROVE  root'[e] = root'[b]
    OBVIOUS
  <2>1. CASE e = d
    BY <1>1, <1>2, <2>1
  <2>2. CASE e # d
    <3>1. Live(e) /\ parent[e] = b /\ b # d
      BY <1>1, <1>2, <1>3, <2>2 DEF AwaitsChild
    <3> QED
      BY <1>2, <2>2, <3>1 DEF ChainInv, ChainShape
  <2> QED
    BY <2>1, <2>2
<1>7. \A b, e \in Coros : Leaf(b)' /\ Leaf(e)' /\ root'[b] = root'[e] => b = e
  BY <1>1, <1>2, <1>3 DEF ChainInv, ChainShape, Leaf
<1>8. \A b \in Coros : frame'[b] = "none" => root'[b] = b
  BY <1>1, <1>2 DEF ChainInv, ChainShape
<1> QED
  BY <1>5, <1>6, <1>7, <1>8 DEF ChainShape

LEMMA FinishShape ==
  ASSUME ChainInv, NEW c \in Coros, FinalSuspend(c), frame[c] = "running"
  PROVE  ChainShape'
<1>1. Live(c) /\ ~AwaitsChild(c) /\ Leaf(c)
  BY DEF ChainInv, WakeInv, NoStaleWakeup, Live, Leaf
<1>2. /\ \A b \in Coros : frame'[b] = IF b = c THEN "final" ELSE frame[b]
      /\ UNCHANGED <<parent, root>>
  BY DEF FinalSuspend, ChainInv, WakeInv, TypeOK, TaskTypeOK
<1>3. \A b \in Coros : /\ Live(b)' <=> Live(b) /\ b # c
                       /\ AwaitsChild(b)' <=> AwaitsChild(b) /\ b # parent[c]
  BY <1>1, <1>2 DEF Live, AwaitsChild, ChainInv, WakeInv, NoDoubleWakeup
<1>4. \A b \in Coros : root[b] \in Coros
  BY DEF ChainInv, WakeInv, TypeOK, TaskTypeOK
<1>5. \A b \in Coros : Leaf(b)' => /\ b # c
                                   /\ Leaf(b) \/ b = parent[c]
                                   /\ b = parent[c] => root[b] = root[c]
  BY <1>1, <1>3 DEF Leaf, ChainInv, ChainShape
<1>6. \A b, e \in Coros : Leaf(b)' /\ Leaf(e)' /\ root[b] = root[e] => b = e
  BY <1>1, <1>5 DEF ChainInv, ChainShape
<1>7. \A b \in Coros : Live(b)' => parent'[root'[b]] = Nil /\ frame'[root'[b]] # "none"
  BY <1>2, <1>3, <1>4 DEF ChainInv, ChainShape
<1> QED
  BY <1>2, <1>3, <1>6, <1>7 DEF ChainInv, ChainShape

LEMMA ResumeShape ==
  ASSUME ChainInv, NEW c \in Coros, ResumeFrame(c), frame[c] = "suspended"
  PROVE  ChainShape'
<1>1. \A b \in Coros :
        /\ frame'[b] = IF b = c THEN "running"
                       ELSE IF parent[b] = c /\ frame[b] = "final" THEN "none" ELSE frame[b]
        /\ parent'[b] = IF parent[b] = c /\ frame[b] = "final" THEN Nil ELSE parent[b]
        /\ root'[b] = IF parent[b] = c /\ frame[b] = "final" THEN b ELSE root[b]
        /\ root[b] \in Coros
  BY DEF ResumeFrame, Reclaimed, ChainInv, WakeInv, TypeOK, TaskTypeOK
<1>2. \A b \in Coros : /\ Live(b)' <=> Live(b)
                       /\ Live(b) => parent'[b] = parent[b] /\ root'[b] = root[b]
  BY <1>1 DEF Live
<1>3. \A b \in Coros : AwaitsChild(b)' <=> AwaitsChild(b)
  BY <1>2 DEF AwaitsChild
<1>4. \A b \in Coros : Live(b) => /\ root'[b] = root[b]
                                  /\ parent'[root[b]] = Nil /\ frame'[root[b]] # "none"
  BY <1>1, <1>2 DEF ChainInv, ChainShape
<1>5. \A b, d \in Coros : Live(d) /\ parent[d] = b => Live(b)
  BY DEF ChainInv, WakeInv, NoStaleWakeup, AwaitsChild, Live
<1>6. \A b \in Coros : frame'[b] = "none" => root'[b] = b
  BY <1>1 DEF ChainInv, ChainShape
<1>7. \A b, d \in Coros : Live(d)' /\ parent'[d] = b => root'[d] = root'[b]
  BY <1>2, <1>5 DEF ChainInv, ChainShape
<1>8. \A b, d \in Coros : Leaf(b)' /\ Leaf(d)' /\ root'[b] = root'[d] => b = d
  BY <1>2, <1>3 DEF ChainInv, ChainShape, Leaf
<1> QED
  BY <1>2, <1>4, <1>6, <1>7, <1>8 DEF ChainShape

-----------------------------------------------------------------------------
(* The queues. *)

(* What the root of a live coroutine, and so who uses its sockets, is does
   not change while it lives. *)
LEMMA SameUses ==
  ASSUME ChainInv, UNCHANGED <<table, interest, open, holders>>,
         \A c \in Coros : Live(c) => root'[c] = root[c],
         \A c \in Coros : frame'[c] = "running" /\ want' # Nil =>
                          frame[c] = "running" /\ want' = want
  PROVE  ChainUses'
<1>1. \A fd \in Fds : table[fd] # Nil => table[fd] \in Coros /\ Live(table[fd])
  BY DEF ChainInv, WakeInv, TypeOK, IOTypeOK, NoStaleWakeup, InTable, Live
<1>2. \A c \in Coros : frame[c] = "running" => Live(c)
  BY DEF Live
<1> QED
  BY <1>1, <1>2 DEF ChainInv, ChainUses

(* With sockets of one chain each, a running coroutine finds no entry in the
   table for a socket it may use: the entry would be another leaf's. *)
LEMMA OwnEntryOnly ==
  ASSUME ChainInv, Exclusive, NEW c \in Coros, frame[c] = "running",
         NEW fd \in Fds, root[c] \in holders[fd]
  PROVE  table[fd] = Nil
<1> SUFFICES ASSUME table[fd] # Nil PROVE FALSE
  OBVIOUS
<1> DEFINE b == table[fd]
<1>1. /\ b \in Coros /\ InTable(b) /\ frame[b] = "suspended"
      /\ root[b] \in Coros /\ root[c] \in Coros
  BY DEF ChainInv, WakeInv, TypeOK, IOTypeOK, TaskTypeOK, NoStaleWakeup, InTable
<1>2. Leaf(b) /\ Leaf(c)
  BY <1>1 DEF ChainInv, WakeInv, NoStaleWakeup, NoDoubleWakeup, Leaf, Live
<1>3. root[b] = root[c]
  BY <1>1 DEF ChainInv, ChainUses
<1>4. b = c
  BY <1>1, <1>2, <1>3 DEF ChainInv, ChainShape
<1> QED
  BY <1>1, <1>4

(* A step that moves no handle. *)
LEMMA ChainIdle ==
  ASSUME ChainInv, WakeInv', UNCHANGED <<ready, sleepys, table, interest, open, holders, taskVars>>,
         want' # Nil => want' = want
  PROVE  ChainInv'
<1>1. ChainShape'
  BY SameShape DEF ChainInv, WakeInv, Live
<1>2. ChainUses'
  BY SameUses DEF ChainInv
<1>3. AllQueued'
  BY DEF ChainInv, AllQueued, InReady, Asleep, InTable, AwaitsChild, Live
<1> QED
  BY <1>1, <1>2, <1>3 DEF ChainInv

(* The loop of __run. *)
LEMMA LoopStepChain ==
  ASSUME ChainInv, WakeInv', want = Nil \/ phase = "coro", LoopStep
  PROVE  ChainInv'
<1>1. CASE LoopTest \/ ResumeDone \/ ExpireDone \/ EnterPoll \/ PollEvents \/ PollTimeout
           \/ DeliverDone \/ AwakeThread
  BY <1>1, ChainIdle
  DEF LoopTest, ResumeDone, ExpireDone, EnterPoll, PollEvents, EpollWait, PollTimeout,
      DeliverDone, AwakeThread
<1>2. CASE Resume
  <2> DEFINE c == Head(ready)
  <2>1. /\ c \in Coros /\ InReady(c)
        /\ \A b \in Coros : InReady(b)' <=> InReady(b) /\ b # c
    BY <1>2, TailMembers, QueueType
    DEF Resume, ChainInv, WakeInv, TypeOK, SchedTypeOK, NoDoubleWakeup, InReady
  <2>2. ResumeFrame(c) /\ UNCHANGED <<sleepys, table, interest, open, holders, want>> /\ want = Nil
    BY <1>2 DEF Resume
  <2> HIDE DEF c
  <2>3. frame[c] = "suspended"
    BY <2>1 DEF ChainInv, WakeInv, NoStaleWakeup
  <2>4. ChainShape'
    BY <2>1, <2>2, <2>3, ResumeShape
  <2>5. \A b \in Coros : /\ Live(b) => root'[b] = root[b] /\ parent'[b] = parent[b]
                         /\ Live(b)' <=> Live(b)
                         /\ frame'[b] = "suspended" => frame[b] = "suspended" /\ b # c
    BY <2>2, <2>3 DEF ResumeFrame, Reclaimed, Live
  <2>6. ChainUses'
    BY <2>2, <2>5, SameUses
  <2>7. AllQueued'
    BY <2>1, <2>2, <2>5 DEF ChainInv, AllQueued, Asleep, InTable, AwaitsChild
  <2> QED
    BY <2>4, <2>6, <2>7 DEF ChainInv
<1>3. CASE Expire
  <2> PICK s \in sleepys : internal_spawn(s.coro) /\ sleepys' = sleepys \ {s}
    BY <1>3 DEF Expire
  <2>1. s.coro \in Coros
    BY DEF ChainInv, WakeInv, TypeOK, SchedTypeOK, SleepItem
  <2>2. \A b \in Coros : InReady(b)' <=> InReady(b) \/ b = s.coro
    BY <2>1, Queued DEF internal_spawn, ChainInv, WakeInv
  <2>3. AllQueued'
    BY <1>3, <2>2 DEF Expire, ChainInv, AllQueued, Asleep, InTable, AwaitsChild, Live
  <2>4. ChainShape' /\ ChainUses'
    BY <1>3, SameShape, SameUses DEF Expire, ChainInv, WakeInv, Live
  <2> QED
    BY <2>3, <2>4 DEF ChainInv
<1>4. CASE Deliver
  <2> PICK fd \in events :
        /\ TakeWaiter(fd)
        /\ IF table[fd] # Nil THEN internal_spawn(table[fd]) ELSE UNCHANGED ready
    BY <1>4 DEF Deliver
  <2>1. fd \in Fds /\ table[fd] \in Coros \cup {Nil}
    BY DEF ChainInv, WakeInv, TypeOK, IOTypeOK
  <2>2. CASE table[fd] = Nil
    BY <1>4, <2>2, ChainIdle DEF Deliver, TakeWaiter
  <2>3. CASE table[fd] # Nil
    <3>1. \A b \in Coros : InReady(b)' <=> InReady(b) \/ b = table[fd]
      BY <2>1, <2>3, Queued DEF internal_spawn, ChainInv, WakeInv
    <3>2. \A gd \in Fds : /\ table'[gd] = IF gd = fd THEN Nil ELSE table[gd]
                          /\ interest'[gd] = IF gd = fd THEN "none" ELSE interest[gd]
      BY <2>3 DEF TakeWaiter, ChainInv, WakeInv, TypeOK, IOTypeOK
    <3>3. AllQueued'
      BY <1>4, <3>1, <3>2 DEF Deliver, ChainInv, AllQueued, Asleep, InTable, AwaitsChild, Live
    <3>4. ChainShape'
      BY <1>4, SameShape DEF Deliver, ChainInv, WakeInv, Live
    <3>5. ChainUses'
      <4>1. UNCHANGED <<frame, root, want, open, holders>>
        BY <1>4, <2>3 DEF Deliver, TakeWaiter
      <4> QED
        BY <3>2, <4>1 DEF ChainInv, ChainUses
    <3> QED
      BY <3>3, <3>4, <3>5 DEF ChainInv
  <2> QED
    BY <2>1, <2>2, <2>3
<1> QED
  BY <1>1, <1>2, <1>3, <1>4 DEF LoopStep

(* Scheduler::spawn, by main or by the running coroutine.  Nobody waits for a
   socket that is passed on: main's belong to no chain, and a coroutine that
   runs does not wait. *)
LEMMA SpawnChain ==
  ASSUME ChainInv, WakeInv', Exclusive, want = Nil, NEW d \in Coros, StartDetached(d),
         internal_spawn(d), UNCHANGED <<sleepys, ioVars, want>>,
         NEW S \in SUBSET open, PassSockets(S, d), \A fd \in S : table[fd] = Nil
  PROVE  ChainInv'
<1>1. \A b \in Coros : InReady(b)' <=> InReady(b) \/ b = d
  BY Queued DEF internal_spawn, ChainInv, WakeInv
<1>2. \A b \in Coros : frame'[b] = IF b = d THEN "suspended" ELSE frame[b]
  BY DEF StartDetached, ChainInv, WakeInv, TypeOK, TaskTypeOK
<1>3. AllQueued'
  BY <1>1, <1>2 DEF StartDetached, ChainInv, AllQueued, Asleep, InTable, AwaitsChild, Live
<1>4. ChainShape'
  BY StartDetachedShape
<1>5. \A fd \in Fds : holders'[fd] = IF fd \in S THEN {d} ELSE holders[fd]
  BY DEF PassSockets
<1>6. ChainUses'
  BY <1>5 DEF StartDetached, ChainInv, ChainUses
<1> QED
  BY <1>3, <1>4, <1>6 DEF ChainInv

(* Whatever the running coroutine does. *)
LEMMA CoroStepChain ==
  ASSUME ChainInv, WakeInv', Exclusive, NEW c \in Coros, CoroStep(c)
  PROVE  ChainInv'
<1>1. ASSUME NEW d \in Coros, AwaitTask(c, d) PROVE ChainInv'
  <2>1. /\ \A b \in Coros : InReady(b)' <=> InReady(b) \/ b = d
        /\ StartAwaited(c, d) /\ frame[c] = "running" /\ frame[d] = "none" /\ c # d
        /\ UNCHANGED <<sleepys, ioVars, holders, want>> /\ want = Nil
    BY <1>1, Queued DEF AwaitTask, StartAwaited, internal_spawn, ChainInv, WakeInv
  <2>2. \A b \in Coros : /\ frame'[b] = IF b \in {c, d} THEN "suspended" ELSE frame[b]
                         /\ parent'[b] = IF b = d THEN c ELSE parent[b]
                         /\ root'[b] = IF b = d THEN root[c] ELSE root[b]
    BY <2>1 DEF StartAwaited, ChainInv, WakeInv, TypeOK, TaskTypeOK
  <2>3. \A b \in Coros : AwaitsChild(b) \/ b = c => AwaitsChild(b)'
    BY <2>1, <2>2 DEF AwaitsChild, Live
  <2>4. AllQueued'
    BY <2>1, <2>2, <2>3 DEF ChainInv, AllQueued, Asleep, InTable
  <2>5. ChainShape'
    BY <2>1, StartAwaitedShape
  <2>6. ChainUses'
    BY <2>1, <2>2, SameUses DEF Live
  <2> QED
    BY <2>4, <2>5, <2>6 DEF ChainInv
<1>2. ASSUME NEW d \in Durations, AwaitSleep(c, d) PROVE ChainInv'
  <2>1. PICK item : item.coro = c /\ sleepys' = sleepys \cup {item}
    BY <1>2 DEF AwaitSleep, sleep_until
  <2>2. /\ \A b \in Coros : frame'[b] = IF b = c THEN "suspended" ELSE frame[b]
        /\ frame[c] = "running" /\ UNCHANGED <<parent, root, ready, ioVars, holders, want>>
        /\ want = Nil
    BY <1>2 DEF AwaitSleep, Suspend, ChainInv, WakeInv, TypeOK, TaskTypeOK
  <2>3. AllQueued'
    BY <2>1, <2>2 DEF ChainInv, AllQueued, Asleep, InReady, InTable, AwaitsChild, Live
  <2>4. ChainShape'
    BY <2>2, SameShape DEF ChainInv, WakeInv, Live
  <2>5. ChainUses'
    BY <2>2, SameUses
  <2> QED
    BY <2>3, <2>4, <2>5 DEF ChainInv
<1>3. ASSUME NEW fd \in Fds, NEW ev \in Event, AwaitEvent(c, fd, ev) PROVE ChainInv'
  <2>1. /\ table' = [table EXCEPT ![fd] = c] /\ interest' = [interest EXCEPT ![fd] = ev]
        /\ want = <<fd, ev>> /\ want' = Nil /\ UNCHANGED <<ready, sleepys, open, holders>>
        /\ frame[c] = "running"
    BY <1>3 DEF AwaitEvent, add_waiter, EpollCtlAdd, EpollCtlMod, Arm
  <2>2. \A gd \in Fds : /\ table'[gd] = IF gd = fd THEN c ELSE table[gd]
                        /\ interest'[gd] = IF gd = fd THEN ev ELSE interest[gd]
    BY <2>1 DEF ChainInv, WakeInv, TypeOK, IOTypeOK
  <2>3. ev # "none" /\ c # Nil /\ want # Nil
    BY <2>1 DEF Event
  <2>4. /\ \A b \in Coros : frame'[b] = IF b = c THEN "suspended" ELSE frame[b]
        /\ UNCHANGED <<parent, root>>
    BY <1>3 DEF AwaitEvent, Suspend, ChainInv, WakeInv, TypeOK, TaskTypeOK
  <2>5. root[c] \in holders[fd]
    BY <2>1, <2>3 DEF ChainInv, ChainUses
  <2>6. table[fd] = Nil
    BY <2>1, <2>5, OwnEntryOnly
  <2>7. \A b \in Coros : InTable(b) \/ b = c => InTable(b)'
    BY <2>2, <2>6 DEF InTable
  <2>8. AllQueued'
    BY <2>1, <2>4, <2>7 DEF ChainInv, AllQueued, Asleep, InReady, AwaitsChild, Live
  <2>9. ChainShape'
    BY <2>1, <2>4, SameShape DEF ChainInv, WakeInv, Live
  <2>10. ChainUses'
    BY <2>1, <2>2, <2>3, <2>4, <2>5 DEF ChainInv, ChainUses
  <2> QED
    BY <2>8, <2>9, <2>10 DEF ChainInv
<1>4. CASE Finish(c)
  <2>1. /\ FinalSuspend(c) /\ frame[c] = "running" /\ want = Nil
        /\ UNCHANGED <<sleepys, ioVars, holders, want>>
    BY <1>4 DEF Finish
  <2>2. /\ \A b \in Coros : frame'[b] = IF b = c THEN "final" ELSE frame[b]
        /\ UNCHANGED <<parent, root>>
    BY <2>1 DEF FinalSuspend, ChainInv, WakeInv, TypeOK, TaskTypeOK
  <2>3. \A b \in Coros : InReady(b) \/ b = parent[c] => InReady(b)'
    <3>1. parent[c] \in Coros \cup {Nil} /\ TypeOK
      BY DEF ChainInv, WakeInv, TypeOK, TaskTypeOK
    <3>2. CASE parent[c] = Nil
      BY <1>4, <3>2 DEF Finish, InReady
    <3>3. CASE parent[c] \in Coros
      BY <1>4, <3>1, <3>3, Queued DEF Finish, internal_spawn
    <3> QED
      BY <3>1, <3>2, <3>3
  <2>4. AllQueued'
    BY <2>1, <2>2, <2>3 DEF ChainInv, AllQueued, Asleep, InTable, AwaitsChild, Live
  <2>5. ChainShape'
    BY <2>1, FinishShape
  <2>6. ChainUses'
    BY <2>1, <2>2, SameUses
  <2> QED
    BY <2>4, <2>5, <2>6 DEF ChainInv
<1>5. ASSUME NEW d \in Coros, Spawn(c, d) PROVE ChainInv'
  <2>1. PICK S \in SUBSET {fd \in Fds : root[c] \in holders[fd]} : PassSockets(S, d)
    BY <1>5 DEF Spawn
  <2>2. \A fd \in S : table[fd] = Nil
    BY <1>5, <2>1, OwnEntryOnly DEF Spawn
  <2>3. S \in SUBSET open
    BY <2>1 DEF ChainInv, ChainUses
  <2> QED
    BY <1>5, <2>1, <2>2, <2>3, SpawnChain DEF Spawn
<1>6. ASSUME NEW fd \in Fds, NEW ev \in Event,
             OpSucceeds(c, fd, ev) \/ AwaitEventThrows(c, fd, ev)
      PROVE  ChainInv'
  BY <1>6, ChainIdle DEF OpSucceeds, Drain, AwaitEventThrows, add_waiter_throws
<1>7. ASSUME NEW fd \in Fds, NEW ev \in Event, OpWouldBlock(c, fd, ev) PROVE ChainInv'
  <2>1. ChainShape'
    BY <1>7, SameShape DEF OpWouldBlock, ChainInv, WakeInv, Live
  <2>2. ChainUses'
    BY <1>7 DEF OpWouldBlock, ChainInv, ChainUses, WakeInv, OneRuns
  <2>3. AllQueued'
    BY <1>7 DEF OpWouldBlock, ChainInv, AllQueued, InReady, Asleep, InTable, AwaitsChild, Live
  <2> QED
    BY <2>1, <2>2, <2>3 DEF ChainInv
<1>8. ASSUME NEW fd \in Fds, Close(c, fd) PROVE ChainInv'
  <2>1. table[fd] = Nil
    BY <1>8, OwnEntryOnly DEF Close
  <2>2. ChainShape'
    BY <1>8, SameShape DEF Close, ChainInv, WakeInv, Live
  <2>3. \A gd \in Fds : gd # fd => interest'[gd] = interest[gd]
    BY <1>8 DEF Close, CloseFd, ChainInv, WakeInv, TypeOK, IOTypeOK
  <2>4. \A gd \in Fds : /\ holders'[gd] = IF gd = fd THEN {} ELSE holders[gd]
                        /\ gd \in open' <=> gd \in open /\ gd # fd
    BY <1>8 DEF Close, CloseFd, ChainInv, WakeInv, TypeOK
  <2>5. ChainUses'
    BY <1>8, <2>1, <2>3, <2>4 DEF Close, CloseFd, ChainInv, ChainUses
  <2>6. AllQueued'
    BY <1>8 DEF Close, CloseFd, ChainInv, AllQueued, InReady, Asleep, InTable, AwaitsChild, Live
  <2> QED
    BY <2>2, <2>5, <2>6 DEF ChainInv
<1>9. ASSUME NEW lfd \in Fds, NEW fd \in Fds, Accept(c, lfd, fd) PROVE ChainInv'
  <2>1. \A gd \in Fds : /\ holders'[gd] = IF gd = fd THEN {root[c]} ELSE holders[gd]
                        /\ gd \in open' <=> gd \in open \/ gd = fd
    BY <1>9 DEF Accept, ReuseFd, ChainInv, WakeInv, TypeOK
  <2>2. fd \notin open /\ table[fd] = Nil
    BY <1>9 DEF Accept, ReuseFd, ChainInv, ChainUses
  <2>3. ChainUses'
    BY <1>9, <2>1, <2>2 DEF Accept, ReuseFd, ChainInv, ChainUses
  <2>4. ChainShape'
    BY <1>9, SameShape DEF Accept, ChainInv, WakeInv, Live
  <2>5. AllQueued'
    BY <1>9 DEF Accept, ReuseFd, ChainInv, AllQueued, InReady, Asleep, InTable, AwaitsChild, Live
  <2> QED
    BY <2>3, <2>4, <2>5 DEF ChainInv
<1> QED
  BY <1>1, <1>2, <1>3, <1>4, <1>5, <1>6, <1>7, <1>8, <1>9 DEF CoroStep, Yield

LEMMA ChainStep ==
  ASSUME Exclusive
  PROVE  ChainInv /\ ReactorInv /\ [Next]_vars => ChainInv'
<1> SUFFICES ASSUME ChainInv, ReactorInv, [Next]_vars PROVE ChainInv'
  OBVIOUS
<1>1. WakeInv' /\ (want = Nil \/ phase = "coro")
  BY WakeStep DEF ChainInv, ReactorInv, TableInv
<1>2. ASSUME NEW d \in Coros, MainSpawn(d) PROVE ChainInv'
  <2>1. PICK S \in SUBSET {fd \in open : holders[fd] = {}} : PassSockets(S, d)
    BY <1>2 DEF MainSpawn
  <2>2. S \in SUBSET open /\ want = Nil /\ \A fd \in S : table[fd] = Nil
    BY <1>1, <1>2, <2>1 DEF MainSpawn, ChainInv, ChainUses, WakeInv, TypeOK, IOTypeOK
  <2> QED
    BY <1>1, <1>2, <2>1, <2>2, SpawnChain DEF MainSpawn
<1>3. CASE run \/ Tick \/ PollInterrupted \/ UNCHANGED vars
  BY <1>1, <1>3, ChainIdle DEF run, Tick, PollInterrupted
<1>4. ASSUME NEW fd \in Fds, NEW ev \in Event, PeerActs(fd, ev) PROVE ChainInv'
  BY <1>1, <1>4, ChainIdle DEF PeerActs, Arrive
<1> QED
  BY <1>1, <1>2, <1>3, <1>4, LoopStepChain, CoroStepChain DEF Next, Environment

LEMMA ChainInvariant ==
  ASSUME Exclusive
  PROVE  Spec => []ChainInv
<1>1. Init => ChainInv
  <2>1. Init => WakeInv
    <3>1. Init => TypeOK
      BY DEF Init, SchedInit, IOInit, TaskInit, TypeOK, SchedTypeOK, IOTypeOK, TaskTypeOK,
             Phase, FrameState, Forever
    <3> QED
      BY <3>1 DEF Init, SchedInit, IOInit, TaskInit, WakeInv, NoStaleWakeup, NoDoubleWakeup,
                  OneRuns, CalleesReclaimed, FreshFrames, InReady, Asleep, InTable, AwaitsChild,
                  Live
  <2> QED
    BY <2>1 DEF Init, SchedInit, IOInit, TaskInit, ChainInv, ChainShape, ChainUses, AllQueued,
                Leaf, AwaitsChild, Live
<1>2. ChainInv /\ ReactorInv /\ [Next]_vars => ChainInv'
  BY ChainStep
<1> QED
  BY <1>1, <1>2, ReactorInvariant, PTL DEF Spec

(* With sockets that belong to one call chain each, whatever is suspended can
   be woken: neither a replaced entry of the table, nor close(), nor a failed
   epoll_ctl, nor the number of a closed descriptor given to another loses a
   coroutine. *)
THEOREM NothingIsLost ==
  ASSUME Exclusive
  PROVE  Spec => []NoLostCoroutine
<1>1. ChainInv => NoLostCoroutine
  BY DEF ChainInv, ChainUses, AllQueued, NoLostCoroutine, Watched, InTable
<1> QED
  BY <1>1, ChainInvariant, PTL

-----------------------------------------------------------------------------
(* The end of run(), and the contract. *)

(* The leaf l of the chain of c, deeper than all of the chain. *)
IsEnd(l, c) ==
  /\ Leaf(l) /\ root[l] = root[c]
  /\ \A b \in Coros : Live(b) /\ root[b] = root[c] => depth[b] <= depth[l]

(* The coroutines of a chain have different depths, and the leaf the largest.
   A leaf of depth 0 is then alone in its chain: a chain that loses its root
   loses everything, and a chain with a live coroutine has a leaf. *)
ChainDepth ==
  /\ \A c \in Coros : parent[c] = Nil => depth[c] = 0
  /\ \A c, d \in Coros : Live(d) /\ parent[d] = c => depth[d] = depth[c] + 1
  /\ \A c, d \in Coros :
       Live(c) /\ Live(d) /\ root[c] = root[d] /\ depth[c] = depth[d] => c = d
  /\ \A c \in Coros : Live(c) => \E l \in Coros : IsEnd(l, c)

DepthInv == ChainInv /\ ChainDepth

(* A step that neither starts, finishes nor reclaims a coroutine. *)
LEMMA SameDepth ==
  ASSUME ChainDepth, TypeOK, UNCHANGED <<parent, root, depth>>,
         \A c \in Coros : Live(c)' <=> Live(c)
  PROVE  ChainDepth'
<1>1. \A c \in Coros : Leaf(c)' <=> Leaf(c)
  BY DEF Leaf, AwaitsChild
<1>2. \A l, c \in Coros : IsEnd(l, c)' <=> IsEnd(l, c)
  BY <1>1 DEF IsEnd
<1> QED
  BY <1>2 DEF ChainDepth

LEMMA StartDetachedDepth ==
  ASSUME DepthInv, NEW d \in Coros, StartDetached(d)
  PROVE  ChainDepth'
<1>1. /\ frame[d] = "none" /\ parent[d] = Nil /\ root[d] = d /\ depth[d] = 0
      /\ ~AwaitsChild(d) /\ ~Live(d)
  BY DEF DepthInv, ChainDepth, ChainInv, ChainShape, WakeInv, StartDetached, NoStaleWakeup,
         FreshFrames, Live
<1>2. /\ \A c \in Coros : frame'[c] = IF c = d THEN "suspended" ELSE frame[c]
      /\ UNCHANGED <<parent, root, depth>>
  BY DEF StartDetached, DepthInv, ChainInv, WakeInv, TypeOK, TaskTypeOK
<1>3. \A c \in Coros : /\ Live(c)' <=> Live(c) \/ c = d
                       /\ AwaitsChild(c)' <=> AwaitsChild(c)
                       /\ Live(c) => root[c] # d
  BY <1>1, <1>2 DEF Live, AwaitsChild, DepthInv, ChainInv, ChainShape
<1>4. \A c \in Coros : Live(c)' /\ parent'[c] \in Coros => Live(c) /\ c # d
  BY <1>1, <1>2, <1>3
<1>5. \A b, c \in Coros : Live(c)' /\ parent'[c] = b => depth'[c] = depth'[b] + 1
  BY <1>2, <1>4 DEF DepthInv, ChainDepth
<1>6. \A b, c \in Coros :
        Live(b)' /\ Live(c)' /\ root'[b] = root'[c] /\ depth'[b] = depth'[c] => b = c
  BY <1>1, <1>2, <1>3 DEF DepthInv, ChainDepth
<1>7. IsEnd(d, d)'
  BY <1>1, <1>2, <1>3 DEF IsEnd, Leaf
<1>8. \A l, c \in Coros : IsEnd(l, c) /\ Live(c) => IsEnd(l, c)'
  BY <1>1, <1>2, <1>3 DEF IsEnd, Leaf
<1> QED
  BY <1>2, <1>3, <1>5, <1>6, <1>7, <1>8 DEF DepthInv, ChainDepth

LEMMA StartAwaitedDepth ==
  ASSUME DepthInv, NEW c \in Coros, NEW d \in Coros, StartAwaited(c, d), frame[c] = "running"
  PROVE  ChainDepth'
<1>1. /\ frame[d] = "none" /\ ~AwaitsChild(d) /\ ~Live(d) /\ c # d
      /\ Leaf(c) /\ ~AwaitsChild(c) /\ Live(c) /\ parent[d] = Nil
  BY DEF DepthInv, ChainInv, WakeInv, StartAwaited, NoStaleWakeup, FreshFrames, Live, Leaf
<1>2. \A b \in Coros : /\ frame'[b] = IF b \in {c, d} THEN "suspended" ELSE frame[b]
                       /\ parent'[b] = IF b = d THEN c ELSE parent[b]
                       /\ root'[b] = IF b = d THEN root[c] ELSE root[b]
                       /\ depth'[b] = IF b = d THEN depth[c] + 1 ELSE depth[b]
  BY DEF StartAwaited, DepthInv, ChainInv, WakeInv, TypeOK, TaskTypeOK
<1>3. \A b \in Coros : /\ Live(b)' <=> Live(b) \/ b = d
                       /\ AwaitsChild(b)' <=> AwaitsChild(b) \/ b = c
                       /\ depth[b] \in Nat
  BY <1>1, <1>2 DEF Live, AwaitsChild, DepthInv, ChainInv, WakeInv, TypeOK, TaskTypeOK
<1>4. IsEnd(c, c)
  BY <1>1 DEF DepthInv, ChainDepth, ChainInv, ChainShape, IsEnd
<1>5. \A b \in Coros : Live(b) /\ root[b] = root[c] => depth[b] < depth'[d]
  BY <1>2, <1>3, <1>4 DEF IsEnd
<1>6. \A b \in Coros : parent'[b] = Nil => depth'[b] = 0
  BY <1>2 DEF DepthInv, ChainDepth
<1>7. \A b, e \in Coros : Live(e)' /\ parent'[e] = b => depth'[e] = depth'[b] + 1
  <2>1. \A b, e \in Coros : Live(e) /\ parent[e] = b => b # d
    BY <1>1 DEF AwaitsChild
  <2> QED
    BY <1>1, <1>2, <1>3, <2>1 DEF DepthInv, ChainDepth
<1>8. \A b, e \in Coros :
        Live(b)' /\ Live(e)' /\ root'[b] = root'[e] /\ depth'[b] = depth'[e] => b = e
  BY <1>1, <1>2, <1>3, <1>5 DEF DepthInv, ChainDepth
<1>9. \A b \in Coros : Live(b)' /\ root'[b] = root[c] => IsEnd(d, b)'
  BY <1>1, <1>2, <1>3, <1>5 DEF IsEnd, Leaf
<1>10. \A b, l \in Coros : Live(b) /\ root[b] # root[c] /\ IsEnd(l, b) => IsEnd(l, b)'
  BY <1>1, <1>2, <1>3 DEF IsEnd, Leaf
<1>11. \A b \in Coros : Live(b)' => \E l \in Coros : IsEnd(l, b)'
  <2> SUFFICES ASSUME NEW b \in Coros, Live(b)' PROVE \E l \in Coros : IsEnd(l, b)'
    OBVIOUS
  <2>1. CASE root'[b] = root[c]
    BY <1>9, <2>1
  <2>2. CASE root'[b] # root[c]
    <3>1. Live(b) /\ root[b] # root[c]
      BY <1>2, <1>3, <2>2
    <3> QED
      BY <1>10, <3>1 DEF DepthInv, ChainDepth
  <2> QED
    BY <2>1, <2>2
<1> QED
  BY <1>6, <1>7, <1>8, <1>11 DEF ChainDepth

LEMMA FinishDepth ==
  ASSUME DepthInv, NEW c \in Coros, FinalSuspend(c), frame[c] = "running"
  PROVE  ChainDepth'
<1>1. Live(c) /\ ~AwaitsChild(c) /\ Leaf(c)
  BY DEF DepthInv, ChainInv, WakeInv, NoStaleWakeup, Live, Leaf
<1>2. /\ \A b \in Coros : frame'[b] = IF b = c THEN "final" ELSE frame[b]
      /\ UNCHANGED <<parent, root, depth>>
  BY DEF FinalSuspend, DepthInv, ChainInv, WakeInv, TypeOK, TaskTypeOK
<1>3. \A b \in Coros : /\ Live(b)' <=> Live(b) /\ b # c
                       /\ AwaitsChild(b)' <=> AwaitsChild(b) /\ b # parent[c]
                       /\ depth[b] \in Nat
  BY <1>1, <1>2 DEF Live, AwaitsChild, DepthInv, ChainInv, WakeInv, NoDoubleWakeup, TypeOK,
                    TaskTypeOK
<1>4. IsEnd(c, c)
  BY <1>1 DEF DepthInv, ChainDepth, ChainInv, ChainShape, IsEnd
<1>5. \A b \in Coros : Live(b)' /\ root[b] = root[c] => depth[b] < depth[c]
  <2>1. \A b \in Coros : Live(b)' /\ root[b] = root[c] => depth[b] <= depth[c] /\ depth[b] # depth[c]
    BY <1>1, <1>3, <1>4 DEF IsEnd, DepthInv, ChainDepth
  <2> QED
    BY <1>3, <2>1
<1>6. ASSUME NEW b \in Coros, Live(b)', root[b] = root[c]
      PROVE  \E l \in Coros : IsEnd(l, b)'
  <2>1. depth[c] # 0
    BY <1>3, <1>5, <1>6
  <2>2. PICK p \in Coros : p = parent[c]
    BY <2>1 DEF DepthInv, ChainDepth, ChainInv, WakeInv, TypeOK, TaskTypeOK
  <2>3. /\ Live(p) /\ p # c /\ root[p] = root[c] /\ depth[c] = depth[p] + 1
    BY <1>1, <2>2 DEF DepthInv, ChainDepth, ChainInv, ChainShape, WakeInv, NoStaleWakeup,
                      AwaitsChild, Live
  <2>4. Leaf(p)'
    <3>1. Live(p)' /\ ~AwaitsChild(p)'
      BY <1>3, <2>2, <2>3
    <3> QED
      BY <3>1 DEF Leaf
  <2>5. \A e \in Coros : Live(e)' /\ root[e] = root[c] => depth[e] <= depth[p]
    BY <1>3, <1>5, <2>2, <2>3
  <2>6. IsEnd(p, b)'
    BY <1>2, <1>6, <2>3, <2>4, <2>5 DEF IsEnd
  <2> QED
    BY <2>6
<1>7. \A b, l \in Coros : root[b] # root[c] /\ IsEnd(l, b) => IsEnd(l, b)'
  BY <1>1, <1>2, <1>3 DEF IsEnd, Leaf
<1>8. \A b \in Coros : Live(b)' => \E l \in Coros : IsEnd(l, b)'
  <2> SUFFICES ASSUME NEW b \in Coros, Live(b)' PROVE \E l \in Coros : IsEnd(l, b)'
    OBVIOUS
  <2>1. CASE root[b] = root[c]
    BY <1>2, <1>6, <2>1
  <2>2. CASE root[b] # root[c]
    BY <1>3, <1>7, <2>2 DEF DepthInv, ChainDepth
  <2> QED
    BY <2>1, <2>2
<1>9. /\ \A b \in Coros : parent'[b] = Nil => depth'[b] = 0
      /\ \A b, d \in Coros : Live(d)' /\ parent'[d] = b => depth'[d] = depth'[b] + 1
      /\ \A b, d \in Coros :
           Live(b)' /\ Live(d)' /\ root'[b] = root'[d] /\ depth'[b] = depth'[d] => b = d
  BY <1>2, <1>3 DEF DepthInv, ChainDepth
<1> QED
  BY <1>8, <1>9 DEF ChainDepth

LEMMA ResumeDepth ==
  ASSUME DepthInv, NEW c \in Coros, ResumeFrame(c), frame[c] = "suspended"
  PROVE  ChainDepth'
<1>1. \A b \in Coros :
        /\ frame'[b] = IF b = c THEN "running"
                       ELSE IF parent[b] = c /\ frame[b] = "final" THEN "none" ELSE frame[b]
        /\ parent'[b] = IF parent[b] = c /\ frame[b] = "final" THEN Nil ELSE parent[b]
        /\ root'[b] = IF parent[b] = c /\ frame[b] = "final" THEN b ELSE root[b]
        /\ depth'[b] = IF parent[b] = c /\ frame[b] = "final" THEN 0 ELSE depth[b]
  BY DEF ResumeFrame, Reclaimed
<1>2. \A b \in Coros : /\ Live(b)' <=> Live(b)
                       /\ Live(b) => /\ parent'[b] = parent[b] /\ root'[b] = root[b]
                                     /\ depth'[b] = depth[b]
  BY <1>1 DEF Live
<1>3. \A b \in Coros : AwaitsChild(b)' <=> AwaitsChild(b)
  BY <1>2 DEF AwaitsChild
<1>4. \A b, d \in Coros : Live(d) /\ parent[d] = b => Live(b)
  BY DEF DepthInv, ChainInv, WakeInv, NoStaleWakeup, AwaitsChild, Live
<1>5. \A b, l \in Coros : Live(b) /\ IsEnd(l, b) => IsEnd(l, b)'
  BY <1>2, <1>3 DEF IsEnd, Leaf
<1>6. \A b \in Coros : parent'[b] = Nil => depth'[b] = 0
  BY <1>1 DEF DepthInv, ChainDepth
<1>7. \A b, d \in Coros : Live(d)' /\ parent'[d] = b => depth'[d] = depth'[b] + 1
  BY <1>2, <1>4 DEF DepthInv, ChainDepth
<1>8. \A b, d \in Coros :
        Live(b)' /\ Live(d)' /\ root'[b] = root'[d] /\ depth'[b] = depth'[d] => b = d
  BY <1>2 DEF DepthInv, ChainDepth
<1>9. \A b \in Coros : Live(b)' => \E l \in Coros : IsEnd(l, b)'
  BY <1>2, <1>5 DEF DepthInv, ChainDepth
<1> QED
  BY <1>6, <1>7, <1>8, <1>9 DEF ChainDepth

LEMMA DepthStep ==
  ASSUME Exclusive
  PROVE  DepthInv /\ ReactorInv /\ [Next]_vars => DepthInv'
<1> SUFFICES ASSUME DepthInv, ReactorInv, [Next]_vars PROVE ChainDepth'
  BY ChainStep DEF DepthInv
<1> USE DEF DepthInv
<1>1. TypeOK
  BY DEF ReactorInv
<1>2. CASE LoopStep
  <2>1. CASE Resume
    <3>1. /\ Head(ready) \in Coros /\ ResumeFrame(Head(ready))
          /\ frame[Head(ready)] = "suspended"
      BY <2>1, TailMembers, QueueType
      DEF Resume, ChainInv, WakeInv, TypeOK, SchedTypeOK, NoDoubleWakeup, NoStaleWakeup, InReady
    <3> QED
      BY <3>1, ResumeDepth
  <2> QED
    BY <1>1, <1>2, <2>1, SameDepth
    DEF LoopStep, LoopTest, ResumeDone, Expire, ExpireDone, EnterPoll, PollEvents, PollTimeout,
        Deliver, DeliverDone, AwakeThread, Live
<1>3. ASSUME NEW c \in Coros, CoroStep(c) PROVE ChainDepth'
  <2>1. ASSUME NEW d \in Coros, AwaitTask(c, d) PROVE ChainDepth'
    BY <2>1, StartAwaitedDepth DEF AwaitTask
  <2>2. ASSUME NEW d \in Coros, Spawn(c, d) PROVE ChainDepth'
    BY <2>2, StartDetachedDepth DEF Spawn
  <2>3. CASE Finish(c)
    BY <2>3, FinishDepth DEF Finish
  <2>4. ASSUME NEW d \in Durations, AwaitSleep(c, d) PROVE ChainDepth'
    BY <1>1, <2>4, SameDepth DEF AwaitSleep, Suspend, Live, TypeOK, TaskTypeOK
  <2>5. ASSUME NEW fd \in Fds, NEW ev \in Event, AwaitEvent(c, fd, ev) PROVE ChainDepth'
    BY <1>1, <2>5, SameDepth DEF AwaitEvent, Suspend, Live, TypeOK, TaskTypeOK
  <2>6. ASSUME UNCHANGED taskVars PROVE ChainDepth'
    BY <1>1, <2>6, SameDepth DEF Live
  <2> QED
    BY <1>3, <2>1, <2>2, <2>3, <2>4, <2>5, <2>6
    DEF CoroStep, Yield, OpSucceeds, OpWouldBlock, AwaitEventThrows, Close, Accept
<1>4. ASSUME NEW d \in Coros, MainSpawn(d) PROVE ChainDepth'
  BY <1>4, StartDetachedDepth DEF MainSpawn
<1>5. CASE run \/ Environment \/ UNCHANGED vars
  BY <1>1, <1>5, SameDepth DEF run, Environment, Tick, PollInterrupted, PeerActs, Live
<1> QED
  BY <1>2, <1>3, <1>4, <1>5 DEF Next

LEMMA DepthInvariant ==
  ASSUME Exclusive
  PROVE  Spec => []DepthInv
<1>1. Init => ChainDepth
  BY DEF Init, TaskInit, ChainDepth, Live
<1>2. DepthInv /\ ReactorInv /\ [Next]_vars => DepthInv'
  BY DepthStep
<1>3. Spec => []ReactorInv /\ []ChainInv
  BY ReactorInvariant, ChainInvariant, PTL
<1>4. Spec => DepthInv
  BY <1>1, <1>3, PTL DEF Spec, DepthInv
<1> QED
  BY <1>2, <1>3, <1>4, PTL DEF Spec

-----------------------------------------------------------------------------
(* run() returns to a program without live coroutines. *)

(* When __run finds all its queues empty, nothing is live: what is live has a
   leaf in its chain, and a leaf that does not run is in a queue. *)
LEMMA EmptyMeansDone ==
  ASSUME DepthInv, phase # "coro", ready = <<>>, sleepys = {}, ~has_watchers
  PROVE  \A c \in Coros : ~Live(c)
<1> SUFFICES ASSUME NEW c \in Coros, Live(c) PROVE FALSE
  OBVIOUS
<1>1. PICK l \in Coros : Leaf(l)
  BY DEF DepthInv, ChainDepth, IsEnd
<1>2. frame[l] = "suspended"
  BY <1>1 DEF Leaf, Live, DepthInv, ChainInv, WakeInv, OneRuns
<1>3. ~InReady(l) /\ ~Asleep(l) /\ ~InTable(l)
  BY DEF InReady, Asleep, InTable, has_watchers
<1> QED
  BY <1>1, <1>2, <1>3 DEF Leaf, DepthInv, ChainInv, AllQueued

(* Outside of run() what is live is what main has just spawned. *)
MainInv == phase = "main" => \A c \in Coros : Live(c) => InReady(c)

LEMMA MainStep == DepthInv /\ MainInv /\ [Next]_vars => MainInv'
<1> SUFFICES ASSUME DepthInv, MainInv, [Next]_vars, phase' = "main" PROVE MainInv'
  BY DEF MainInv
<1>1. CASE LoopStep
  <2>1. LoopTest /\ ready = <<>> /\ sleepys = {} /\ ~has_watchers
    BY <1>1
    DEF LoopStep, LoopTest, Resume, ResumeDone, Expire, ExpireDone, EnterPoll, PollEvents,
        PollTimeout, Deliver, DeliverDone, EndOfIteration, AwakeThread
  <2> QED
    BY <2>1, EmptyMeansDone DEF LoopTest, MainInv, Live
<1>2. ASSUME NEW c \in Coros, CoroStep(c) PROVE FALSE
  BY <1>2
  DEF CoroStep, Yield, AwaitTask, Spawn, AwaitSleep, AwaitEvent, Finish, OpSucceeds,
      OpWouldBlock, AwaitEventThrows, Close, Accept
<1>3. ASSUME NEW d \in Coros, MainSpawn(d) PROVE MainInv'
  <2>1. \A b \in Coros : InReady(b)' <=> InReady(b) \/ b = d
    BY <1>3, Queued DEF MainSpawn, internal_spawn, DepthInv, ChainInv, WakeInv
  <2>2. \A b \in Coros : frame'[b] = IF b = d THEN "suspended" ELSE frame[b]
    BY <1>3 DEF MainSpawn, StartDetached, DepthInv, ChainInv, WakeInv, TypeOK, TaskTypeOK
  <2> QED
    BY <1>3, <2>1, <2>2 DEF MainSpawn, MainInv, Live
<1>4. CASE run \/ Environment \/ UNCHANGED vars
  BY <1>4 DEF run, Environment, Tick, PollInterrupted, PeerActs, MainInv, Live, InReady
<1> QED
  BY <1>1, <1>2, <1>3, <1>4 DEF Next

(* run() never returns while a coroutine is live: neither one that sleeps,
   nor one that waits for a socket, nor a caller whose callee does. *)
THEOREM RunReturnsLast ==
  ASSUME Exclusive
  PROVE  Spec => []RunCompletes
<1>1. Init => MainInv
  BY DEF Init, TaskInit, MainInv, Live
<1>2. MainInv => RunCompletes
  <2>1. ready = <<>> => \A c \in Coros : ~InReady(c)
    BY DEF InReady
  <2> QED
    BY <2>1 DEF MainInv, RunCompletes
<1> QED
  BY <1>1, <1>2, DepthInvariant, MainStep, PTL DEF Spec

-----------------------------------------------------------------------------
(* The refinement. *)

(* The four variables of the contract, as the mapping gives them. *)
statuses == [c \in Coros |-> StatusOf(c)]

(* A step that changes neither frames, callers nor the queue is a step of the
   event loop that the contract does not see. *)
LEMMA Unseen ==
  ASSUME UNCHANGED <<frame, parent, ready>>, (phase' = "main") <=> (phase = "main")
  PROVE  UNCHANGED Contract!contractVars
<1>1. \A c \in Coros : StatusOf(c)' = StatusOf(c)
  BY DEF StatusOf, InReady, AwaitsChild, Live
<1>2. statuses' = statuses
  BY <1>1 DEF statuses
<1> QED
  BY <1>2 DEF Contract!contractVars, statuses

(* What the running coroutine and the suspended ones are in the contract. *)
LEMMA StatusFacts ==
  ASSUME WakeInv, NEW c \in Coros
  PROVE  /\ frame[c] = "none" <=> StatusOf(c) = "absent"
         /\ frame[c] = "running" <=> StatusOf(c) = "running"
         /\ frame[c] = "final" <=> StatusOf(c) = "done"
         /\ InReady(c) <=> StatusOf(c) = "runnable"
         /\ AwaitsChild(c) <=> StatusOf(c) = "calling"
  BY DEF StatusOf, WakeInv, NoStaleWakeup, NoDoubleWakeup, TypeOK, TaskTypeOK, FrameState

LEMMA LaunchStep ==
  ASSUME WakeInv, WakeInv', NEW d \in Coros, StartDetached(d), internal_spawn(d),
         UNCHANGED phase,
         phase # "main" => \E c \in Coros : frame[c] = "running"
  PROVE  Contract!Launch(d)
<1>1. frame[d] = "none" /\ \A c \in Coros : frame'[c] = IF c = d THEN "suspended" ELSE frame[c]
  BY DEF StartDetached, WakeInv, TypeOK, TaskTypeOK
<1>2. \A c \in Coros : InReady(c)' <=> InReady(c) \/ c = d
  BY Queued DEF internal_spawn, WakeInv
<1>3. parent[d] = Nil /\ UNCHANGED parent
  BY <1>1 DEF StartDetached, WakeInv, FreshFrames
<1>4. \A c \in Coros : AwaitsChild(c)' <=> AwaitsChild(c)
  BY <1>1, <1>3 DEF AwaitsChild, Live
<1>5. ASSUME NEW c \in Coros
      PROVE  StatusOf(c)' = IF c = d THEN "runnable" ELSE StatusOf(c)
  <2>1. CASE c = d
    <3>1. frame'[c] = "suspended" /\ InReady(c)'
      BY <1>1, <1>2, <2>1
    <3> QED
      BY <2>1, <3>1 DEF StatusOf
  <2>2. CASE c # d
    <3>1. frame'[c] = frame[c] /\ (InReady(c)' <=> InReady(c)) /\ (AwaitsChild(c)' <=> AwaitsChild(c))
      BY <1>1, <1>2, <1>4, <2>2
    <3> QED
      BY <2>2, <3>1 DEF StatusOf
  <2> QED
    BY <2>1, <2>2
<1>6. statuses' = [statuses EXCEPT ![d] = "runnable"]
  BY <1>5 DEF statuses
<1>7. statuses[d] = "absent" /\ (phase # "main" => \E c \in Coros : statuses[c] = "running")
  BY <1>1 DEF statuses, StatusOf
<1> QED
  BY <1>3, <1>6, <1>7 DEF Contract!Launch, Contract!Idle, internal_spawn, statuses

LEMMA DispatchStep ==
  ASSUME WakeInv, WakeInv', Resume
  PROVE  Contract!Dispatch
<1> DEFINE h == Head(ready)
<1>1. /\ h \in Coros /\ InReady(h)
      /\ \A b \in Coros : InReady(b)' <=> InReady(b) /\ b # h
  BY TailMembers, QueueType
  DEF Resume, WakeInv, TypeOK, SchedTypeOK, NoDoubleWakeup, InReady
<1>2. PICK c \in Coros : c = h
  BY <1>1
<1>3. frame[c] = "suspended"
  BY <1>1, <1>2 DEF WakeInv, NoStaleWakeup
<1>4. \A b \in Coros :
        /\ frame'[b] = IF b = c THEN "running"
                       ELSE IF parent[b] = c /\ frame[b] = "final" THEN "none" ELSE frame[b]
        /\ parent'[b] = IF parent[b] = c /\ frame[b] = "final" THEN Nil ELSE parent[b]
  BY <1>2 DEF Resume, ResumeFrame, Reclaimed
<1>5. \A b \in Coros : AwaitsChild(b)' <=> AwaitsChild(b)
  BY <1>3, <1>4 DEF AwaitsChild, Live
<1>6. \A b \in Coros : statuses[b] = StatusOf(b)
  BY DEF statuses
<1>7. Contract!Returned(c) = {b \in Coros : parent[b] = c /\ frame[b] = "final"}
  BY <1>6, StatusFacts DEF Contract!Returned, statuses
<1>8. \A b \in Coros :
        StatusOf(b)' = IF b = c THEN "running"
                       ELSE IF b \in Contract!Returned(c) THEN "absent" ELSE StatusOf(b)
  BY <1>1, <1>2, <1>3, <1>4, <1>5, <1>7 DEF StatusOf
<1>9. statuses' = [b \in Coros |->
                     IF b = c THEN "running"
                     ELSE IF b \in Contract!Returned(c) THEN "absent" ELSE statuses[b]]
  BY <1>6, <1>8 DEF statuses
<1>10. parent' = [b \in Coros |-> IF b \in Contract!Returned(c) THEN Nil ELSE parent[b]]
  BY <1>2, <1>7 DEF Resume, ResumeFrame, Reclaimed
<1>11. Contract!Idle
  BY <1>6, StatusFacts DEF Contract!Idle, Resume, WakeInv, OneRuns, statuses
<1> QED
  BY <1>2, <1>9, <1>10, <1>11 DEF Contract!Dispatch, Resume, statuses

LEMMA WaitStep ==
  ASSUME WakeInv, WakeInv', NEW c \in Coros, Suspend(c), frame[c] = "running", UNCHANGED ready,
         phase # "main", phase' # "main"
  PROVE  Contract!Wait(c)
<1>1. \A b \in Coros : frame'[b] = IF b = c THEN "suspended" ELSE frame[b]
  BY DEF Suspend, WakeInv, TypeOK, TaskTypeOK
<1>2. \A b \in Coros : InReady(b)' <=> InReady(b)
  BY DEF InReady
<1>3. \A b \in Coros : AwaitsChild(b)' <=> AwaitsChild(b)
  BY <1>1 DEF Suspend, AwaitsChild, Live
<1>4. ~InReady(c) /\ ~AwaitsChild(c)
  BY DEF WakeInv, NoStaleWakeup
<1>5. \A b \in Coros : StatusOf(b)' = IF b = c THEN "waiting" ELSE StatusOf(b)
  BY <1>1, <1>2, <1>3, <1>4 DEF StatusOf
<1>6. statuses' = [statuses EXCEPT ![c] = "waiting"] /\ statuses[c] = "running"
  BY <1>5 DEF statuses, StatusOf
<1> QED
  BY <1>6 DEF Contract!Wait, Suspend, statuses

LEMMA WakeUpStep ==
  ASSUME WakeInv, WakeInv', NEW c \in Coros, Asleep(c) \/ InTable(c), internal_spawn(c),
         UNCHANGED <<frame, parent, phase>>, phase \notin {"main", "coro"}
  PROVE  Contract!Wake(c)
<1>1. frame[c] = "suspended" /\ ~InReady(c) /\ ~AwaitsChild(c)
  BY DEF WakeInv, NoStaleWakeup, NoDoubleWakeup
<1>2. \A b \in Coros : InReady(b)' <=> InReady(b) \/ b = c
  BY Queued DEF internal_spawn, WakeInv
<1>3. \A b \in Coros : AwaitsChild(b)' <=> AwaitsChild(b)
  BY DEF AwaitsChild, Live
<1>4. \A b \in Coros : StatusOf(b)' = IF b = c THEN "runnable" ELSE StatusOf(b)
  BY <1>1, <1>2, <1>3 DEF StatusOf
<1>5. statuses' = [statuses EXCEPT ![c] = "runnable"] /\ statuses[c] = "waiting"
  BY <1>1, <1>4 DEF statuses, StatusOf
<1>6. Contract!Idle
  BY StatusFacts DEF Contract!Idle, WakeInv, OneRuns, statuses
<1> QED
  BY <1>5, <1>6 DEF Contract!Wake, internal_spawn, statuses

LEMMA CallStep ==
  ASSUME WakeInv, WakeInv', NEW c \in Coros, NEW d \in Coros, AwaitTask(c, d)
  PROVE  Contract!Call(c, d)
<1>1. /\ frame[d] = "none" /\ frame[c] = "running" /\ c # d
      /\ ~InReady(c) /\ ~AwaitsChild(d)
  BY DEF AwaitTask, StartAwaited, WakeInv, NoStaleWakeup
<1>2. \A b \in Coros : InReady(b)' <=> InReady(b) \/ b = d
  BY Queued DEF AwaitTask, internal_spawn, WakeInv
<1>3. \A b \in Coros : /\ frame'[b] = IF b \in {c, d} THEN "suspended" ELSE frame[b]
                       /\ parent'[b] = IF b = d THEN c ELSE parent[b]
  BY DEF AwaitTask, StartAwaited, WakeInv, TypeOK, TaskTypeOK
<1>4. \A b \in Coros : AwaitsChild(b)' <=> AwaitsChild(b) \/ b = c
  BY <1>1, <1>3 DEF AwaitsChild, Live, WakeInv, FreshFrames
<1>5. \A b \in Coros : StatusOf(b)' = IF b = d THEN "runnable"
                                      ELSE IF b = c THEN "calling" ELSE StatusOf(b)
  BY <1>1, <1>2, <1>3, <1>4 DEF StatusOf
<1>6. /\ statuses' = [statuses EXCEPT ![c] = "calling", ![d] = "runnable"]
      /\ statuses[c] = "running" /\ statuses[d] = "absent"
  BY <1>1, <1>5 DEF statuses, StatusOf
<1>7. /\ parent' = [parent EXCEPT ![d] = c] /\ ready' = Append(ready, d)
      /\ phase = "coro" /\ phase' = "resume"
  BY DEF AwaitTask, StartAwaited, internal_spawn
<1> QED
  BY <1>6, <1>7 DEF Contract!Call, statuses

LEMMA FinishStep ==
  ASSUME WakeInv, WakeInv', NEW c \in Coros, Finish(c)
  PROVE  Contract!Next
<1>1. frame[c] = "running" /\ ~InReady(c) /\ ~AwaitsChild(c)
  BY DEF Finish, WakeInv, NoStaleWakeup
<1>2. /\ \A b \in Coros : frame'[b] = IF b = c THEN "final" ELSE frame[b]
      /\ UNCHANGED parent /\ phase = "coro" /\ phase' = "resume"
  BY DEF Finish, FinalSuspend, WakeInv, TypeOK, TaskTypeOK
<1>3. \A b \in Coros : AwaitsChild(b)' <=> AwaitsChild(b) /\ b # parent[c]
  BY <1>1, <1>2 DEF AwaitsChild, Live, WakeInv, NoDoubleWakeup
<1>4. CASE parent[c] = Nil
  <2>1. \A b \in Coros : InReady(b)' <=> InReady(b)
    BY <1>4 DEF Finish, InReady
  <2>2. \A b \in Coros : StatusOf(b)' = IF b = c THEN "done" ELSE StatusOf(b)
    BY <1>1, <1>2, <1>3, <1>4, <2>1 DEF StatusOf
  <2>3. statuses' = [statuses EXCEPT ![c] = "done"] /\ statuses[c] = "running"
    BY <1>1, <2>2 DEF statuses, StatusOf
  <2>4. Contract!Finish(c)
    BY <1>2, <1>4, <2>3 DEF Contract!Finish, Finish, statuses
  <2> QED
    BY <2>4 DEF Contract!Next
<1>5. CASE parent[c] # Nil
  <2>1. PICK p \in Coros : p = parent[c]
    BY <1>5 DEF WakeInv, TypeOK, TaskTypeOK
  <2>2. AwaitsChild(p) /\ frame[p] = "suspended" /\ ~InReady(p) /\ p # c
    BY <1>1, <2>1 DEF WakeInv, NoStaleWakeup, NoDoubleWakeup, AwaitsChild, Live
  <2>3. ready' = Append(ready, p)
    BY <1>5, <2>1 DEF Finish, internal_spawn
  <2>4. \A b \in Coros : InReady(b)' <=> InReady(b) \/ b = p
    BY <2>3, Queued DEF WakeInv
  <2>5. \A b \in Coros : StatusOf(b)' = IF b = c THEN "done"
                                        ELSE IF b = p THEN "runnable" ELSE StatusOf(b)
    BY <1>1, <1>2, <1>3, <2>1, <2>2, <2>4 DEF StatusOf
  <2>6. /\ statuses' = [statuses EXCEPT ![c] = "done", ![p] = "runnable"]
        /\ statuses[c] = "running" /\ statuses[p] = "calling"
    BY <1>1, <2>2, <2>5 DEF statuses, StatusOf
  <2>7. Contract!Return(c, p)
    BY <1>2, <2>1, <2>3, <2>6 DEF Contract!Return, statuses
  <2> QED
    BY <2>7 DEF Contract!Next
<1> QED
  BY <1>4, <1>5

(* A coroutine suspends on a socket or a timer, or does what the contract does
   not see. *)
LEMMA CoroStepMaps ==
  ASSUME WakeInv, WakeInv', NEW c \in Coros, CoroStep(c)
  PROVE  [Contract!Next]_(Contract!contractVars)
<1>1. ASSUME NEW d \in Coros, AwaitTask(c, d) PROVE Contract!Next
  BY <1>1, CallStep DEF Contract!Next
<1>2. ASSUME NEW d \in Durations, AwaitSleep(c, d) PROVE Contract!Next
  BY <1>2, WaitStep DEF AwaitSleep, Contract!Next
<1>3. ASSUME NEW fd \in Fds, NEW ev \in Event, AwaitEvent(c, fd, ev) PROVE Contract!Next
  BY <1>3, WaitStep DEF AwaitEvent, Contract!Next
<1>4. CASE Finish(c)
  BY <1>4, FinishStep
<1>5. ASSUME NEW d \in Coros, Spawn(c, d) PROVE Contract!Next
  <2>1. Contract!Launch(d)
    BY <1>5, LaunchStep DEF Spawn
  <2> QED
    BY <2>1 DEF Contract!Next
<1>6. ASSUME NEW fd \in Fds, NEW ev \in Event,
             OpSucceeds(c, fd, ev) \/ OpWouldBlock(c, fd, ev) \/ AwaitEventThrows(c, fd, ev)
      PROVE  UNCHANGED Contract!contractVars
  BY <1>6, Unseen DEF OpSucceeds, OpWouldBlock, AwaitEventThrows
<1>7. ASSUME NEW fd \in Fds, Close(c, fd) PROVE UNCHANGED Contract!contractVars
  BY <1>7, Unseen DEF Close
<1>8. ASSUME NEW lfd \in Fds, NEW fd \in Fds, Accept(c, lfd, fd)
      PROVE  UNCHANGED Contract!contractVars
  BY <1>8, Unseen DEF Accept
<1> QED
  BY <1>1, <1>2, <1>3, <1>4, <1>5, <1>6, <1>7, <1>8 DEF CoroStep, Yield

LEMMA LoopStepMaps ==
  ASSUME DepthInv, WakeInv', LoopStep
  PROVE  [Contract!Next]_(Contract!contractVars)
<1>0. WakeInv
  BY DEF DepthInv, ChainInv
<1>1. CASE LoopTest
  <2>1. CASE phase' = "main"
    <3>1. \A c \in Coros : ~Live(c)
      BY <1>1, <2>1, EmptyMeansDone DEF LoopTest
    <3>2. \A c \in Coros : statuses[c] \in {"absent", "done"}
      BY <1>0, <3>1 DEF Live, statuses, StatusOf, WakeInv, TypeOK, TaskTypeOK, FrameState
    <3>3. statuses' = statuses
      BY <1>1 DEF LoopTest, statuses, StatusOf, InReady, AwaitsChild, Live
    <3>4. Contract!Leave
      BY <1>1, <2>1, <3>2, <3>3 DEF LoopTest, Contract!Leave, statuses
    <3> QED
      BY <3>4 DEF Contract!Next
  <2>2. CASE phase' # "main"
    BY <1>1, <2>2, Unseen DEF LoopTest
  <2> QED
    BY <2>1, <2>2
<1>2. CASE Resume
  BY <1>0, <1>2, DispatchStep DEF Contract!Next
<1>3. CASE Expire
  <2>1. PICK s \in sleepys : IsTop(s) /\ internal_spawn(s.coro)
    BY <1>3 DEF Expire
  <2>2. s.coro \in Coros /\ Asleep(s.coro)
    BY <1>0, <2>1 DEF WakeInv, TypeOK, SchedTypeOK, SleepItem, Asleep
  <2>3. Contract!Wake(s.coro)
    BY <1>0, <1>3, <2>1, <2>2, WakeUpStep DEF Expire
  <2> QED
    BY <2>2, <2>3 DEF Contract!Next
<1>4. CASE Deliver
  <2>1. PICK fd \in events : IF table[fd] # Nil THEN internal_spawn(table[fd]) ELSE UNCHANGED ready
    BY <1>4 DEF Deliver
  <2>2. CASE table[fd] = Nil
    BY <1>4, <2>1, <2>2, Unseen DEF Deliver
  <2>3. CASE table[fd] # Nil
    <3>1. PICK c \in Coros : c = table[fd]
      BY <1>0, <2>1, <2>3 DEF WakeInv, TypeOK, IOTypeOK
    <3>2. InTable(c)
      BY <1>0, <2>1, <3>1 DEF InTable, WakeInv, TypeOK
    <3>3. Contract!Wake(c)
      BY <1>0, <1>4, <2>1, <2>3, <3>1, <3>2, WakeUpStep DEF Deliver
    <3> QED
      BY <3>3 DEF Contract!Next
  <2> QED
    BY <2>2, <2>3
<1>5. CASE \/ ResumeDone \/ ExpireDone \/ EnterPoll \/ PollEvents \/ PollTimeout
           \/ DeliverDone \/ AwakeThread
  BY <1>5, Unseen
  DEF ResumeDone, ExpireDone, EnterPoll, PollEvents, PollTimeout, DeliverDone, AwakeThread,
      EndOfIteration
<1> QED
  BY <1>1, <1>2, <1>3, <1>4, <1>5 DEF LoopStep

LEMMA NextMaps ==
  ASSUME DepthInv, WakeInv', [Next]_vars
  PROVE  [Contract!Next]_(Contract!contractVars)
<1>0. WakeInv
  BY DEF DepthInv, ChainInv
<1>1. ASSUME NEW d \in Coros, MainSpawn(d) PROVE Contract!Next
  <2>1. Contract!Launch(d)
    BY <1>0, <1>1, LaunchStep DEF MainSpawn
  <2> QED
    BY <2>1 DEF Contract!Next
<1>2. CASE run
  <2>1. statuses' = statuses
    BY <1>2 DEF run, statuses, StatusOf, InReady, AwaitsChild, Live
  <2>2. Contract!Enter
    BY <1>2, <2>1 DEF run, Contract!Enter, statuses
  <2> QED
    BY <2>2 DEF Contract!Next
<1>3. CASE Environment \/ UNCHANGED vars
  BY <1>3, Unseen DEF Environment, Tick, PollInterrupted, PeerActs
<1> QED
  BY <1>0, <1>1, <1>2, <1>3, CoroStepMaps, LoopStepMaps DEF Next

(* The runtime implements its contract, for any number of coroutines, sockets
   and timers, if no two call chains share a socket: coroutines run one at a
   time and in the order in which they became runnable, a caller goes on once
   after its callee, and run() returns only when everything is done. *)
THEOREM RuntimeImplementsContract ==
  ASSUME Exclusive
  PROVE  Spec => ImplementsContract
<1>1. Init => Contract!Init
  BY DEF Init, SchedInit, TaskInit, Contract!Init, StatusOf
<1>2. DepthInv /\ WakeInv' /\ [Next]_vars => [Contract!Next]_(Contract!contractVars)
  BY NextMaps
<1>3. Spec => []DepthInv /\ []WakeInv
  BY DepthInvariant, WakeInvariant, PTL
<1> QED
  BY <1>1, <1>2, <1>3, PTL DEF Spec, ImplementsContract, Contract!Spec
=============================================================================
