----------------------- MODULE CoroRuntimeProperties -----------------------
(***************************************************************************)
(* What the coroutine runtime of CoroRuntime promises to its programs.     *)
(***************************************************************************)
EXTENDS CoroRuntime

(* Where a handle can be waiting to be resumed. *)
InReady(c) == \E i \in DOMAIN ready : ready[i] = c
Asleep(c) == \E s \in sleepys : s.coro = c
InTable(c) == \E fd \in Fds : table[fd] = c
AwaitsChild(c) == \E d \in Coros : parent[d] = c /\ Live(d)

(* An entry of the table the kernel will report for. *)
Watched(c) == \E fd \in Fds : table[fd] = c /\ interest[fd] # "none"

-----------------------------------------------------------------------------
(* Safety *)

(* A handle that any queue of the runtime still holds, or that a live callee
   will queue, is the handle of a suspended coroutine: never of a finished,
   destroyed or running one, which std::coroutine_handle::resume() must not
   be called on. *)
NoStaleWakeup ==
  \A c \in Coros :
    InReady(c) \/ Asleep(c) \/ InTable(c) \/ AwaitsChild(c)
      => frame[c] = "suspended"

(* The wake-ups of a coroutine exclude each other: one queue holds its
   handle, once, or one live callee does.  Otherwise a coroutine would be
   resumed a second time at a point where it waits for something else. *)
NoDoubleWakeup ==
  /\ \A i, j \in DOMAIN ready : ready[i] = ready[j] => i = j
  /\ \A s, t \in sleepys : s.coro = t.coro => s = t
  /\ \A fd, gd \in Fds : table[fd] = table[gd] /\ table[fd] # Nil => fd = gd
  /\ \A d, e \in Coros :
       Live(d) /\ Live(e) /\ parent[d] = parent[e] /\ parent[d] # Nil => d = e
  /\ \A c \in Coros :
       /\ InReady(c) => ~Asleep(c) /\ ~InTable(c) /\ ~AwaitsChild(c)
       /\ Asleep(c) => ~InTable(c) /\ ~AwaitsChild(c)
       /\ InTable(c) => ~AwaitsChild(c)

(* When no two call chains use one socket, a suspended coroutine can always
   still be woken: by the ready queue, a timer, a descriptor the kernel is
   watching, or a callee.  (The table has one entry per descriptor, close()
   does not look at it, and a failed epoll_ctl leaves it alone.) *)
NoLostCoroutine ==
  \A c \in Coros :
    frame[c] = "suspended"
      => InReady(c) \/ Asleep(c) \/ Watched(c) \/ AwaitsChild(c)

(* No edge is lost: if what a registered waiter waits for is possible, the
   kernel has queued the descriptor or poll() has it in its array.  The data
   may have come between the recv that failed and the registration. *)
NoLostEdge ==
  \A fd \in Fds :
    interest[fd] \in level[fd] => fd \in pending \cup events

(* One coroutine at a time runs, exactly in phase "coro". *)
OneRuns ==
  /\ \A c, d \in Coros : frame[c] = "running" /\ frame[d] = "running" => c = d
  /\ (phase = "coro") <=> (\E c \in Coros : frame[c] = "running")

(* run() returns only when every spawned coroutine has finished. *)
RunCompletes ==
  (phase = "main" /\ ready = <<>>) => \A c \in Coros : ~Live(c)

(* The frame of an awaited call outlives the call only until its caller,
   already in the ready queue, goes on.  (The frame of a spawned coroutine is
   never destroyed: see FramesReclaimed.) *)
CalleesReclaimed ==
  \A d \in Coros :
    frame[d] = "final" /\ parent[d] # Nil => InReady(parent[d])

(* No sleep is longer than an int can say in milliseconds.  caculate_time_out
   casts what is left of a longer one to a negative timeout, which to
   epoll_wait means forever: the two properties below would not hold. *)
ShortSleeps == \A d \in Durations : d <= IntMax

(* The thread never blocks in epoll_wait past the deadline of a sleeper, and
   not at all when a coroutine is ready. *)
PollRespectsTimers ==
  phase = "poll" =>
    /\ ready # <<>> => until # Forever /\ until <= clock
    /\ \A s \in sleepys : until # Forever /\ (until <= s.at \/ until <= clock)

(* The thread is deaf to sockets, in sleep_until, for less than one
   millisecond: what the truncation of the epoll_wait timeout left over.
   Without signals; an interrupted epoll_wait is followed by the whole
   sleep. *)
DeafUnderOneMs ==
  phase = "asleep" => until - clock < Gran

-----------------------------------------------------------------------------
(* Action properties *)

(* Sleepers are readied earliest deadline first, and none before its time. *)
TimersInOrder ==
  [][\A s \in sleepys :
        s \notin sleepys' => s.at <= clock /\ \A t \in sleepys' : s.at <= t.at]_vars

(* No spurious wake-up: when a coroutine that waits for a socket is readied,
   the operation it waits for would not block, and stays so until the first
   coroutine runs.  In particular the kernel watches for what the entry in
   the table asks for, not for what an earlier one did. *)
NoSpuriousWakeup ==
  [][\A fd \in Fds :
        table[fd] # Nil /\ table'[fd] = Nil => mask[fd] \in level[fd]]_vars

-----------------------------------------------------------------------------
(* Fairness: the thread is scheduled, time passes, and coroutines cooperate: *)
(* none runs forever without suspending.  epoll's ready list is a queue, so  *)
(* a descriptor that stays reportable is reported.                           *)

PollReports(fd) == PollEvents /\ fd \in events'

Fairness ==
  /\ WF_vars(run)
  /\ WF_vars(LoopStep)
  /\ WF_vars(\E c \in Coros : Yield(c))
  /\ WF_vars(Tick)
  /\ \A fd \in Fds : SF_vars(PollReports(fd))

FairSpec == Spec /\ Fairness

(* The inner loop of __run ends again and again: the program does not keep
   the ready queue busy forever, by calls or spawns without end that never
   sleep or wait.  Otherwise the loop does not even look at timers and
   sockets. *)
LoopTurns == []<>(phase \notin {"resume", "coro"})

(* A sleeping coroutine is resumed. *)
SleeperResumed ==
  LoopTurns => \A c \in Coros : Asleep(c) ~> frame[c] = "running"

(* A coroutine whose socket is ready is resumed. *)
WaiterResumed ==
  LoopTurns =>
    \A c \in Coros, fd \in Fds :
      (table[fd] = c /\ interest[fd] \in level[fd]) ~> frame[c] = "running"

(* A coroutine that may go on, because it was spawned or called, has been
   woken, or its callee has finished, does go on, however busy the others keep
   the ready queue: the queue is first in, first out. *)
ReadyResumed ==
  \A c \in Coros : InReady(c) ~> frame[c] = "running"

-----------------------------------------------------------------------------
(* What comments of the code say and the code does not do. *)

(* scheduler.cpp: the loop of __run goes on while there is a ready coroutine,
   a sleeper or a watcher.  run() would then return to its caller, which is
   the destructor of the Scheduler at exit, when the last coroutine has
   finished. *)
RunReturns == (\A c \in Coros : ~Live(c)) ~> phase = "main"

(* Task.hpp: coroutines are suspended at their end "for the Task clean ups".
   Once run() has returned every finished frame would have been destroyed. *)
FramesReclaimed ==
  phase = "main" => \A c \in Coros : frame[c] # "final"
=============================================================================
