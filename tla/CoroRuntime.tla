----------------------------- MODULE CoroRuntime -----------------------------
(***************************************************************************)
(* The coroutine runtime: Scheduler, IOEventManager and Task composed, and *)
(* driven by an arbitrary program.                                         *)
(*                                                                         *)
(* The loop of Scheduler::__run resumes coroutines; a running coroutine    *)
(* may do, in any order, what the library lets it do: spawn a Task, await  *)
(* a Task, sleep, try to read or write a socket and wait for the event     *)
(* when that would block, close a socket, accept one, and finish.  The     *)
(* clock and the peers of the sockets move at any moment, in particular    *)
(* between a recv that returned EAGAIN and the epoll_ctl that follows.     *)
(***************************************************************************)
EXTENDS Scheduler, IOEventManager, Task

CONSTANTS
  Exclusive,  (* whether a socket passed to a spawned coroutine is given up *)
  Signals     (* whether signals interrupt epoll_wait                       *)

ASSUME ExclusiveAssumption == Exclusive \in BOOLEAN
ASSUME WantAssumption == Nil \notin Fds \X Event
ASSUME SignalsAssumption == Signals \in BOOLEAN

VARIABLES
  want,    (* the WaitForEvent the running coroutine is about to await      *)
  events,  (* the events array of poll(), what is left to process           *)
  holders  (* fd -> the call chains that hold its Socket, by their roots    *)

progVars == <<want, events, holders>>

vars == <<schedVars, ioVars, taskVars, progVars>>

TypeOK ==
  /\ SchedTypeOK /\ IOTypeOK /\ TaskTypeOK
  /\ want \in (Fds \X Event) \cup {Nil}
  /\ events \subseteq Fds
  /\ holders \in [Fds -> SUBSET Coros]

Init ==
  /\ SchedInit /\ IOInit /\ TaskInit
  /\ want = Nil
  /\ events = {}
  /\ holders = [fd \in Fds |-> {}]

-----------------------------------------------------------------------------
(* The thread outside of any coroutine. *)

GoTo(p) == phase' = p

(* The sockets S are arguments of the coroutine d that is spawned. *)
PassSockets(S, d) ==
  holders' = [fd \in Fds |-> IF fd \notin S THEN holders[fd]
                             ELSE IF Exclusive THEN {d} ELSE holders[fd] \cup {d}]

(* Scheduler::spawn of the Task of d, before run(). *)
MainSpawn(d) ==
  /\ phase = "main"
  /\ StartDetached(d)
  /\ internal_spawn(d)
  /\ \E S \in SUBSET {fd \in open : Exclusive => holders[fd] = {}} : PassSockets(S, d)
  /\ UNCHANGED <<phase, sleepys, clock, now, until, ioVars, want, events>>

(* Scheduler::run; the destructor of the Scheduler calls it as well. *)
run ==
  /\ phase = "main"
  /\ GoTo("loop")
  /\ UNCHANGED <<ready, sleepys, clock, now, until, ioVars, taskVars, progVars>>

(* Seeded fault: the condition of the loop does not ask for watchers. *)
LoopTestNoWatchers ==
  /\ phase = "loop"
  /\ IF ready # <<>> \/ sleepys # {} THEN GoTo("resume") ELSE GoTo("main")
  /\ UNCHANGED <<ready, sleepys, clock, now, until, ioVars, taskVars, progVars>>

(* The condition of the loop of __run. *)
LoopTest ==
  /\ phase = "loop"
  /\ IF ready # <<>> \/ sleepys # {} \/ has_watchers
     THEN GoTo("resume") ELSE GoTo("main")
  /\ UNCHANGED <<ready, sleepys, clock, now, until, ioVars, taskVars, progVars>>

(* Seeded fault: the handle is resumed but stays in the queue. *)
ResumeKeepsHandle ==
  /\ phase = "resume" /\ ready # <<>>
  /\ ResumeFrame(Head(ready))
  /\ ready' = ready
  /\ GoTo("coro")
  /\ UNCHANGED <<sleepys, clock, now, until, ioVars, progVars>>

(* Seeded fault: the newest handle is resumed first. *)
ResumeNewest ==
  /\ phase = "resume" /\ ready # <<>>
  /\ ResumeFrame(ready[Len(ready)])
  /\ ready' = SubSeq(ready, 1, Len(ready) - 1)
  /\ GoTo("coro")
  /\ UNCHANGED <<sleepys, clock, now, until, ioVars, progVars>>

(* Inner loop: pop the front handle and resume it. *)
Resume ==
  /\ phase = "resume" /\ ready # <<>>
  /\ ResumeFrame(Head(ready))
  /\ ready' = Tail(ready)
  /\ GoTo("coro")
  /\ UNCHANGED <<sleepys, clock, now, until, ioVars, progVars>>

(* End of the inner loop; the time is read once for all expired sleepers. *)
ResumeDone ==
  /\ phase = "resume" /\ ready = <<>>
  /\ now' = clock
  /\ GoTo("expire")
  /\ UNCHANGED <<ready, sleepys, clock, until, ioVars, taskVars, progVars>>

(* Seeded fault: of all the sleepers that expired together only the last is
   readied. *)
ExpireDropsHandle ==
  /\ phase = "expire"
  /\ \E s \in sleepys :
       /\ IsTop(s) /\ s.at <= now
       /\ IF \E t \in sleepys \ {s} : t.at <= now
          THEN UNCHANGED ready ELSE internal_spawn(s.coro)
       /\ sleepys' = sleepys \ {s}
  /\ UNCHANGED <<phase, clock, now, until, ioVars, taskVars, progVars>>

(* An expired sleeper is moved to the ready queue. *)
Expire ==
  /\ phase = "expire"
  /\ \E s \in sleepys :
       /\ IsTop(s) /\ s.at <= now
       /\ internal_spawn(s.coro)
       /\ sleepys' = sleepys \ {s}
  /\ UNCHANGED <<phase, clock, now, until, ioVars, taskVars, progVars>>

ExpireDone ==
  /\ phase = "expire"
  /\ \A s \in sleepys : s.at > now
  /\ now' = 0
  /\ GoTo("timeout")
  /\ UNCHANGED <<ready, sleepys, clock, until, ioVars, taskVars, progVars>>

(* The call of poll(): the thread is in epoll_wait until the deadline. *)
EnterPoll ==
  /\ phase = "timeout"
  /\ caculate_time_out
  /\ GoTo("poll")
  /\ UNCHANGED <<ready, sleepys, clock, now, ioVars, taskVars, progVars>>

(* epoll_wait returns events. *)
PollEvents ==
  /\ phase = "poll"
  /\ \E E \in SUBSET Reportable : EpollWait(E) /\ events' = E
  /\ until' = Forever
  /\ GoTo("deliver")
  /\ UNCHANGED <<ready, sleepys, clock, now, table, mask, taskVars, want, holders>>

(* epoll_wait returns 0 at its deadline. *)
PollTimeout ==
  /\ phase = "poll"
  /\ until # Forever /\ clock >= until
  /\ Reportable = {}
  /\ until' = Forever
  /\ GoTo("deliver")
  /\ UNCHANGED <<ready, sleepys, clock, now, ioVars, taskVars, progVars>>

(* epoll_wait fails with EINTR: poll() returns without any handle. *)
PollInterrupted ==
  /\ Signals
  /\ phase = "poll"
  /\ Reportable = {}
  /\ until' = Forever
  /\ GoTo("deliver")
  /\ UNCHANGED <<ready, sleepys, clock, now, ioVars, taskVars, progVars>>

(* Seeded fault: the last event of a full array is skipped. *)
DeliverSkipsEvent ==
  /\ phase = "deliver"
  /\ \E fd \in events :
       /\ TakeWaiter(fd)
       /\ events' = events \ {fd}
       /\ IF Cardinality(events) < MaxEvents /\ table[fd] # Nil
          THEN internal_spawn(table[fd])
          ELSE UNCHANGED ready
  /\ UNCHANGED <<phase, sleepys, clock, now, until, taskVars, want, holders>>

(* Seeded fault: the waiter is looked up, not erased. *)
DeliverKeepsEntry ==
  /\ phase = "deliver"
  /\ \E fd \in events :
       /\ events' = events \ {fd}
       /\ IF table[fd] # Nil THEN internal_spawn(table[fd]) ELSE UNCHANGED ready
  /\ UNCHANGED <<phase, sleepys, clock, now, until, ioVars, taskVars, want, holders>>

(* poll() processes one event; its handle goes through out_handles into the
   ready queue, which nothing else touches in between. *)
Deliver ==
  /\ phase = "deliver"
  /\ \E fd \in events :
       /\ TakeWaiter(fd)
       /\ events' = events \ {fd}
       /\ IF table[fd] # Nil THEN internal_spawn(table[fd]) ELSE UNCHANGED ready
  /\ UNCHANGED <<phase, sleepys, clock, now, until, taskVars, want, holders>>

DeliverDone ==
  /\ phase = "deliver" /\ events = {}
  /\ EndOfIteration
  /\ UNCHANGED <<ready, sleepys, clock, now, ioVars, taskVars, progVars>>

(* std::this_thread::sleep_until returns. *)
AwakeThread ==
  /\ phase = "asleep" /\ clock >= until
  /\ until' = Forever
  /\ GoTo("loop")
  /\ UNCHANGED <<ready, sleepys, clock, now, ioVars, taskVars, progVars>>

-----------------------------------------------------------------------------
(* The running coroutine c. *)

Running(c) == phase = "coro" /\ frame[c] = "running"

(* c runs and is not between a failed recv, send or accept and its co_await. *)
Free(c) == Running(c) /\ want = Nil

(* A call passes the sockets of the caller on to the callee. *)
MayUse(c, fd) == root[c] \in holders[fd]

(* Scheduler::spawn(f(sockets)) *)
Spawn(c, d) ==
  /\ Free(c)
  /\ StartDetached(d)
  /\ internal_spawn(d)
  /\ \E S \in SUBSET {fd \in Fds : MayUse(c, fd)} : PassSockets(S, d)
  /\ UNCHANGED <<phase, sleepys, clock, now, until, ioVars, want, events>>

(* Seeded fault: the awaiting coroutine is queued together with its callee. *)
AwaitTaskQueuesBoth(c, d) ==
  /\ Free(c)
  /\ StartAwaited(c, d)
  /\ ready' = ready \o <<d, c>>
  /\ GoTo("resume")
  /\ UNCHANGED <<sleepys, clock, now, until, ioVars, progVars>>

(* co_await f() *)
AwaitTask(c, d) ==
  /\ Free(c)
  /\ StartAwaited(c, d)
  /\ internal_spawn(d)
  /\ GoTo("resume")
  /\ UNCHANGED <<sleepys, clock, now, until, ioVars, progVars>>

(* co_await sleep(d) *)
AwaitSleep(c, d) ==
  /\ Free(c)
  /\ Suspend(c)
  /\ sleep_until(c, d)
  /\ GoTo("resume")
  /\ UNCHANGED <<ready, clock, now, until, ioVars, progVars>>

(* recv, send or accept4 succeeds and uses up what was there. *)
OpSucceeds(c, fd, ev) ==
  /\ Free(c) /\ MayUse(c, fd)
  /\ Drain(fd, ev)
  /\ UNCHANGED <<schedVars, taskVars, progVars>>

(* recv, send or accept4 fails with EAGAIN. *)
OpWouldBlock(c, fd, ev) ==
  /\ Free(c) /\ MayUse(c, fd)
  /\ fd \in open /\ ev \notin level[fd]
  /\ want' = <<fd, ev>>
  /\ UNCHANGED <<schedVars, ioVars, taskVars, events, holders>>

(* co_await await_io_event(fd, ev), after EAGAIN. *)
AwaitEvent(c, fd, ev) ==
  /\ Running(c) /\ want = <<fd, ev>>
  /\ add_waiter(fd, ev, c)
  /\ Suspend(c)
  /\ want' = Nil
  /\ GoTo("resume")
  /\ UNCHANGED <<ready, sleepys, clock, now, until, events, holders>>

(* add_waiter throws out of await_suspend: c is running again. *)
AwaitEventThrows(c, fd, ev) ==
  /\ Running(c) /\ want = <<fd, ev>>
  /\ add_waiter_throws(fd, ev)
  /\ want' = Nil
  /\ UNCHANGED <<schedVars, taskVars, events, holders>>

(* CoroClientSocket::close: the Socket its holders share is invalid. *)
Close(c, fd) ==
  /\ Free(c) /\ MayUse(c, fd)
  /\ CloseFd(fd)
  /\ holders' = [holders EXCEPT ![fd] = {}]
  /\ UNCHANGED <<schedVars, taskVars, want, events>>

(* accept4 on the listening socket lfd returns a connection with number fd;
   others may be waiting: OpSucceeds on lfd, if it was the last. *)
Accept(c, lfd, fd) ==
  /\ Free(c) /\ MayUse(c, lfd)
  /\ "read" \in level[lfd]
  /\ ReuseFd(fd)
  /\ holders' = [holders EXCEPT ![fd] = {root[c]}]
  /\ UNCHANGED <<schedVars, taskVars, want, events>>

(* Seeded fault: the final awaiter forgets the awaiting coroutine. *)
FinishForgetsParent(c) ==
  /\ Free(c)
  /\ FinalSuspend(c)
  /\ UNCHANGED ready
  /\ GoTo("resume")
  /\ UNCHANGED <<sleepys, clock, now, until, ioVars, progVars>>

(* Seeded fault: the final awaiter does not test the handle of the awaiting
   coroutine before it queues it. *)
FinishQueuesNull(c) ==
  /\ Free(c)
  /\ FinalSuspend(c)
  /\ internal_spawn(parent[c])
  /\ GoTo("resume")
  /\ UNCHANGED <<sleepys, clock, now, until, ioVars, progVars>>

(* The end of the body: final_suspend queues the parent, if there is one. *)
Finish(c) ==
  /\ Free(c)
  /\ FinalSuspend(c)
  /\ IF parent[c] # Nil THEN internal_spawn(parent[c]) ELSE UNCHANGED ready
  /\ GoTo("resume")
  /\ UNCHANGED <<sleepys, clock, now, until, ioVars, progVars>>

-----------------------------------------------------------------------------
(* The world outside of the thread. *)

Tick ==
  /\ clock < MaxTime
  /\ clock' = clock + 1
  /\ UNCHANGED <<phase, ready, sleepys, now, until, ioVars, taskVars, progVars>>

PeerActs(fd, ev) ==
  /\ Arrive(fd, ev)
  /\ UNCHANGED <<schedVars, taskVars, progVars>>

-----------------------------------------------------------------------------
LoopStep ==
  \/ LoopTest \/ Resume \/ ResumeDone \/ Expire \/ ExpireDone \/ EnterPoll
  \/ PollEvents \/ PollTimeout \/ Deliver
  \/ DeliverDone \/ AwakeThread

(* The running coroutine gives the thread back. *)
Yield(c) ==
  \/ \E d \in Coros : AwaitTask(c, d)
  \/ \E d \in Durations : AwaitSleep(c, d)
  \/ \E fd \in Fds, ev \in Event : AwaitEvent(c, fd, ev)
  \/ Finish(c)

CoroStep(c) ==
  \/ Yield(c)
  \/ \E d \in Coros : Spawn(c, d)
  \/ \E fd \in Fds, ev \in Event :
       \/ OpSucceeds(c, fd, ev)
       \/ OpWouldBlock(c, fd, ev)
       \/ AwaitEventThrows(c, fd, ev)
  \/ \E fd \in Fds : Close(c, fd)
  \/ \E lfd, fd \in Fds : Accept(c, lfd, fd)

Environment ==
  \/ Tick
  \/ PollInterrupted
  \/ \E fd \in Fds, ev \in Event : PeerActs(fd, ev)

Next ==
  \/ \E d \in Coros : MainSpawn(d)
  \/ run
  \/ LoopStep
  \/ \E c \in Coros : CoroStep(c)
  \/ Environment

Spec == Init /\ [][Next]_vars
=============================================================================
