------------------------------ MODULE Scheduler ------------------------------
(***************************************************************************)
(* The scheduler: platform/coro_platform/scheduler.{hpp,cpp}.              *)
(*                                                                         *)
(* The one thread of the program is either in the caller of run() (phase   *)
(* "main"), at one of the stages of the loop of __run(), or inside the     *)
(* coroutine that the loop resumed (phase "coro").                         *)
(*                                                                         *)
(* Time is counted in ticks finer than the millisecond of epoll_wait, as   *)
(* the steady clock is.                                                    *)
(***************************************************************************)
EXTENDS CoroHandle, Integers, Sequences

CONSTANTS
  Durations,  (* the arguments of sleep(), in milliseconds                  *)
  Gran,       (* ticks of the steady clock in a millisecond                 *)
  IntMax,     (* largest int: 2^31 - 1 in the builds the code targets       *)
  MaxTime     (* bound: the clock stops there, nothing sleeps past it       *)

ASSUME SchedulerAssumption ==
  /\ Durations \subseteq Nat
  /\ Gran \in Nat \ {0}
  /\ IntMax \in Nat
  /\ MaxTime \in Nat

VARIABLES
  phase,    (* where the thread is                                          *)
  ready,    (* ready_coroutines                                             *)
  sleepys,  (* the priority queue, as the set of its SleepItems             *)
  clock,    (* steady_clock::now()                                          *)
  now,      (* the local now of __run, 0 out of its scope                   *)
  until     (* end of the blocking call the thread is in, or Forever        *)

schedVars == <<phase, ready, sleepys, clock, now, until>>

Forever == -1

Phase == {"main", "loop", "resume", "coro", "expire", "timeout", "poll",
          "deliver", "asleep"}

SleepItem == [at : Nat, coro : Coros]

SchedTypeOK ==
  /\ phase \in Phase
  /\ ready \in Seq(Coros)
  /\ sleepys \subseteq SleepItem
  /\ clock \in Nat
  /\ now \in Nat
  /\ until \in Nat \cup {Forever}

SchedInit ==
  /\ phase = "main"
  /\ ready = <<>>
  /\ sleepys = {}
  /\ clock = 0
  /\ now = 0
  /\ until = Forever

-----------------------------------------------------------------------------
(* internal_spawn *)
internal_spawn(h) == ready' = Append(ready, h)

(* Seeded fault: the order of SleepItem is not reversed, the priority queue
   has the latest item on top. *)
IsLatest(s) == s \in sleepys /\ \A t \in sleepys : t.at <= s.at

(* s may be sleepys.top(): operator< is reversed, the earliest is on top. *)
IsTop(s) == s \in sleepys /\ \A t \in sleepys : s.at <= t.at

(* sleep(d) and the co_await of its AwaitableSleep by h. *)
sleep_until(h, d) ==
  /\ clock + d * Gran <= MaxTime
  /\ sleepys' = sleepys \cup {[at |-> clock + d * Gran, coro |-> h]}

(* The cast of a long long to int. *)
ToInt(x) == ((x + IntMax + 1) % (2 * (IntMax + 1))) - (IntMax + 1)

AtLeast0(x) == IF x > 0 THEN x ELSE 0

(* Seeded fault: the remaining time is not divided down to milliseconds but
   rounded up and one more added. *)
SleepTimeoutTooLong(at) == ToInt(AtLeast0((at - clock) \div Gran) + 1)

(* Seeded fault: one millisecond too few. *)
SleepTimeoutTooShort(at) == ToInt(AtLeast0((at - clock) \div Gran - 1))

(* The timeout in ms that caculate_time_out derives from the next sleeper:
   truncated to whole milliseconds, not below 0, cast to int. *)
SleepTimeout(at) == ToInt(AtLeast0((at - clock) \div Gran))

(* epoll_wait with a negative timeout blocks until an event. *)
PollUntil(ms) == IF ms < 0 THEN Forever ELSE clock + ms * Gran

(* Seeded fault: a ready coroutine does not make poll() non-blocking. *)
TimeoutIgnoresReady ==
  \/ /\ sleepys = {} /\ until' = PollUntil(-1)
  \/ \E s \in sleepys : IsTop(s) /\ until' = PollUntil(SleepTimeout(s.at))

(* caculate_time_out, and the call of epoll_wait with its result. *)
caculate_time_out ==
  \/ /\ ready # <<>> /\ until' = PollUntil(0)
  \/ /\ ready = <<>> /\ sleepys = {} /\ until' = PollUntil(-1)
  \/ /\ ready = <<>>
     /\ \E s \in sleepys : IsTop(s) /\ until' = PollUntil(SleepTimeout(s.at))

(* The end of an iteration of __run: with sleepers and nothing ready the
   thread sleeps until the first deadline, else it starts over. *)
EndOfIteration ==
  \/ /\ ready = <<>>
     /\ \E s \in sleepys : IsTop(s) /\ until' = s.at
     /\ phase' = "asleep"
  \/ /\ ready # <<>> \/ sleepys = {}
     /\ until' = Forever
     /\ phase' = "loop"
=============================================================================
