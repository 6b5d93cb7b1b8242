--------------------------- MODULE IOEventManager ---------------------------
(***************************************************************************)
(* The epoll reactor: platform/coro_platform/IOEventMonitor.{h,cpp}, with  *)
(* the part of the kernel it relies on.                                    *)
(*                                                                         *)
(* table and mask are IOEventManager::table: one Waiter per descriptor,    *)
(* its handle and its events.  The other four variables are the kernel's:  *)
(* what the calls to epoll_ctl, epoll_wait, accept4, recv, send and close  *)
(* in the repository require of epoll in edge-triggered mode.              *)
(***************************************************************************)
EXTENDS CoroHandle, FiniteSets, Naturals

CONSTANTS
  Fds,       (* descriptor numbers                                          *)
  MaxEvents  (* MAX_EVENTS of poll(): 64 in the code                        *)

ASSUME MaxEventsAssumption == MaxEvents \in Nat \ {0}

VARIABLES
  table,     (* fd -> Waiter::handle, Nil when fd has no entry              *)
  mask,      (* fd -> Waiter::events, "none" when fd has no entry           *)
  open,      (* kernel: the descriptors that are open                       *)
  level,     (* kernel: fd -> the operations that would not block           *)
  interest,  (* kernel: fd -> registered event, "none" if not registered    *)
  pending    (* kernel: ready list of the epoll instance                    *)

ioVars == <<table, mask, open, level, interest, pending>>
kernelVars == <<open, level, interest, pending>>

(* IOEventManager::Event *)
Event == {"read", "write"}

IOTypeOK ==
  /\ table \in [Fds -> Coros \cup {Nil}]
  /\ mask \in [Fds -> Event \cup {"none"}]
  /\ open \subseteq Fds
  /\ level \in [Fds -> SUBSET Event]
  /\ interest \in [Fds -> Event \cup {"none"}]
  /\ pending \subseteq Fds

IOInit ==
  /\ table = [fd \in Fds |-> Nil]
  /\ mask = [fd \in Fds |-> "none"]
  /\ open = Fds
  /\ level \in [Fds -> SUBSET Event]
  /\ interest = [fd \in Fds |-> "none"]
  /\ pending = {}

has_watchers == \E fd \in Fds : table[fd] # Nil

-----------------------------------------------------------------------------
(* The kernel. *)

(* EPOLL_CTL_ADD and EPOLL_CTL_MOD both look at the current state of the
   descriptor: an operation that is already possible is queued at once. *)
Arm(fd, ev) ==
  /\ interest' = [interest EXCEPT ![fd] = ev]
  /\ pending' = IF ev \in level[fd] THEN pending \cup {fd} ELSE pending \ {fd}
  /\ UNCHANGED <<open, level>>

EpollCtlAdd(fd, ev) == interest[fd] = "none" /\ Arm(fd, ev)

(* The code issues MOD only after ADD failed with EEXIST. *)
EpollCtlMod(fd, ev) == interest[fd] # "none" /\ Arm(fd, ev)

(* Descriptors epoll_wait may report: queued, and the event still holds. *)
Reportable == {fd \in pending : interest[fd] \in level[fd]}

(* epoll_wait returns the events E: all there are, up to the array's size. *)
EpollWait(E) ==
  /\ E \subseteq Reportable
  /\ E # {}
  /\ Cardinality(E) <= MaxEvents
  /\ Cardinality(E) = MaxEvents \/ E = Reportable
  /\ pending' = pending \ E
  /\ UNCHANGED <<open, level, interest>>

(* Data, buffer space, a connection or a hang-up arrives: an edge. *)
Arrive(fd, ev) ==
  /\ fd \in open
  /\ level' = [level EXCEPT ![fd] = @ \cup {ev}]
  /\ pending' = IF interest[fd] = ev THEN pending \cup {fd} ELSE pending
  /\ UNCHANGED <<table, mask, open, interest>>

(* recv or send succeeds and exhausts what was available. *)
Drain(fd, ev) ==
  /\ fd \in open /\ ev \in level[fd]
  /\ level' = [level EXCEPT ![fd] = @ \ {ev}]
  /\ UNCHANGED <<table, mask, open, interest, pending>>

(* close(fd): the kernel forgets the registration, table keeps its entry. *)
CloseFd(fd) ==
  /\ fd \in open
  /\ open' = open \ {fd}
  /\ interest' = [interest EXCEPT ![fd] = "none"]
  /\ pending' = pending \ {fd}
  /\ level' = [level EXCEPT ![fd] = {}]
  /\ UNCHANGED <<table, mask>>

(* accept4 gives the number of a closed descriptor to a new connection. *)
ReuseFd(fd) ==
  /\ fd \notin open
  /\ open' = open \cup {fd}
  /\ level' = [level EXCEPT ![fd] = {"write"}]
  /\ UNCHANGED <<table, mask, interest, pending>>

-----------------------------------------------------------------------------
(* IOEventManager. *)

(* Seeded fault: a second waiter does not go through MOD after EEXIST, the
   table is updated all the same. *)
AddWaiterSkipsMod(fd, ev, h) ==
  /\ \/ EpollCtlAdd(fd, ev)
     \/ interest[fd] # "none" /\ UNCHANGED kernelVars
  /\ table' = [table EXCEPT ![fd] = h]
  /\ mask' = [mask EXCEPT ![fd] = ev]

(* add_waiter: ADD, or MOD after EEXIST; then the entry is replaced. *)
add_waiter(fd, ev, h) ==
  /\ EpollCtlAdd(fd, ev) \/ EpollCtlMod(fd, ev)
  /\ table' = [table EXCEPT ![fd] = h]
  /\ mask' = [mask EXCEPT ![fd] = ev]

(* add_waiter when epoll_ctl fails (ENOMEM, ENOSPC): it throws before it has
   touched the table. *)
add_waiter_throws(fd, ev) == UNCHANGED ioVars

(* One iteration of the loop of poll() over the reported events: the entry
   is erased and the descriptor deregistered; the handle is the caller's. *)
TakeWaiter(fd) ==
  IF table[fd] # Nil
  THEN /\ table' = [table EXCEPT ![fd] = Nil]
       /\ mask' = [mask EXCEPT ![fd] = "none"]
       /\ interest' = [interest EXCEPT ![fd] = "none"]
       /\ pending' = pending \ {fd}
       /\ UNCHANGED <<open, level>>
  ELSE UNCHANGED ioVars
=============================================================================
