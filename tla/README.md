# CCNetUtilities: a verification project

TLA+ models of the coroutine network library CCNetUtilities, model-checked
with TLC and proved with TLAPS. Paths below are relative to the repository.

The library is a single-threaded coroutine runtime over Linux epoll (platform/),
coroutine sockets and an HTTP/1.1 reader and writer on top of it (library/),
and two example servers (example/).

## 1. Inventory

| part | state it keeps | operations | talks to |
|---|---|---|---|
| Scheduler (scheduler.hpp, scheduler.cpp) | `ready_coroutines` (queue of handles), `sleepys` (priority queue of deadline and handle) | `spawn`, `internal_spawn`, `sleep`, `run`/`__run`, `~Scheduler` | resumes coroutines; calls `IOEventManager::poll` |
| Task (Task.hpp) | one coroutine handle; in the promise `parent_coroutine` and `cached_value` | creation, `co_await`, `final_suspend`, `~Task`, move | queues callees and parents in the scheduler |
| IOEventManager (IOEventMonitor.h, IOEventMonitor.cpp) | `table`: descriptor to mask and handle; the epoll instance | `add_waiter`, `remove_waiter` (never called), `poll`, `has_watchers` | epoll_ctl, epoll_wait |
| Coroutine sockets (coro_sys_socket.\*, coro_helper.\*) | descriptor, peer address | `async_read`, `async_write`, `accept`, `__accept_loop`, `run_server`, `close` | `add_waiter` through `WaitForEvent` |
| Sockets (sys_socket.\*) | descriptor, heap-allocated peer address | `read`, `write`, `listen`, `accept`, `close`, moves, destructor | the kernel |
| HttpReader (coro_http_reader.\*) | `accum_`, the bytes received so far | `read_request`: head, then body by length or chunks | `async_read` |
| HttpWriter (coro_http_writer.\*) | none | `write_response`, plain or chunked | `async_write` |
| Request and headers (http_request.cpp, http_headers.hpp, json_to_http.cpp, ...) | the parsed request | constructor, `consume_form_body`; query, multipart and JSON parsers | none |
| Connection handler (coro_http_example.cpp) | the socket | keep-alive loop over reader and writer | reader, writer |
| Echo server (coro_echo.cpp) | the server socket; a socket for each handler | `main`, `handle_client` | accept loop, `async_read`, `async_write` |

What is hard about it:

* *Interleaving.* There is one thread, but the kernel, the peers and the clock
  move between any two of its system calls: data may come between the `recv`
  that returned EAGAIN and the `epoll_ctl` that registers the descriptor, and
  registration is edge-triggered.
* *Handles in several hands.* The same `coroutine_handle` may sit in the ready
  queue, the timer queue, the table of waiters, or the promise of a callee.
  Resuming it twice, too early, or after its frame has gone is undefined
  behaviour and no queue knows of the others.
* *Descriptor numbers.* `close` does not tell the reactor, and the kernel
  reuses the number at once. Two coroutines may wait for the same descriptor.
* *Time.* The deadline is in nanoseconds, the timeout of `epoll_wait` in whole
  milliseconds as an `int`, and a second wait, `sleep_until`, fills the rest.
* *Failure.* `epoll_ctl` fails inside `await_suspend`, `accept4` inside the
  accept loop; every exception that leaves a coroutine is swallowed by
  `unhandled_exception`, and its caller goes on with a `cached_value` that was
  never set: a null socket, or any number of bytes. `send` takes any part of a buffer, and a peer that has
  gone kills the process unless SIGPIPE is ignored.
* *Ownership.* A descriptor number is reused as soon as it is closed; socket
  objects are moved, closed and destroyed in any order; the peer address is a
  raw pointer that a move copies and `close` deletes.

What makes each part correct:

* *Scheduler and Task*: a handle is queued only while its coroutine is
  suspended, once, and as long as the coroutine is suspended something can
  still queue it; a caller is resumed once, after its callee; the frame of a
  call outlives the call no longer than needed; `run` returns when and only
  when everything is done; timers fire in order, not early, and the thread does
  not oversleep one.
* *IOEventManager*: no edge is lost; no waiter is woken for an event it does
  not wait for.
* *Coroutine sockets*: `async_write` sends every byte once and in order until a
  call fails; the accept loop survives a failed accept and gives each connection
  one handler; a connection that is over is closed.
* *Sockets*: a valid descriptor is open and nobody else's, none is lost, and a
  peer address is deleted once.
* *Requests*: what the parser says is what the head and body were made from:
  no header line is lost or put into another header, queries, parts and JSON
  members come back, a head beyond the limit is refused.
* *HttpReader*: a request is delivered complete, or cut short only by a failure;
  no byte is part of two requests; the limits hold.
* *HttpWriter*: whole responses are written, in order, and until the first write
  that fails the peer receives a prefix of them.
* *Connection handler*: requests are answered in order, none twice.

## 2. Modules

| module | models |
|---|---|
| `CoroHandle` | the constants every module of the runtime shares |
| `Task` | life cycle, parent and reclamation of coroutine frames |
| `IOEventManager` | the table of waiters, `add_waiter`, `poll`, and the epoll behaviour they rely on |
| `Scheduler` | the queues, the clock, the computation of the timeout |
| `CoroRuntime` | the three composed: one action for every stage of `__run` and every operation of a running coroutine |
| `CoroRuntimeProperties` | invariants, action properties, fairness, liveness |
| `CoroContract` | abstract specification: what a program may rely on |
| `CoroRuntimeRefinement` | the refinement mapping from the runtime to the contract |
| `MCCoroRuntime` | instances of the runtime for TLC |
| `CoroRuntimeProofs`, `CoroRefinementProofs` | the proofs |
| `ClientStream` | the bytes of one client connection and what `async_read` makes of them |
| `HttpReader` | `read_request` with `read_until_double_crlf`, `read_exact`, `decode_chunked_body` |
| `HttpWriter` | `write_response`, chunked or not |
| `HttpConnection` | `handle_connection`, the keep-alive loop over reader and writer, and its client |
| `HttpContract` | abstract specification: what a well-behaved client may rely on |
| `HttpProperties` | invariants, liveness, and the mapping to the contract |
| `MCHttpConnection` | the requests of the instances for TLC |
| `HttpProofs` | the proofs about the connection |
| `SysSocket` | who owns descriptors and peer addresses: listen, accept, close, moves, destructors |
| `CoroSocket` | the accept loop, `async_read` and `async_write` of the coroutine sockets over connections of `SysSocket` |
| `CoroHelper` | the same as free functions over plain sockets, where they differ |
| `EchoServer` | `main`, `handle_client` and the clients, composed with the sockets |
| `EchoContract` | abstract specification: what a client of the echo server may rely on |
| `EchoProperties` | invariants, action properties, liveness, and the mapping to the contract |
| `MCSysSocket`, `MCEchoServer` | instances for TLC |
| `SocketProofs` | the proofs about the ownership of descriptors and addresses |
| `EchoProofs` | the proofs about the echo server |
| `RequestHead` | the loop over the header lines |
| `FormParser` | the parsers of queries, multipart bodies and JSON, as functions |
| `HttpRequest` | the constructor of `Request` and `consume_form_body` |
| `RequestProperties` | what a parsed request says of the one that was sent |
| `MCHttpRequest` | the requests that are tried by TLC |
| `RequestProofs` | the proofs about the header loop |
| `FormProofs`, `JsonProofs` | the proofs about the parsers |

The parts meet at `async_read` and `async_write`. In `CoroRuntime` they are
what an arbitrary coroutine does between two suspensions; in `CoroSocket` they
are steps of one system call each, with every result it can have, those
included that `co_await` gives after the wait has thrown; in the HTTP modules
they are a stream and a sequence of writes, which fail likewise. In the last two a connection
is a sequential process that goes on when its socket lets it, which is what
`WaiterResumed` and `ReadyResumed` say of the runtime. `HttpRequest` refines
the fields `ok`, framing and keep-alive that a request has in `ClientStream`.

### State of the runtime

| variable | code |
|---|---|
| `phase` | where the thread is: the caller of `run` ("main"), a stage of `__run`, blocked in epoll_wait ("poll") or `sleep_until` ("asleep"), inside `resume()` ("coro") |
| `ready`, `sleepys` | `ready_coroutines`; `sleepys` as a set of items, `IsTop` picks one that may be on top |
| `clock`, `now`, `until` | the steady clock; the local `now` of `__run`; the end of the blocking call the thread is in |
| `table`, `mask` | `Waiter::handle` and `Waiter::events` of `IOEventManager::table` |
| `open`, `level`, `interest`, `pending` | the kernel: open descriptors, the operations that would not block, the registration, the ready list |
| `frame`, `parent` | the life cycle of a frame; `promise_type::parent_coroutine` |
| `root`, `depth` | ghosts: the spawned coroutine a frame was called from, and how many calls deep |
| `holders` | which call chains have a `shared_ptr` to the socket: the accepting one, and those it was passed to by `spawn`; nobody once it is closed |
| `want`, `events` | the `WaitForEvent` about to be awaited; the rest of the `events` array of `poll` |

The program that runs on the library is arbitrary: a running coroutine may
spawn, await a call, sleep, attempt an operation on a socket and wait for the
event if it would block, close, accept, or finish, in any order. `async_read`,
`async_write` and `__async_accept` are instances: loops of `OpWouldBlock`,
`AwaitEvent` and `OpSucceeds`.

### State of a connection

| variable | code |
|---|---|
| `wire` | what the client sends: its requests, laid out in the stream |
| `sent`, `fin`, `gone` | the bytes that have arrived; the client has closed; the connection was reset |
| `taken` | the bytes `recv` has returned |
| `pc` | the co_await the connection is at: `head` in read_until_double_crlf, `exact` in read_exact, `size`, `data` and `last` in the three loops of decode_chunked_body, `handle` and `write` in handle_connection, then `closing`, `closed`; `foul` after a read that has received nothing has returned a positive size |
| `start`, `taken` | `accum_` holds the bytes in between |
| `cur` | the request whose head the reader has parsed |
| `body`, `chunk` | `req.body`, or `out` of the decoder; the chunk the decoder is at |
| `todo`, `output` | the writes of the response still to come; history: those that `async_write` was called for |
| `intact` | history: how many of these the kernel took whole, up to the first it did not |
| `failed` | history: a read of this body has failed with the client still there |
| `served` | history: the requests handed to the handler, with their bodies and `failed` |

A byte is its position in the stream, and a body a set of positions, so that a
property can tell the bytes of one request from those of another, and from the
frames of chunks. What is known of the bytes is where the parts of each request
are. `wire` ranges over a constant set, `Wires`, whose members are laid out as
requests are (`WiresAssumption`).

### State of sockets and of the echo server

| variable | code |
|---|---|
| `class`, `fd`, `handle` | the class of the object at a place, "none" before its constructor and after its destructor; `socket_fd`; `client_handle` |
| `open`, `listening`, `heap` | the kernel's descriptors and the allocated blocks |
| `exposed` | ghost: the addresses that `ClientSocket::close` has deleted without resetting the pointer, or that a move has copied |
| `loop`, `result` | where `__accept_loop` is, and what `__async_accept` gave it |
| `peer`, `input`, `room` | the other end: its state, the bytes that have arrived from it, what the kernel still takes for it |
| `taken`, `output`, `buffer` | what `recv` has returned, what `send` has taken, and the arguments and `sent` of `async_write` |
| `failed` | ghost: how often a call on each socket has failed with the connection fine |
| `pc` | where `handle_client` is |
| `api`, `alive` | which interface the program uses; what has ended the process |

### State of a request

| variable | code |
|---|---|
| `lines`, `pos` | the header block as lines; how many `consume_line` has returned |
| `headers` | `Headers::items`: for each name the lines its value was joined from |
| `last_key`, `header_count` | the locals of the loop; `last_key` is the empty string after a move |
| `stage` | the next statement, or the exception that was thrown |
| `from_url_params`, `from_form`, `isKeepAlive` | the members |
| `start`, `form_body` | the start line and the body, with what they were made from |

### Abstractions of the runtime

* The deadlines of `sleepys` with equal times come in any order, as those of a
  binary heap do.
* Computing the timeout and entering epoll_wait is one step: the clock read by
  `caculate_time_out` and the start of the kernel's wait are the same instant.
* `EPOLLHUP` and `EPOLLERR`, which the kernel always reports, appear as both
  operations becoming possible: neither `recv` nor `send` blocks after them.
* A Task is a temporary of the co_await expression or goes straight to `spawn`,
  as everywhere in the repository.
* `co_return` and an exception end a coroutine in the same way (that is what
  `unhandled_exception` does); results are not modelled in the runtime.
* A frame whose memory has been freed may be used again by a later call.
* `recv` and `send` exhaust what is possible in one step; a shorter transfer
  leaves the level as it was and is a stuttering step.

### Abstractions of a connection

* Heads end with an empty line, and so does the end of a chunked body: a reader
  that starts in the middle of a request finds the first of those. What it then
  parses is refused (`HeadRejected`): no body or header value reads like the start
  of a request. This is an assumption about the data, on which `ServedInOrder`
  and `BodiesArePrefixes` rest where pipelined requests are cut; the code does
  not see to it.
* What the parser of heads makes of one is three fields of the request: whether
  it is accepted, its framing, and keep-alive. Chunk extensions and trailers,
  which the code skips or leaves, are not there.
* `async_read` returns all that is there, up to the block; the client decides
  how much is there. On a connection that has gone it fails after what had
  arrived has been read. With `Failing` it may fail at any time (`NoBytes`): an
  error of `recv`, or the exception of a wait that `epoll_ctl` has refused
  (coro_sys_socket.cpp:70), which the promise swallows and which leaves the caller
  an indeterminate `ssize_t`. Not positive, that is the end of the stream to all
  three stages of the reader.
* Positive, it is a size (`ReadStale`): what the buffer, or the memory behind it,
  happened to hold becomes part of the request. From there (`foul`) the bytes
  that count are in nobody's stream; the model lets any request be served with
  any body (`Misread`), and the properties about what is served say nothing of
  such a connection (`Clean`). They hold up to that step.
* `async_write` succeeds as a whole, or fails with a part sent or nothing: because
  the connection was reset or, with `Failing`, on one that is fine (ENOBUFS, or a
  refused wait, coro_sys_socket.cpp:91), where the caller sees -1 or, again,
  any number (`WriteFails`, `WriteMiscounts`). A positive one makes
  `write_nonchunked` go on at a wrong place of the response, or read behind
  it; that counts as part of the piece.
* The exceptions of read_request and of what it awaits end in
  `unhandled_exception`. The indeterminate `bool` that read_until_double_crlf
  leaves makes no difference: without an end of the head read_request returns
  `nullopt` either way.
* Whether a response is chunked depends on the path, or, for an echo, on
  `cfg.read_block` of a `cfg` that has been moved from and whose owner has
  returned: either way of writing is possible for every request. `MaxHeader`,
  `MaxBody` and `ReadBlock` stand for whatever limits the reader was given.

### Abstractions of sockets and of the echo server

* A call that would block has no step: the wait is the business of
  `CoroRuntime`. `recv` returns all that is there up to the size of the buffer,
  and the peer decides how much is there; `send` takes any part that fits.
* The bytes of a connection are numbered in the order in which they are to be
  sent: 1 to `Welcome` for the welcome, then the echo. So `output` tells
  whether a byte was sent twice, left out or in the wrong place.
* A reset may overtake bytes that have arrived, for `recv` and for the accept
  queue alike.
* Deleting an address twice is undefined; the model goes on as if nothing had
  happened, and `AddressesOwned` names the only operations that lead to it.
* The two bytes that begin with "q" are a choice whenever two bytes are read.
* Any call on a socket may fail although the connection is fine, up to
  `MaxFaults` times (`CallFails`): `accept4`, `recv` or `send` for want of memory
  or the like, and `epoll_ctl` in the wait after EAGAIN. The promise swallows the
  exception, and the handler goes on with what was never set: `async_read` may
  give a size with nothing received (`BeginStale`: the handler echoes what was
  in its buffer), `async_write` ends with part of the buffer sent, and
  `__async_accept` yields a null socket.
* A handler that was spawned has its first turn before `__async_accept` is called
  again, as the ready queue is one (`Starting`). `dump_self` of a null socket
  in that turn ends the process; the loop does nothing in between, so the model
  lets `Spawn` end it (`NullHandler`).
* `accept4` takes a descriptor before it looks whether anybody has connected:
  with the table full it fails with an empty backlog too (`AcceptThrows`).
* The helpers do not listen: the program may forget to, and `accept` then
  throws for ever.

### Abstractions of a request

* A header line is its first character (blank or not), its trimmed lower-case
  name and a value. Names and values are few: those the code compares with, the
  empty name and a line without a colon.
* A text is a sequence of tokens: in queries the separators, escaped separators,
  "+", an escape without digits and text; in multipart bodies the delimiter,
  "--", CR LF, `name="k"`, `filename="k"` and text. What a parser finds by `find`
  and `substr` is the same in both. Percent signs in the last two characters,
  which are not decoded, and delimiters that are part of a value are not there.
* JSON is a value, not a text. Names of members are sequences of parts between
  dots, so that names with dots can collide with nested ones. The order of the
  values of different keys, which a map does not keep, is not looked at.
* A body of another kind than its content-type says has nothing its parser finds.

## 3. Runs

The runs of the runtime are on `MCCoroRuntime`, those of the connection on
`MCHttpConnection`; the sockets, the echo server and requests have an MC module
each. In the runtime three coroutines are what it takes for a caller, a
callee and a stranger that competes for queue, timers and sockets; reclaimed
frames are reused, so that there is no bound on the number of calls.

| run | instance | shows |
|---|---|---|
| `runtime` | 3 coroutines, 2 descriptors, an events array of 1, signals, clock to 2 | all safety invariants, and that the runtime implements `CoroContract` |
| `shared` | 3 coroutines, 1 descriptor that chains share (`Exclusive = FALSE`), durations 0, 1, 2 ms, 3 ticks to the millisecond, clock to 8 ticks, no signals | no wake-up is spurious, although entries are replaced; the thread does not oversleep a timer, is deaf for less than a millisecond, and fires timers in order |
| `liveness` | 3 coroutines, 1 socket, signals, fairness | sleepers, waiters whose socket is ready, and queued coroutines are resumed, the last ones even while two others call each other for ever |
| `hang` | 2 coroutines, fairness | **violated**: `run` returns after the last coroutine has finished |
| `leak` | 2 coroutines | **violated**: spawned frames are destroyed |
| `http_served` | 2 requests of 6 kinds, all within the limits; the client waits for each response and closes only between requests; fairness | the connection implements `HttpContract`: requests reach the handler whole and in order however they are cut, and each is answered |
| `http_any` | 2 requests of 9 kinds; the client pipelines, closes and resets anywhere, exceeds every limit; reads, writes and waits fail at any time (`Failing`) | nothing is served twice or with bytes of something else, a body is cut short only if the client has gone or a read of it failed, bodies with a framing are bounded, whole responses are written and the client can read them up to the first write that failed |
| `http_eof` | 1 chunked request, whose client closes early, fairness | **violated**: the connection ends when the client has gone |
| `sockets` | 3 objects of any class, 3 descriptors, 3 addresses | every valid socket has an open descriptor to itself, a valid server listens, addresses are deleted once unless a close or a move left them behind, only move assignment loses a descriptor |
| `echo` | both interfaces, 2 clients of which one sends a byte, 4 descriptors of which one may be taken, a welcome of 2 bytes, room for 1; a call on the listener and one on the silent client may fail; fairness | the server implements `EchoContract`, each connection has one handler with its own descriptor, which it closes, a null socket needs a failed call, a table in use or a server that does not listen, clients are accepted, connections that are over are closed |
| `request` | all heads of up to 4 of 7 kinds of header lines with `MAX_LINE` 4, queries of up to 2 fields, multipart bodies of up to 2 parts, JSON objects of depth 2; 12 combinations of content-types | no header line is lost or misplaced, the limit on lines is exact, close is obeyed, and queries, parts and members are given back |
| `headers_folded` | heads of up to 3 lines | **violated**: a continuation line belongs to the header before it |

Bounds, all in guards or constants:

* `MaxTime`: the clock stops there, and no sleep goes beyond it. Deadlines are
  only compared with each other and with the clock, so what matters is that two
  sleepers can have equal and different deadlines that pass between any two
  steps.
* `MaxEvents` is 64 in the code and 1 in the runs, so that a full array occurs
  with two descriptors.
* `IntMax` is 7, above all durations: what the cast does beyond it is in
  section 5. `Gran` is 1 where truncation plays no part.
* `Signals = FALSE` where the question is about time: a signal during
  epoll_wait makes the code sleep through the rest of the wait (section 5).
* In the connection a block is 3 bytes, so that a head, a size line, a chunk or a
  body takes several reads and one read reaches across two of them. `MaxHeader`
  is 6: the shortest head has 5 bytes, and 7, one more than the limit, is the
  longest that is always accepted, as the limit is looked at between reads.
  `MaxBody` is 2; the kinds of request include bodies of 0 to 3 bytes, chunks
  whose sum is 2 and 3, no chunk but the last, a head of 10 bytes, one the parser
  refuses, and a size line without digits. Two requests are the shortest sequence
  in which bytes of one could reach another. `MaxPieces` bounds the chunks of a
  response; chunks are alike, so two show what may follow a chunk.

* In the echo server a welcome of 2 bytes and room for 1 make every send partial.
  Two clients are the fewest that can be confused with each other. The one that
  sends a byte has a sound network, so that the echo of input is under test
  throughout; a call on the other and one on the listener may fail
  (`MaxFaults`). One failed call on a connection shows all that can come of it:
  the half-sent welcome, a size with nothing received and the buffer of 2 that is
  then echoed. Four descriptors, one of which may be taken (`Held`), hold the
  listener and both clients; with the taken one, or one lost by `listen`, the
  table is full when two are being served, and it is not when one of two has been
  closed, which is what `NullNeedsFullTable` tells apart.
* With three objects and three descriptors a number can be closed by one object
  and come back in another while a third still has it.
* `MAX_LINE` is 4 instead of 10000, and heads have up to 4 lines, so that both
  sides of the limit occur. 4 lines are what it takes for a repeated header with a
  continuation and a line of another header between them.
* Queries of 2 fields with values of up to 2 tokens have a second "=" and a "="
  behind the next "&"; values of parts have up to 2 tokens, hence an empty line;
  objects have up to 2 members at each of 2 levels, so that "a.b" can be a
  member and a path.

The safety runs of the runtime use the symmetry of coroutines and descriptors:
nothing in the program orders either. The runs with liveness do not.

`CHECK_DEADLOCK FALSE` in the runs of the connection and of the echo server,
where a closed connection stops, of requests, which are parsed once, and in the runs without signals: when everything is done and
the clock has stopped, the thread is blocked in epoll_wait with nothing
registered. The model has no other deadlock: with `Signals = TRUE`, which lets
epoll_wait return in that state, deadlock is checked.

### Fairness

`FairSpec` assumes that the host program calls `run` (it does, at the latest in
the destructor of the Scheduler); that the thread is scheduled (weak fairness of
the steps of `__run`, without the signals); that a running coroutine suspends or
finishes some time (cooperative scheduling gives no other guarantee); that the
clock ticks up to its bound; and that a descriptor reported again and again by
epoll_wait is not passed over for ever (strong fairness: the kernel's ready list
is a queue).

`SleeperResumed` and `WaiterResumed` also assume `LoopTurns`, that the inner
loop of `__run` ends again and again. The code does not guarantee it: that
loop drains the ready queue before it looks at timers and sockets, so
coroutines that spawn or call each other without end starve everything else.
`ReadyResumed` needs no such assumption, as the queue is first in, first out.

`FairHttpSpec` assumes that the server's coroutine takes its next step when one
is possible, by the argument above. Nothing is assumed of the client.

`FairEchoSpec` assumes the same of `main` with the accept loop (`Server`) and of
each handler (weak fairness: what a coroutine waits for stays until it takes it,
or its connection is reset, which also lets it go on). No call has to fail
(`Fault` has no fairness), and nothing is assumed of clients,
so `GoneIsClosed` excepts a client that closes its side while it does not read.
`AllAccepted` and `GoneIsClosed` end with the process: `listen` may throw in
`main`, SIGPIPE may kill it, and so may a null socket.

## 4. Proofs

Of the runtime, for every set of coroutines and descriptors, every size of the events array,
every clock resolution and every set of durations:

| theorem | says | rests on |
|---|---|---|
| `TypeCorrect` | `Spec => []TypeOK` | inductive by itself; lemmas on the arithmetic of the timeout |
| `WakeupsAreFresh`, `WakeupsExclusive`, `RunsOneAtATime`, `FramesHaveOwners` | `NoStaleWakeup`, `NoDoubleWakeup`, `OneRuns`, `CalleesReclaimed` | `WakeInv` |
| `EdgesAreKept`, `WakeupsAreTrue` | `NoLostEdge`, `NoSpuriousWakeup` | `ReactorInv` |
| `TimersFireInOrder` | `TimersInOrder` | `NowInv`: the time read once for a batch is not in the future |
| `PollEndsInTime` | `ShortSleeps`: `PollRespectsTimers` | `TimerInv` |
| `DeafForLessThanAMs` | `ShortSleeps` without `Signals`: `DeafUnderOneMs` | `ReactorInv`, `TimerInv`, `DeafInv` |
| `NothingIsLost` | `Exclusive`: `NoLostCoroutine` | `ChainInv` |
| `RunReturnsLast` | `Exclusive`: `RunCompletes` | `DepthInv`, `MainInv` |
| `RuntimeImplementsContract` | `Exclusive`: `Spec => ImplementsContract` | all of the above |

The constant `Exclusive` says that a coroutine gives up the sockets it passes to
one it spawns, as `__accept_loop` does with those it accepted. A socket then has
one call chain at a time, and the number of a closed descriptor may come back as
the socket of another. `NoLostCoroutine` is false without it, because a second
waiter replaces the first. The other theorems do not need it.

*WakeInv.* None of the four properties is inductive alone: that a handle popped
from the ready queue is suspended needs `NoStaleWakeup`, that it is nowhere
afterwards needs `NoDoubleWakeup`, that nothing else runs needs `OneRuns`, and
that the callee destroyed with the step is in no queue needs
`CalleesReclaimed`, together with the fact that an unused frame has no parent.

*ReactorInv* adds to the types that a registered descriptor has a table entry
with the same mask (`TableInv`) and that the events in poll's array still hold
(`EventsInv`): the thread executes no coroutine between epoll_wait and the last
event, so nothing can take the data away.

*TimerInv* says that no deadline is more than the longest sleep away, so that
the number of milliseconds fits an `int` (`TimeoutFits`). This is where
`ShortSleeps` is needed: no duration is longer than `IntMax` milliseconds, beyond
which the cast wraps and the thread blocks without end (section 5).
`MCCoroRuntime` has TLC evaluate the hypothesis. The rest is division: truncation
never rounds up, and loses less than a millisecond.

*DeafInv.* The thread sleeps only after epoll_wait has run into its timeout, at
which time some deadline was less than a millisecond away; for if it delivers an
event, *ReactorInv* has an entry of the table for it, hence a coroutine becomes
ready and the timeout computed next is 0. A signal breaks this, as the code then
sleeps to the deadline without having waited in epoll_wait.

*ChainInv.* That no wake-up is lost needs to know that an entry of the table is
overwritten only by its owner's call chain, of which one coroutine, the leaf,
can run at all. The ghost `root` identifies the chain: `ChainShape` says a chain
has one leaf, `ChainUses` that an open socket has at most one chain, a closed one
none, and that the one who waits for a socket belongs to its chain (hence no
entry outlives its descriptor: who closes a socket runs, so does not wait),
`AllQueued` that a leaf that does not run is in a queue.

*DepthInv* adds the ghost `depth`, which takes the place of an induction over
the chain: depths within a chain differ and grow by one from caller to callee,
so each chain with a live coroutine has a deepest one, and that is its leaf. When
the three containers are empty and nothing runs there is no leaf, hence nothing
live (`EmptyMeansDone`): the loop may end.

*The refinement* maps a frame to its status in the contract by where its handle
is. Each action of the runtime is one step of the contract (`LaunchStep`,
`DispatchStep`, `WaitStep`, `WakeUpStep`, `CallStep`, `FinishStep`) or leaves its
variables alone (`Unseen`), and `LoopTest` is `Leave` or a stutter.

Of the connection (`HttpProofs`), for all requests laid out as `WiresAssumption`
says, all limits and all clients:

| theorem | says | rests on |
|---|---|---|
| `HttpTypeCorrect` | `HttpSpec => []HttpTypeOK` | `CoreInv` |
| `PrefixesServed`, `BoundedBodies` | `BodiesArePrefixes`, `BodiesBounded` | `CoreInv`, `BodyInv`, `ServedInv` |
| `BoundedHeaders` | `HeadersBounded` | `BodyInv` |
| `OrderKept` | `ServedInOrder` | `CoreInv`, `OrderInv` |
| `WholeBodies` | `BodiesWhole` | `CoreInv`, `BodyInv`, `WholeInv` |
| `FramesWritten` | `OutputInFrames` | `CoreInv`, `OrderInv`, `FrameInv` |
| `HttpImplementsContract` | `WellBehaved`: `HttpSpec => ImplementsHttp` | all of the above, `PoliteInv` |

*CoreInv* adds to the types what the reader relies on between two reads: `cur` is
the request that begins where `accum_` does, its head has arrived, and the stage
the reader is at fits its framing. That a terminator in `accum_` ends this head
and no other needs that requests do not overlap.

*BodyInv* says what has been collected so far: between head and `taken` for a
length, the data of the chunks before `chunk` for the decoder. Neither
`BodiesArePrefixes` nor `BodiesBounded` is inductive without it. The size of what
the decoder appends is bounded by the test that follows, not by its own.

*OrderInv*: the heads of what was served lie before `start`, so the next request
whose head is parsed is a later one. A truncated body does no harm here: the
next reader begins behind the head all the same.

The invariants of what is served and of what is written are shown while `Clean`
holds: `foul` is never left, so before it no step is `ReadStale` or `Misread`
(`CleanSteps`).

*WholeInv* says the same of the body in hand as `BodiesWhole` of those served,
and that the decoder reaches its last stage only at the last chunk. That
`read_exact` gives up only when the client has gone or a read has failed, which
`failed` then says of this body and of no other, is the step; that the data of
all chunks but the last is the whole body is `DecodedWhole`.

*FrameInv.* What has been written is in frames only because of what is still to
come: `Remainder` says that `todo` is the rest of a response, `MayFollow` that it
may come after what was written last, and all of it belongs to the request served
last, while those before have had theirs. Failures do not disturb this, because a
piece is in `output` once `async_write` was called for it: what a failed write
does to `todo` is to drop it after a head or leave it, and that a response may end
with its head only where `intact` has stopped (`EndsAt`) is kept since `intact`
stops for good at the first failure. That two responses do not mingle needs
*OrderInv*, as the same request is not served twice.

*PoliteInv* is about clients that are `WellBehaved`: all they may send is within
the limits, they wait for the response (no `Pipelining`), they do not leave within
a request (no `Breaks`), and no call fails with the connection fine (no `Failing`). `SentInv` says how far such a client has come, which
depends on the number of replies, `TurnInv` that the n-th reader begins at the
n-th boundary between requests. The two need each other: the reader would leave
bytes of the next request behind if the client had sent them, and the client sends
nothing more because the reader has not answered. The mapping takes each step of the
connection to one of `HttpContract` or to a stutter. TLC evaluates the hypothesis
in `http_served`.

Of the sockets (`SocketProofs`), for any number of objects, descriptors and
addresses:

| theorem | says | rests on |
|---|---|---|
| `SocketTypeCorrect` | `SocketSpec => []SocketTypeOK` | inductive by itself |
| `DescriptorsHaveOwners`, `AddressesHaveOwners` | `DescriptorsOwned`, `AddressesOwned` | `SocketInv` |
| `DescriptorsKept` | `NoClientDescriptorLost` | `SocketInv` |

*SocketInv* is the conjunction of the four invariants. That the server which
listens keeps its descriptor when another object closes needs that the two have
different ones; that a new descriptor or block is nobody's needs that those of
all objects are open, or allocated, which for addresses holds of those that are
not `exposed`.

Of the echo server (`EchoProofs`), for any number of clients, descriptors and
addresses, any length of the welcome, any size of the buffers, and either
interface:

| theorem | says | rests on |
|---|---|---|
| `EchoTypeCorrect` | `EchoSpec => []EchoTypeOK` | `SocketInv`, `LoopTyped`, `StreamTyped` |
| `HandlersAreUnique` | `OneHandlerEach` | `HandlersInv` |
| `HandlersKeepSockets` | `HandlersOwnSockets` | `HandlersInv`, `SocketInv` |
| `NullSocketsExplained` | `NullNeedsFullTable` | `HandlersInv`, `SocketInv` |
| `ServerImplementsEcho` | `EchoSpec => ImplementsEcho` | `BytesInv`, `HandlersInv` |

Each step of the server is a step of `SysSocket` on its sockets (`SocketSteps`),
which is what brings *SocketInv* along. *HandlersInv* adds to `OneHandlerEach`
that the connection in the promise of `__async_accept` has no handler yet, and
that every connection from `accept` to the end of its handler has a descriptor
and an address of its own; that the descriptor is open and nobody else's
follows from *SocketInv*. *BytesInv* is about connections that are `Sound`: not reset, and no call on them
has failed. It says that `output` is 1, 2, 3 and so on and how far it has come: to
`from + sent` inside `async_write`, whose buffer ends at `Welcome + taken`, and to
`Welcome + taken` when recv is called, since the loop in `async_write` is left
only with all sent or with an error. `NullSocketsExplained` is about the step in
which `__async_accept` comes back: if it is because no descriptor is free, all of
the finite set `Fds` are open, and each belongs to the listener, to a handler that
runs (a connection whose handler has ended has none, by *HandlersInv*) or to
nobody (`FullTable`); and no two handlers share one (`ServingFinite`), so that the
numbers add up. The mapping of
`ServerImplementsEcho` takes a send to *Say*, a recv to *Hear*, a reset or a call
that fails to *Break*, a send after that to *Slip*, and leaves all other steps to
stutter.

Of requests (`RequestProofs`, `FormProofs`, `JsonProofs`), for any set of header
names, values and heads and any limit:

| theorem | says | rests on |
|---|---|---|
| `RequestTypeCorrect` | `RequestSpec => []RequestTypeOK` | `HeadInv`, `StageInv` |
| `NoLineLost` | `HeaderLinesKept` | `HeadInv` |
| `LinesLimited` | `LineLimit` | `HeadInv`, `StageInv` |
| `CloseIsObeyed` | `CloseObeyed` | `HeadInv`, `StageInv` |
| `FieldsAreParsed` | `QueriesFrom(T)`: `QueryParsed` | `FormInv`, `FieldsBack` |
| `PartsAreParsed` | `PartsFrom(T, K)`: `PartsParsed` | `FormInv`, `PartsBack` |
| `MembersAreFlattened` | `JsonFrom(depth, D)`: `JsonFlattened` | `FormInv`, `MembersBack` |

*HeadInv* adds to `HeaderLinesKept` that the lines joined in a header have been
read, so that the next one is new to all of them, and that `last_key` is empty or
the name of a header. *StageInv* ties `header_count` to `pos`
and `isKeepAlive` to the headers at the end of the loop.

*FormInv* says that what was parsed is what the parsers return for the texts of
the request; a body is parsed as what its header says because `HeaderLinesKept`
leaves no header line out. The hypotheses `QueriesFrom` and `PartsFrom` say that
the texts are made of fields or parts, of tokens from any set and of any number
and length; they hold of every query. `JsonFrom` says that JSON values have
members and items in sequences and that objects are not nested deeper than some
`D`, any number. `MCHttpRequest` has TLC evaluate all three.

*FieldsBack* and *PartsBack* are about the parsers alone. These are recursive
functions of a position, and what they return is proved by induction over
positions. As the induction theorems of the library take an operator, which the
provers cannot instantiate, it is done with sets: one that has 0, and n + 1
with n, has all of `Nat` (`SetInduction`, since the successor maps a finite initial
part of it into itself and so onto itself). `Unfolded` shows that the functions
exist, `Layout` where each piece of a flattened sequence is, `FieldSplit` and `PartAhead`
what the parser finds at the beginning of a field or part, and the rest goes
from the last piece to the first.

*MembersBack* compares two recursive functions over objects, `json_to_multimap`
and the reference `Leaves`. Both exist and unfold (`ObjectsExist`,
`ObjectsUnfold`), by induction over the depth. `IsFlattened`, what is shown of
each object, is more than the property says: for every prefix the pairs
`Matches` the texts of the leaves, that is, correspond to them one to one. Equal
pairs of different members, which dotted names make, count as often as they occur
only because of this. `FlattenedAt` puts the correspondence of an object together
from those of its members (`MatchBelow`, `MatchLeaf`, `MatchFlatten`); that the
leaves of different members differ is what the numbers in their paths are for.

Only model-checked: the liveness properties, which are beyond the prover. Every
invariant and every action property of the passing runs is a theorem.

## 5. Findings

* **`run()` does not return** (run `hang`, scheduler.cpp:40). The loop condition
  is tested before coroutines are resumed, and epoll_wait is called after: when
  the last coroutine finishes with no sleeper and no watcher, the timeout is -1
  and nothing is registered. A signal whose handler returns ends the wait and,
  with it, the loop.
* **Frames of spawned coroutines are never destroyed** (run `leak`,
  scheduler.hpp:141, Task.hpp:53).
* **A client that leaves within a chunked body leaves the server in a loop** (run
  `http_eof`, coro_http_reader.cpp:55): read_more throws at the end of the
  stream, the exception is swallowed, and the decoder calls read_more again. No
  step of the loop waits, so by the starvation below nothing else is served.
* **Continuation lines are not folded after the first line of a header** (run
  `headers_folded`, http_request.cpp:276): `key` is moved into the map and read
  afterwards, so `last_key` is empty. The continuation is dropped, or becomes a
  header of its own if it has a colon. `HeaderLinesKept` says what holds.

Found while modelling, and not checked by a run:

* A sleep of more than 2^31 - 1 ms becomes a negative timeout in the cast to int,
  that is, epoll_wait without end if nothing else happens (scheduler.cpp:14).
* An `epoll_ctl` that fails in a wait (IOEventMonitor.cpp:46) ends `async_read`,
  `async_write` or `__async_accept` with an exception that their promises swallow
  (Task.hpp:65), and `co_await` gives the caller `cached_value` (Task.hpp:43,81),
  which was never set: a null socket, or an indeterminate number of bytes. The
  echo server then leaves out what was not sent, or echoes a buffer nobody has
  filled; the HTTP reader takes bytes nobody has sent for a part of the request,
  or delivers a truncated body although the client is still there; the writer
  goes on, possibly from a wrong place. `ImplementsEcho`, `BodiesWhole` and
  `OutputInFrames` say how far these things reach.
* `write_chunked` ignores the results of its writes (coro_http_writer.cpp:38-44):
  after a `send` that failed on a connection that is fine (ENOBUFS) it writes the
  data and the terminator all the same, and the client reads frames that do not
  add up. `handle_client` of the echo server does not look at the result of
  `async_write` either (coro_echo.cpp:13,25), and bytes are missing from the echo.
* `max_body_bytes`, "max body size we'll accept in-memory"
  (http_server_config.h:18, likewise :63), does not bound bodies without
  content-length or chunks: all that was received with the head is the body, up
  to `max_header_bytes` and a block (coro_http_reader.cpp:154). Nor does it bound
  the memory of the decoder, which holds a whole chunk of any size before it
  compares anything with the limit (coro_http_reader.cpp:89). `BodiesBounded` says
  what holds: bodies with a framing are within the limit when they are delivered.
* `max_header_lines = 200`, "max number of header lines" (http_server_config.h:16,
  and "Sets the maximum number of header lines allowed.", line 47), is read by
  nothing; nor is `default_keep_alive_http11` (line 20). The limit is
  `RequestParseLimitations::MAX_LINE`, 10000 (http_request.h:15), so heads of 200
  to 9999 lines are accepted. `LineLimit` states the limit of the code.
* A body whose connection closes early is handled as if it were complete: the
  exception of `read_exact` ends in its own promise, and `read_request` cannot
  tell (coro_http_reader.cpp:29). For the same reason chunks that cannot be
  decoded give a request with an empty body. `BodiesWhole` says what holds.
* A second request that came with the first is dropped with the reader
  (coro_http_reader.cpp:112, coro_http_example.cpp:33).
* A failed `setsockopt`, `bind` or `listen` loses the descriptor (`ListenFails`,
  sys_socket.cpp:122).
* `ClientSocket::close` and the moves leave a pointer that the destructor deletes
  once more (sys_socket.cpp:72); move assignment loses the descriptor of the
  target (line 22), and `ServerSocket::operator=` does not move one at all
  (line 101).
* A failed `accept4` gives the callback a null socket, once per attempt and
  without a wait in between (coro_sys_socket.cpp:45). As the kernel takes a
  descriptor first, a server whose connections use up the table gets one, and
  the echo server crashes on it, without anybody having connected.
* `send` raises SIGPIPE (`WriteKills`, sys_socket.cpp:61).
* The multipart boundary is all of the rest of the header: with a parameter
  behind it the form is empty, and no error is reported (http_request.cpp:121).
* "special-case Set-Cookie" (http_request.cpp:272) is a comment without code;
  requests have no such header.

Of one more behaviour no document of the repository says otherwise: a chunked
response announces keep-alive to a client that asked for close and is then
closed (coro_http_writer.cpp:27). `OutputInFrames` states what holds in spite of
it: nothing follows a response that announces close.

Two more behaviours are assumptions of the properties instead of findings, as
no document of the repository says otherwise: the ready queue starves timers and
sockets (`LoopTurns`), and after a signal in epoll_wait the thread sleeps to the
next deadline without looking at sockets (`DeafUnderOneMs` without `Signals`).

## 6. Not modelled

* `remove_waiter`: nothing calls it. Failures of epoll_create1 and of epoll_wait
  other than EINTR.
* Moving a Task onto another, awaiting one twice, dropping one that never ran:
  the repository does none of them, and the type system allows all.
* The value of a Task in the runtime. What a caller makes of a swallowed
  exception is in `HttpReader`, `HttpWriter` and `CoroSocket`; what a connection
  does after memory that was never received has been parsed is not
  (`Misread`).
* `Sync::Sync`: no code of the repository asks for blocking sockets.
* The characters of heads, queries and forms: trimming, case, hexadecimal digits,
  the byte order mark of JSON.
* Response formatting, status texts, configuration and exception classes, address
  texts: layout, without state.
* The tests in src/test, which are programs of their own.

## 7. Plan

Modelled and checked: all components that have state. Proved: every invariant,
action property and refinement of the passing runs. Next:

1. For the runtime: Task values, a Task that is dropped or awaited twice.
2. A mapping from the stages of a handler in `CoroSocket` to the operations of a
   coroutine in `CoroRuntime`, so that liveness of the echo server rests on that
   of the runtime instead of on fairness of its own.
