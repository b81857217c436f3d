# Verification of the echo servers

TLA+ models, TLC runs and TLAPS proofs for the programs of this repository. The
repository is a course on Linux system programming: chapters 01-12 demonstrate single
calls (stdio, files, processes), 13-18 threads, pipes, System V IPC and blocking sockets,
19-21 the select, poll and epoll servers, and 22 and 23 are the two complete programs, a
concurrent echo server in C and its successor in C++. The C++ server (chapter 23) is
where the concurrency is, and the project starts there; the C server with its clients, the
echo servers of chapters 19 to 21, the two servers of chapter 17 that serve more than one
client, and the threads of chapters 14 and 16 that hand something over follow.

Paths below are relative to `src/`; `23/` stands for `23_Linux高并发服务器_C++版本/`, `22/` for
`22_Linux高并发服务器/`.

## Inventory

### The C++ server (23/)

| part | state | operations | talks to |
|---|---|---|---|
| main thread, `Server` (`server.cpp`, `main.cpp`) | `_stop`, `_event_fd`, `_conn_fds`, an epoll set of the listening socket (edge-triggered) and the eventfd | `run`, `stop` (from a signal handler), `~Server` | accepts, then `NotifyNewConns`; at the end `StopIOThread`, join |
| `EventLoop` (`event_loop.cpp`) | the IO threads | `NotifyNewConns`, `StopIOThread`, `~EventLoop` | pushes tasks to IO thread `fd % n`, then one wakeup for each thread concerned |
| `IOThread` (`io_thread.cpp`) | `_tasks` under `_task_mtx`, `_event_fd`, `_stop`, `_sessions`, an epoll set | `loop`, `deal_enque_task`, the read and write handlers, `clear_fd` | its own queue (a reply is a task to itself), its connections |
| `Session`, `DataBuf`, `HeadBuf` (`session.cpp`) | `_recv_stage`, the head and body being received, `_send_que` | `Send`, `send_data` | the owner thread only |
| `ConfigMgr`, `Defer`, `echo_client.py` | configuration | | not modelled |

Three kinds of actor touch the state: the main thread, the IO threads and a signal
handler that may interrupt any of them. They share the task queues, the eventfds, the
stop flags and, through the kernel, the descriptor table. What is hard:

- *hand-over and wakeup*: a batch is pushed before it is rung, the count is cleared before
  the queue is swapped, and a thread posts to itself;
- *edge triggering*: accept, read and write have to go on to EAGAIN, and the interest in
  EPOLLOUT follows the send queue;
- *partial I/O*: any read or write may take any part of what it is offered;
- *shutdown*: a flag and a task stop the same thread, a handler may come before `run`;
- *descriptor reuse*: numbers name connections in events, tasks and Sessions, and a number
  that was closed comes back with the next accept;
- *resource limits*: EMFILE, the event array, thread_num.

`PROJECT.json` lists each hazard at its line with the properties that guard it.

### The C server (22/)

| part | state | operations | talks to |
|---|---|---|---|
| `main.c` | `stop_server`, `session_map`, a level-triggered listening socket, edge-triggered connections, an event array that grows once | the loop, accept, the read state machine written into it, `net_error`, `handle_signal`, the cleanup | calls the two below |
| `server.c` | `session_t` with its buffers, `send_que_t`, a linked list of send nodes | `session_create`, `async_send`, `handle_epollout`, `enqueue_node`, `session_destroy` | frees what main, the map and the list may still name |
| `hash_map.c` | chained buckets that double | put, get, remove, for string and for integer keys; destroy | one caller |
| `client.c`, `client2.c` | a socket, the line or round at hand | send a line, `read_full` the answer, show it | the server, in lock step |

One thread, so the locks of the queue never wait. What is hard is the lifetime of nodes and
sessions over partial writes and errors, the two notions of what epoll is told (the mask
of the event at hand, the mask registered), a signal at any point, and, in the map, the
doubling between looking for a key and linking its entry. A session, its descriptor, its entry
in the map and its place in epoll's set have to go together although allocations fail and one of
the three ways to close forgets two of them. The clients trust lengths of 16 bits.

### The demos

| part | state | what is hard |
|---|---|---|
| condition-variable ring (`14_线程间通信/练习条件变量实现生产者消费者问题.c`) | a ring with `in` and `out`, a mutex, two condition variables | lost signals, spurious wakeups, the place that stays free, wrapping |
| select server with send queues (`19_Select模型/发送优化.c`) | a table of clients by slot, each with a queue; blocking `select`, non-blocking sockets | slots, numbers and queues go together over ends in the middle of a pass; numbers reused by accept; partial sends |
| blocking and non-blocking select servers (`19_Select模型/阻塞模式select 模型TCP服务器.c`, `非阻塞+select模型.c`), poll server (20), the two epoll servers (21) | a table of clients, or none | how one goes through what select, poll or epoll reports; edges; clients of one batch in each other's way; what a full socket or a full table costs |
| semaphore programs (`14_线程间通信/信号量同步练习.c`, `严格同步练习.c`; `16_ System V IPC/练习.c`, `利用信号量集合实现生产者消费者.c`) | a place, or a ring of five, and one or two semaphores | the order of put, post and test; who may touch the place meanwhile; how the program ends |
| servers of chapter 17 (`17_TCP/多线程TCP阻塞服务.c`, `轮询服务端.c`) | `new_socket`, a number for each thread | the number's way from main to its thread; one client in the others' way |
| everything else of 01-18 | | single calls; see `PROJECT.json` |

## Modules

| module | models | checked by | proved in |
|---|---|---|---|
| `EventLoop` | the threads, queues, eventfds, the signal and the shutdown (23/) | `EventLoop.cfg`, `EventLoopLive.cfg` | `EventLoopProofs` |
| `TaskMailbox` | what the queues promise: a first-in first-out mailbox for each thread | as property `MailboxSpec` | `EventLoopProofs` (safety) |
| `Wire` | one TCP connection as a server's system calls see it, with its client; extended by the next two | with them | `WireProofs` (lemmas) |
| `Session` | one connection of the C++ server, system call by system call | `Session.cfg` | `SessionProofs` |
| `CServer` | one connection of the C server, system call by system call | `CServer.cfg`, `CServerFreed.cfg` | `CServerProofs` |
| `CTable` | all connections of the C server: numbers, the session map, events, accept, cleanup | `HashMap.cfg` | `TableProofs` |
| `EchoClient` | the clients of the C server, against what it promises | `CServer.cfg` | `CServerProofs` |
| `Clients` | the clients of an echo server with their connections; extended by the next two | with them | |
| `SelectServer` | the select server with send queues | `SelectServer.cfg` | `TableProofs` |
| `EchoLoops` | the five echo servers without send queues (19, 20, 21) | `EchoLoops.cfg` | `EchoLoopsProofs` |
| `ThreadServer` | the blocking servers of chapter 17, a thread for each client or one client after the other | `CondRing.cfg` | |
| `EchoService` | what a server promises a client | as property `EchoSpec` of `Session`, `CServer` and `SelectServer` | safety, in their proofs |
| `FdReuse` | who has a descriptor number in the C++ server | `FdReuse.cfg`, `FdReuseTouch.cfg` | `FdReuseProofs` |
| `HashMap` | `hash_map.c` | `HashMap.cfg`, `HashMapMixed.cfg` | `TableProofs` |
| `KeyedMap` | what a map promises | as property `MapSpec` | `TableProofs` |
| `CondRing` | the ring buffer under a mutex and two condition variables | `CondRing.cfg` | `RingProofs` |
| `SemBuffers` | the four semaphore programs (14, 16) | `CondRing.cfg` | `RingProofs` |
| `MC...` | the instances for TLC | | |

Three of the runs check more than one module each: their MC module (`MCCProgram`, `MCSessionMap`,
`MCRings`) has a variable `running`, which says whose behaviour it is, with the fairness of
that module; the others stay where they start. What belongs together for a reader is then in
one run, and nothing of the one restricts the others.

The three models of the IO thread share its control skeleton and differ in the data they
keep: `EventLoop` keeps whole requests, several threads and no reuse; `Session` one
connection with its bytes; `FdReuse` one thread and only the ownership of numbers. What one
of them leaves out is what another is about. Within a module the operators named
`Mutant: ...` in their comment are slips a change to the code could introduce; each is
substituted for the action that follows it to make sure that a property notices.

### EventLoop: state and actions

- `mpc` walks through `run` (`check`, `wait`, `event`, `accept`, `push`, `wake`), then
  `~Server` (`stopFlag`, `stopPush`, `stopWake`) and `~EventLoop` (`join`, `done`). `ipc[t]`
  walks through `loop` and `deal_enque_task`. Every access to something another thread
  may touch (a push under the lock, a write of an eventfd, a flag, the swap, a system call)
  is an action of its own; what is thread-local goes with the access before it.
- The eventfds are Booleans (a nonzero count); epoll is level-triggered for them.
  `listenEdge` and `edge[fd]` are the edges that epoll has not reported.
- A `SendData` write is whole here: partial writes are the subject of `Session`.
- `Deliver(p)` starts the handler on thread `p` and suspends it; an interrupted `epoll_wait`
  returns EINTR.
- accept fails in three ways (`AcceptFails`): EAGAIN, the queue being empty; EMFILE, the process
  holding `FdLimit` connections, which is when `Accept` is not possible; and at any time another
  error (ENFILE, ENOMEM, ECONNABORTED). All leave the accept loop. `leftBehind` is history: the
  last loop ended so with a connection in the queue and the edge used up, and no client has
  connected since.
- The server never closes its end but in `clear_fd`; at shutdown the descriptors of open
  connections are left to the process's exit, which is why `Custody` speaks of them still.

### Wire

- A byte is its position in the stream of requests, so a correct echo is `1, 2, 3, ...`.
  `ParseLen` reads a head that is really one; `Frame` writes the bytes of a reply.
- `ready` is the connection's place on epoll's ready list: set by an arriving byte or end,
  by room after a full buffer (`noSpace`), and by `epoll_ctl` MOD if the connection is ready
  for the new interest; cleared by `epoll_wait`.
- `peer` is what the client has done to the connection: `fin`, `reset` (an error that a
  system call reports once), or `abort`, the reset that answers bytes sent after its close:
  the next write raises SIGPIPE. Neither server ignores that signal, so the process ends
  (`alive` in `Session`, `fate = "sigpipe"` in `CServer`).

### Session: state and actions

- `read` returns the smaller of what is asked for and what has arrived; `write` any positive
  part of what fits. `SendTask` is `deal_enque_task` and the beginning of `send_data`; the
  `SENDING` tests of both callers are always false in one thread and are left out.

### CServer: state and actions

- `pc` walks through main's loop (`check`, `wait`, `event`, `read`), `async_send` (`direct`: the
  queue was empty and it writes at once; `queue`: it enqueues) and `handle_epollout` (`out`,
  `drain`). The signal may come before any system call.
- `nodes` keeps every send node with its `next` and whether it is `live`; `qhead` and `qtail` are
  `head` and `tail` of the list; `IsQueue` says which nodes lie between them. Nodes are never reused, so a use of one
  that is freed can be told: `fate` becomes `undefined` there, and the model stops, since the
  program may do anything.
- `DirectEagain` includes the fall-through of `async_send` (server.c:335-343): the node is
  enqueued twice, the second time behind itself. `evs` is the mask of the event at hand,
  which `enqueue_node` uses to decide whether EPOLLOUT must be registered.
- `Destroy` frees the nodes along the links; with a list that leads to a freed node that is
  undefined too. `DrainError` closes and leaves the session in the map, as the code does; what
  comes of that for the next owner of the number is in `CTable`.

### CTable: state and actions

- `main` walks through the loop (`check`, `wait`, `event`, `accept`, `out`, and `done` behind `Cleanup`).
  What happens to one connection between two system calls that another connection could
  notice is one action: a read loop ends at EAGAIN (`ReadToEagain`), at an end between two
  messages (`ReadNetError`) or within one (`ReadBodyError`), which then meets the EPOLLOUT of the
  same event with a freed session.
- `owner` is the descriptor table, `map` is `session_map`; sessions are named by the connection
  they were made for, so that a session met under another one's number can be told.
  `orphans` are connections that a failed allocation keeps out of the map, `stale` those that
  `handle_epollout` has closed (`OutError`), `headless` sessions whose `head_buf` is NULL:
  `session_create` does not look (server.c:176).
- `EpollReports` takes all that can be reported, or as much as the array holds; an array that was
  filled doubles once, if there is memory. `undefined` ends the model, as in `CServer`, whose
  broken lists it allows wherever something is unsent.

### EchoClient: state and actions

- A byte is its position in the client's stream, so the echo needs no bytes of its own: `echoed` is
  how far the server has written. A message is where it begins and how long its body is: `typed`
  are the lines written, `parsed` the messages the server has cut, `shown` the answers the client
  has shown. A length is what the bytes at its head say: `SentLens` is the line's length modulo
  `LenMod` where a line begins, and anything where the server looks for a head in the middle of a
  text.
- `ReadFull` is one `read` of `read_full`, of any part of what is there. `ReadFails` is the end of the
  stream or an error, `WriteFails` an error or SIGPIPE, once the server has closed.
- The server answers a body of no bytes by closing, as `main.c` does. What `CServer` shows of
  freed memory is left out: the module says what the client may rely on, not what the
  server keeps to.

### SelectServer: state and actions

- `table` is the descriptor table, the lowest free number goes to the next connection.
  `clients` is the array of slots, `rset` and `wset` what the last `select` returned, `i` and `sd`
  the slot at hand and its number, which the code copies and keeps over a close.
- `send` takes any positive part that fits. After a whole node the code compares with a
  node that is freed (line 241): the model takes both ways.
- `limit` is how many connections the process may hold open, chosen in the initial state. accept
  needs a number within it (`NumberFree`), also for a connection that it then closes for want of
  a slot; the accept loop ends with every error, at any time (`AcceptEnds`).
- No handler is installed, so `select` is not interrupted.

### EchoLoops: state and actions

- `program` is chosen in the initial state. `pc` walks through the loop that all five share:
  the wait (`PollWait`, `EpollWait`), the loop over what it has reported (`event`, with `batch` what
  is left of it), `accept`, `read`, `write`. Where the programs differ the actions say so.
- `edge` is epoll's ready list, as in `Wire`, with the listening socket as a member; only
  `epoll_et` registers that socket edge-triggered.
- `lossy` and `dropped` are history: the connections that have lost bytes to a full socket, and
  those whose event was dropped with the rest of a batch and not reported again; with `epoll_et`
  also the listening socket, where a failing accept has left a connection in its queue.
- `limit` is as in `SelectServer`. accept may fail at any time: in four programs that ends the
  accept loop (`AcceptEnds`); `blocking` goes back to `select` by `continue`, past the loop over its
  clients (`BlockingAcceptFails`).
- `blocking` accepts one client a pass, and one without a free slot stays open in no slot
  (`slotless`); its `send` waits for room, all of it, or fails when the client ends (`SendCut`); it does not look at
  the result, so that the next send after a reset raises SIGPIPE (`Sigpipe`).
- A connection stands for its number and its slot. The programs keep neither over an
  accept, but for epoll's second close of a number it has just closed (`ReadError`), which no
  accept can come before, there being one thread.

### ThreadServer: state and actions

- The handler of a client is its thread, or main itself, `hpc[g]`; it goes by `mine[g]`, a number, and
  what it receives and answers is the client that `socketOf` has under that number. So a
  handler with a wrong number serves, or closes, somebody else. `argument[g]` is the memory that
  main hands over, `newSocket` main's own variable.
- A client asks when it likes, up to `MaxAsked` times, and reads its answers when it likes or never.
  `answers` are those it has not read; `AnswerRoom` of them fill the connection, and the next send
  blocks (`SendResponse`), and with it the handler: in `turns` that is main.
- accept needs a number. When it fails, `threads` calls it again at once, which is no step of the
  model, and `turns` exits (`AcceptFails`).
- Both answer each recv, not each message; a message of two pieces is answered twice, two that
  come together once. A send to a client that has left succeeds once (`SendToLeft`), then it
  fails (`SendFails`, and the handler closes), or raises SIGPIPE (`SendKills`), which ends the process
  with all its threads (`dead`).

### HashMap: state and actions

- An entry has a key or NULL and an integer key, as in the struct; the hash functions are
  parameters. What the last call returned is `ret`.
- A call is one action, but for a put that has not found its key, which goes on by `stage` with
  what it puts in `arg`: `PutWalks` or `ResizeFails`; in `hashmap_resize` one `MoveEntry` for each
  entry, which becomes the head of its new chain in `new_buckets`, and `ResizeEnds`; then
  `PutInserts`, or `PutFails` where there is no memory for the entry, with the buckets doubled
  all the same. `hashmap_put` calls `hashmap_resize` on every insertion, `hashmap_put_int` at the
  load factor.
- `KeyedMap` knows only a function from keys to values; `MapSpec` maps `contents` to the
  entries found in the chains of both arrays.

### CondRing: state and actions

- A thread's code between two pthread calls is one action: the test under the mutex
  with what follows, the signal, the unlock. `pthread_cond_wait` is two: it gives the mutex
  back and sleeps in one step, and gets the mutex again once woken.
- A signal with nobody asleep is lost; a sleeper may wake without one.

### SemBuffers: state and actions

- `scheme` is the program. A thread's (or process's) code between two semaphore calls is cut
  where the other may see it: the put, the test of the line for quit, the read, the clearing.
  A line is its number; `TORN` is what comes of a place that is written and read, or written
  and cleared, at the same time, which the semaphores are there to prevent.
- `missed` is history: a quit was no longer in the place when main tested it.

### FdReuse: state and actions

- `table` is the process's descriptor table, `sessions`, `watched`, `batch` and `tasks` are what
  the IO thread and epoll know by number. `.conn` fields record for whom something was
  made; no action's guard looks at them, but to say whom epoll reports.
- Which events are reported and how writes end is left open: a superset of what the other
  two models allow.

## Runs

| run | instance | shows | size |
|---|---|---|---|
| `eventloop` | 2 threads, 3 clients (two of one thread), 2 numbers, 1 signal | `TypeOK`, `NoLostWakeup`, `Custody`, `JoinedMeansStopped`, `AcceptUntilEagain` | 1.4M states |
| `eventloop_live` | 2 threads, 2 clients, 1 number, 2 requests, 1 signal | `RequestsAccounted`, `ConnectionIsServed`, `RequestIsAnswered`, `SignalStopsServer`, `MailboxSpec` | 512k |
| `session` | head 2, bodies 0 to 2 and a refused 3, send room 3; every end | `PipelineInOrder`, `AlwaysAsksForBytes`, `NoEdgeIsLost`, `EndIsNoticed`, `EchoSpec` | 38k |
| `fd_reuse` | 3 connections, 2 numbers | `SessionsMatchTable`, `RepliesStayHome` | 215k |
| `fd_reuse_touch` | 3 connections, 1 number | `OldSessionTouchesNoOther` is *violated* | |
| `cserver` | head 2, bodies 0 to 2 and a refused 3, send room 3; every end, a signal at any point | `PipelineInOrder`, `NoEdgeIsLost`, `StopIsSeen`, `EchoSpec` | 48k |
| | the client: 16 bits say lengths below 7, the server takes 5; 7 inputs of up to three lines | `ShownIsTyped`, `EveryLineIsAnswered` | 6k |
| `cserver_freed` | the server's instance | `NothingFreedIsUsed` is *violated* | |
| `select_server` | 3 clients with 2, 1 and 0 bytes, 2 slots, 1 number or 3, send room 1; every end | `SlotsMatchTable`, `EndFreesSlot`, `EchoSpec` | 591k |
| `echo_loops` | 5 programs, 3 clients with 2, 1 and 0 bytes, 2 slots, 1 number or 3, send room 1 | `EchoOrLoss`, `EventsAreHandled` | 602k |
| `hash_map` | 2 string and 3 integer keys, 2 to 8 buckets, 2 values | `HashMapTypeOK`, `MapSpec` | 42k |
| | `CTable`: 3 connections, 2 of them send and leave, 2 numbers, an array of 2, 1 failing allocation, a signal | `NumbersAreCurrent`, `NothingIsForgotten`, `QueueIsServed` | 338k |
| `hash_map_mixed` | the map's instance | `MixedKeysWork` is *violated* | |
| `cond_ring` | the program's own numbers: 10 places, 20 items | `ItemsInOrder`, `SleeperIsWoken`, `CondBothEnd` | 2k |
| | the semaphore programs: 5 places and 10 items, or 4 typed lines | `HandOverInOrder`, `EveryLineIsReported`, `SemProgramEnds` | 11k |
| | the servers of chapter 17: 2 styles, 3 clients with up to 2 messages each, 2 numbers, room for 1 answer | `ClientIsAnswered` | 243k |

The type invariant of a module is a property of its own in `eventloop` and `hash_map` and the first
conjunct of `PipelineInOrder`, `SessionsMatchTable`, `SlotsMatchTable`, `EchoOrLoss`,
`NumbersAreCurrent`, `ShownIsTyped` and `ItemsInOrder` in the others. In `HashMap` it says that `size`
is what the chains of both arrays hold, after every round of `hashmap_resize`, and bounds the load.

Deadlock checking is off in all of them: after the shutdown, or once the clients have done
what the bounds allow, the system rightly stops.

*Bounds.* Two threads are enough to have a batch for several threads, a thread that is
stopped while another serves, and a handler on a thread other than the one concerned;
three connections make batches of one, two and three, for one thread or for both, and
a push to a thread that is just dealing with an earlier one, which is what the order of
reading the count and swapping the queue is about. One number fewer than clients makes
accept fail with EMFILE while a connection is queued, before and after another one has
given its number back. Requests are in `eventloop_live`, where two on one connection
are enough: they are read in one loop, or on both sides of a swap; the second client is there for
the accept queue and has only one number to get.
One signal: a second only repeats a flag and a count that are already set. The send
room of 3 is smaller than the longest message (4) and than two messages together, so that
writes are cut within a message and between two; heads of 2 bytes are cut as well. The
three workloads have an empty body between others, a longest body, and a refused one
behind an accepted one. Three connections on one number are an old one, its successor and
a third that could be hit by a close meant for the first; a run with four of them and
two requests each gives the same result. `cserver` has the workloads of `session`; its nodes
are as many as there are messages. In `select_server` the third client finds the table
full or a slot just freed, the first fills the socket and leaves a node in the queue, and
three numbers let a refused connection take one and a reused number be another's; with one number for
two slots it is the numbers that run out, as in the program with its 1024 slots and the usual
limit of 1024 descriptors, and two clients wait behind one that may be idle; the first
may end in every way, the two others in one each. `echo_loops` has the same clients, slots and numbers, so that
a write is cut or refused, a batch holds several clients and the listening socket, and the
table is full. The keys
of `hash_map` all but one collide in two buckets, two in four, none in eight; an array of
more than eight cannot be allocated, which makes the doubling fail. Those 5 keys at a load
factor of 0.75 fill four buckets exactly once. In `CTable` three connections on two numbers are, as
in `fd_reuse`, an old owner, its successor and one that waits for a number; an array of two
is filled by two connections and doubled for three events; one failure is enough for each of
the allocations, and a second only ends the same connection in two ways. In `EchoClient` a line
of 8 leaves 7 bytes of text, from which the server can cut a first message of 5 and
wait within a second one for bytes that the client does not send before it has its answer:
without `Sayable` in it `EveryLineIsAnswered` fails there. The three clients of `ThreadServer` are one
more than there are numbers; the one that cannot leave is the one that others wait for. Two messages
are a client that asks again, before or after its answer, and room for one answer makes the second
send block while the client does not read. In
`SemBuffers` ten items wrap five places twice, as in the program; four lines are a quit with
lines before and behind it.

*Fairness.* `EventLoop`: the main thread, each IO thread and the handler run when they can
(threads of one process under a preemptive scheduler; no thread waits for a lock that is
held across a blocking call). `Session`: the IO thread runs, and the client reads what is
written to it; a client that does not read is never answered in full, and rightly so. No
fairness makes a client connect, send or close, or a signal arrive. `CServer` and
`SelectServer`: the same, for their one thread; and in `SelectServer` an accept that is possible again
and again, a connection being queued and a number free, succeeds in the end (strong fairness of
accepting): ENFILE and ENOMEM pass, while EMFILE is in the model and does not pass by
itself. `CondRing`: the threads run, weakly fair, and
a thread that wants a mutex which is free again and again gets it, strongly fair: the
threads sleep between two rounds (`sleep(rand() % 3)`) with the mutex free. A sleeper need not
be woken by chance, so spurious wakeups have no fairness. `EchoLoops`: the server runs, with accept as
in `SelectServer`, and no client has to do anything. Only `blocking` has a step that waits for a client, its send, and
`EventsAreHandled` is about behaviours in which it does not sleep there for ever. `CTable`: main
runs; and `epoll_wait` does not pass over the listening socket for ever (strong fairness of
`Reports(LISTEN)`), since epoll goes through its ready list in turn and puts a level-triggered
socket back at its end. `EchoClient`: client and server run, and memory need not run out.
`ThreadServer`: main and each thread run, an accept that can succeed does in the end, no client has
to do anything. `SemBuffers`: both
threads or processes run; nobody has to type a line.

What the liveness properties except is in their statements: `EchoSpec` of `CServer` asks for
answers only if nothing freed is used and no SIGPIPE ends the process, and lets the server
close on an empty body; `StopIsSeen` leaves out a signal that arrives when main is already on
its way into `epoll_wait`, which the code sees with the next event only; `ConnectionIsServed`, and the
invariant `AcceptUntilEagain`, what a failing accept has left behind, until the next client connects;
`EchoSpec` of `SelectServer` a process killed by SIGPIPE, and a connection that waits in the accept
queue for ever while no number is free; `EventsAreHandled` excepts
a process killed by SIGPIPE, the clients whose event epoll has dropped (or that of the listening
socket they wait behind), those that the blocking server has no slot for, and those that wait
while no number is free: in the accept queue, or, in `blocking`, anywhere as long as somebody is in
the queue; `SemProgramEnds` the quit that the reader has zeroed before main
tests it; `EveryLineIsAnswered` the lines from the first one on that is too long for 16 bits;
`ClientIsAnswered` the clients that do not read, those that wait in the queue behind others that are being
served and never leave, whether these are silent, talk on or do not read (one is enough in `turns`,
in `threads` they have to hold every number), those that are refused for want of memory or of a
thread, and a process that SIGPIPE or, in `turns`, a failing accept has ended. Without any one of the
exceptions of `EventsAreHandled` the property is violated in its run.

### What the runs found

1. *A number is not safe after `clear_fd`* (`fd_reuse_touch`). The notes
   (`23/EventLoop-学习笔记/01-项目总览与线程模型.md:92`) hold that erase before close makes reuse
   harmless. It does for `_sessions` (`SessionsMatchTable`), but two branches keep the number:
   EPOLLERR or EPOLLHUP is answered with `clear_fd(fd)` without asking `_sessions`
   (`io_thread.cpp:421-427`), although an earlier event of the batch may have closed
   that connection and accept may have given the number away; and after the read
   loop has cleared a connection the EPOLLOUT of the same event goes on to
   `handle_epollout` with the old Session (`io_thread.cpp:489-495`), which writes to the
   number and closes it on an error. Both need the main thread's accept in
   between, which no test arranges.
2. *async_send falls through* (`cserver_freed`). When a direct send meets EWOULDBLOCK the node is
   enqueued and the lock released, under the comment "解锁并返回" (server.c:337), but there is
   no return: the code for a nonempty queue enqueues the node behind itself, outside
   the lock. The drain that finishes it frees it and follows its `next` to itself. The same
   run covers two further ways to freed memory, which exist without this one: `head` is not
   advanced when `handle_epollout` stops at EAGAIN behind a node it has freed
   (server.c:367-374), and the EPOLLOUT of an event is handled with a session that the read
   loop of the same event has destroyed (main.c:343).
3. *A string key meets an integer key* (`hash_map_mixed`). `hash_map.h:7` and `test_hash`
   (main.c:53) say that one map holds both kinds. `hashmap_get` and `hashmap_remove` test for an
   entry without a string key; `hashmap_put` passes its NULL to `strcmp` (hash_map.c:116).

More show in properties that hold, for they state them as exceptions:

- `epoll_echo_server.c`: the `break` after EAGAIN (line 154, "读完了，正常退出") and the one after an
  error (159) stand behind the read loop, so they leave the loop over the events. The
  edges of the clients behind are used up; those clients wait until something new arrives
  from them. `EventsAreHandled` needs `c \in dropped` for this program and for no other:
  `epoll_echo_server_et.c`, whose read loop contains the `break`, does without.
- A failing accept is final where the listening socket is edge-triggered, in
  `epoll_echo_server_et.c:109-117` and in `server.cpp:147-153`: the connections behind it wait for the next
  client, although numbers may have become free long since (`LISTEN \in dropped`, `leftBehind`). The
  notes (`23/EventLoop-学习笔记/06-生命周期、错误处理与已知缺陷.md:67`) expect the event to fire again and
  again after EMFILE; it does not. Where it is level-triggered it does: the loops of
  `发送优化.c`, `非阻塞+select模型.c`, `poll_echo_server.c` and `epoll_echo_server.c` spin as long as no
  number is free, and serve their clients all the same. The blocking select server
  does not: its `continue` (line 97) goes past the loop over the clients, so that with no number free
  and a connection in the queue it serves nobody, and notices no end that would free a number
  (`Starved`).
- None of the four non-blocking servers keeps what a full socket does not take; the select
  server does not even offer the rest of a `send` in part. `EchoOrLoss` says that nothing else is
  lost.
- The blocking select server keeps a connection open for which it has found no slot
  (`slotless`): nobody looks at it again.
- `严格同步练习.c` and `信号量同步练习.c` post the line before they test it for quit. The reader
  may have zeroed it by then; quit is missed and the program goes on (`missed` in
  `SemProgramEnds`). `16_ System V IPC/练习.c` tests first and needs no exception.
- `handle_epollout` closes a number and leaves its session in the map (server.c:377). The next
  owner's session overwrites it there and it is never freed (`stale` in `NothingIsForgotten`). If
  that owner gets no session because `session_create` fails, the number leads to the old
  session until the cleanup, which then closes the new connection's descriptor
  (`orphans` in `NumbersAreCurrent`). Otherwise, unlike the C++ server with its second thread, no
  event of a batch is ever for another connection than the one that has its number.
- `htons(body_len)` (client.c:82) cuts a length while `write` sends the whole line. Client and server
  stay in step, since both go by the same heads (`ShownIsTyped`), but from then on the heads are
  text: the client shows what nobody has typed as an answer, and may wait for ever.
- In both servers of chapter 17 a client that sends more than one recv takes and leaves
  ends the process for all others, by SIGPIPE.

Apart from these, without a property: `23/docs/项目架构与流程.md` (section 8.1) says that the server has no way to
exit; the code has got one since, and `SignalStopsServer` shows that it works from every
point. The empty body, defect D1 in the notes, has been repaired
(`io_thread.cpp:273-281`), and `AlwaysAsksForBytes` says so.

## Proofs

Every invariant that a passing run checks is proved for all values of the constants, and so is
the safety part of the refinements. The proofs have the same form: an inductive
invariant, whose conjuncts are named below, holds initially and is kept by every action, and
implies the property. The proofs rest on the assumptions that the modules state of
their constants (`...Assumption`), which TLC evaluates on the runs, and on no other; where
an assumption is more than a type it is named here.

### EventLoop (`EventLoopProofs`)

For every `NumThreads > 0`, every finite set of descriptors and all bounds.

- `TypeCorrect`: `Spec => []TypeOK`. The inductive invariant `TypeInv` adds to `TypeOK` what the
  types rest on: a thread that reads has a connection at hand (`cur[t]` is not the
  eventfd).
- `NoWakeupIsLost`: `Spec => []NoLostWakeup`. `NoLostWakeup` itself is not inductive, since a thread
  reaches `epoll_wait` from other places; `WakeupInv` says for every place but the one
  between reading the count and swapping the queue that a nonempty queue has its
  count set or a wakeup due. Pushes make a wakeup due, `IoBell` leads to
  the exempt place, and `IoSwap`, which leaves it, empties the queue.
- `JoinIsSafe`: `Spec => []JoinedMeansStopped`. `StopInv` says that a thread is done only if
  it was told to stop (the flag comes before the task), that a ShutDown in a queue
  means the flag, that the swapped queue is empty but while it is being dealt, and that the
  joins up to `k` have found their threads done.
- `QueuesAreMailboxes`: the safety part of `MailboxSpec`. Initial states map to initial
  states, and with `TypeInv` and `StopInv` every step is a step of `TaskMailbox` or a stutter:
  a push is `Post` (a stutter if the thread is done), taking the head of the swapped queue is
  `Handle`, the swap moves tasks from one part of `Mail(t)` to the other, and a thread closes
  only after it was asked.
- `CustodyHolds`: `Spec => []Custody`. `Custody` counts the places that hold a connection;
  the steps do not count, so `CustodyInv` says the same in parts a step can be followed
  through: `HeldOnce` (in none of the four places twice, in one at most, in one if and only if
  open), `HeldByOwner` (no other thread has it) and `ReadsOwn` (a thread reads from its own).
  `DropsNone` is why a thread that stops drops no connection with its queue: in no queue is
  there a RegisterConn behind a ShutDown, since nothing is accepted once a thread was told.
- `NothingLeftInBacklog`: `Spec => []AcceptUntilEagain`, for any number of clients and of numbers, and
  whatever errors accept returns. `AcceptInv` says where the edge of a nonempty backlog is at each
  place of the main thread: on the listening socket, in the events at hand, in the accept loop that
  is still running, or used up by a failing accept (`leftBehind`).
- `NoRequestIsLost`: `Spec => []RequestsAccounted`. `UnderWay`: a reply under way is in a queue
  of the owner of its connection; `Balanced`: what was sent is unread, under way or answered;
  `Unused`: a number starts with nothing. `CountFacts` says what appending and taking a task
  does to the number of replies under way.

### FdReuse (`FdReuseProofs`)

For any connections and numbers. `FdTypeCorrect` is the type invariant. `SessionsAreCurrent`
(`SessionsMatchTable`) and `RepliesReachTheirOwn` (`RepliesStayHome`) come from `NumbersInv`. Like
the two properties it is about behaviours in which nothing was done to one connection for
another, which `fd_reuse_touch` shows to be possible. That `_sessions` and descriptor table agree is not
inductive: an accept could give a number to a new connection while an old one is known
under it. `PendingIsUnknown` (a connection that is not registered keeps its number and is
in no event, map or variable of the IO thread), `KnownIsOld` and `OneNumber` rule that out;
`RegisterIsLast` says that behind the registration of a number no task of its old owner is
left, which makes `RepliesHome` survive the registration; `SessionAtHand` and `SwappedIsLocal` say
where the IO thread is between erase and close.

### Wire, Session (`WireProofs`, `SessionProofs`)

For every head length, every limit of a body, all streams of requests, every size of the send
buffer, and every way of cutting reads and writes. `SizesAssumption` says what a stream is: messages
of a head at least, the first at 0. `WireProofs` has what both servers need: stretches
of the stream joined and cut (`BytesFacts`, `BytesJoin`, `BytesCut`), what a head says at the start of
a message (`HeadIsParsed`), and a sequence of stretches each beginning where the one before it ends
(`InOrder`), which is how bytes on the way are described without a fold.

- `NothingIsOvertaken` (`PipelineInOrder`): in `OrderInv` the pieces in send queue, swapped
  queue and task queue are consecutive, from what was written up to what was received. It needs
  `RecvInv` (the buffers hold what the stream has from the start of a message on) and
  `RepliesInv` (a task or node is a whole message, cut at its offset).
- `EveryReadAsks` (`AlwaysAsksForBytes`) is `RecvInv` read for lengths: in each stage something is
  missing.
- `EveryEdgeIsUsed` (`NoEdgeIsLost`): `EdgeInv` says, for every place in the loop, who will come
  to unread input (`ready`, or the event at hand) and to unsent bytes (`noSpace`, `ready` with
  room, or the EPOLLOUT at hand), and that the interest follows the queue.
- `SessionIsAnEcho`: `Spec => Echo!Safety`, the safety part of `EchoSpec`.

### CServer, EchoClient (`CServerProofs`)

The same for the C server, with the same generality: `NothingIsOvertaken`, `EveryEdgeIsUsed`,
`ServerIsAnEcho`. The invariant is about nodes rather than pieces: node `i` carries message `i`, written
as far as the output goes, and is freed when it is written (`NodesInv`); the nodes of the list
follow each other in memory, the last with no successor or itself (`LinkInv`, which therefore
covers the node enqueued twice); `CurInv` is the place in the drain. `ServerIsAnEcho` holds in
undefined states as well: what was written until then is an echo. It does not follow from
the list being sound, which it is not, but from everything before `qhead` being written.

`AnswersAreTheLines` (`ShownIsTyped`), for all lines, all lengths of the head's fields, all sizes
and every way to cut the client's reads. `TypedInv`: what was written are the lines; `ParsedInv`: the server
cuts from it what was typed, up to the first line that 16 bits cannot say, because
messages of both streams begin where the last one ended (`Consecutive`) and the head that is read
at the place of a line is that line's; `AnswerInv`: where in which answer the client reads. It is
stated for the initial condition and the steps, since the module has its fairness in a
formula of its own.

### CTable, SelectServer, HashMap (`TableProofs`)

- `NumbersStayCurrent` (`NumbersAreCurrent`) and `NothingEverForgotten` (`NothingIsForgotten`), for any
  finite set of clients, any numbers, any size of the array and any number of failing
  allocations. `TableInv` is about four views of a connection at once, descriptor table, map, epoll and
  batch: `OneNumber`, `NotYetKnown`, `OneEntry`, `StaleIsClosed`, `EntryIsCurrent` and `EventsAreCurrent`.
  The exceptions (`orphans`, `stale`) are part of it, as the code leaves them.
- `SlotsAreTheTable` (`SlotsMatchTable`), for any slots, numbers, limits and buffers. `SlotsInv` has the four
  directions between slots and sockets, and `AtHand` for the copy `sd` that the code keeps over a close;
  `BytesInv` describes a slot's queue by `InTurn`: its nodes, each with a rest, continue each
  other from what was sent to what was read.
- `ConnectionsAreEchoes`: every step is for each connection a step of `EchoService` or a
  stutter, so the safety part of `EchoSpec` for all connections at once. A slot that accept
  fills has nothing of its last client in its queue (`FreeIsEmpty`).
- `SizeCounts` (`HashMapTypeOK`) and `TableIsAMap` (`MapSpec`), for any keys, hash functions and numbers of
  buckets. `MapInv` adds to the types: every entry is in the chain of its key's hash and no key twice in a
  chain (`Hashed`), for both arrays while `hashmap_resize` runs, with no key in both
  (`TwoArrays`), and what is being put is in neither (`IsNew`). It is not by induction over
  chains: a round of the loop moves one entry, so `OnePlaceLess`, `OnePlaceMore` and `HeadAdded` say what
  one entry changes in the set of entries and in their number.

### EchoLoops (`EchoLoopsProofs`)

`EchoesAreInOrder` (`EchoOrLoss`), for all five programs and any clients, slots, numbers and buffer
sizes.
`PlaceInv` has the types and where main stands; `SlotsInv` that the open connections of select and
poll are at most the slots, which has to be said apart, since it is what the test before accept
guarantees; `BytesInv` that the buffer holds the last bytes read and that what was sent are the bytes
before it, in order, and all of them but for a connection that is in `lossy`.

### CondRing, SemBuffers (`RingProofs`)

For every `BufferSize > 1` and any numbers of items:

- `TypeCorrect`: `Spec => []TypeOK`.
- `RingIsFifo`: `Spec => []ItemsInOrder`. Its part `InOrder` says nothing of the buffer, so the inductive `Inv`
  adds `RingInv`: the places from `out` on hold, in order, the items put and not yet
  taken (`Held` of them, fewer than `BufferSize`), and `in` is that many places behind `out`; and
  `MutexInv`, without which both threads could be at the ring. `SuccIsBehind` and `TestsCount`
  are the arithmetic: the remainder is a wrap, and the two tests of the code are `Held = 0`
  and `Held = BufferSize - 1`. The positions are in range and the ring is never overwritten, so
  the assumption that one place stays free is what the code needs: with `BufferSize = 1` the
  producer finds it full for ever.
- `NoSignalIsLost`: `Spec => []SleeperIsWoken`, from `SleepInv`, the same with `Held` in place of
  the tests.

`LinesComeInOrder` (`HandOverInOrder`), for any size of the ring and any number of lines: with two
semaphores every line is handed over once, whole and in order. `FullInv` and `EmptyInv` tie the
two counts to the lines in the buffer and to who has a place at hand, `BufferInv` says which line is
where, `GotInv` what the reader has. `信号量同步练习.c`, which has one semaphore, is not part of it:
there a line may be torn, and the property does not speak of it.

### What stays with TLC

Everything about liveness: `ConnectionIsServed`, `RequestIsAnswered`, `SignalStopsServer`,
`EndIsNoticed`, `StopIsSeen`, `EveryLineIsAnswered`, `EndFreesSlot`, `EventsAreHandled`, `ClientIsAnswered`,
`QueueIsServed`, `CondBothEnd`, `EveryLineIsReported`, `SemProgramEnds`, and the liveness parts of `MailboxSpec`
and `EchoSpec`. TLAPS has no rule for fairness and ENABLED here. `ThreadServer` has properties of
this kind only. The three properties that are violated are shown by their counterexamples.

## Not modelled

The components with status `not_modelled` in `PROJECT.json` carry their reasons. Within the
modelled files: failures of `epoll_ctl`, `eventfd` and, but in `HashMap`, `CTable`, `EchoClient` and
`ThreadServer`, `malloc`, which end the process or are only reported; the growth of the C++
server's event array, whose check after `realloc` tests the wrong variable (`io_thread.cpp:405`:
the new count, never zero, so that a failure would be a null pointer; 1024 events at once);
the terminator that the select servers write behind
what they have read, one byte behind the buffer if that is full; EINTR
of read, write and accept, which only repeats the call; the 16-bit type, which is
carried through; the end of the input in the semaphore programs, where the result of `fgets` is
not looked at; in `CTable` a SIGPIPE, which ends everything at once and is in `CServer`; wording of
the log.

## Plan

Done: `EventLoop` with `TaskMailbox`, `Session` and `CServer` on `Wire`, `EchoService`, `FdReuse`, `CTable`,
`EchoClient`, `HashMap` with `KeyedMap`, `CondRing`, `SemBuffers`, `SelectServer` and `EchoLoops` on
`Clients`, `ThreadServer`; every invariant of a passing run and the safety part of every
refinement proved. Left:

1. Modules: the C++ server's event array; `Session` and `FdReuse` composed, so that the superset of
   events in `FdReuse` becomes what `Session` allows.
2. Proofs: in `FdReuse`, which of a connection's events can touch another one, in place of the
   hypothesis that none did; in `CServer`, that nothing freed is used but on the three ways that
   `cserver_freed` shows.
