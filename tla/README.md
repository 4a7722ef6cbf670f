# Verification of linux-learn-demo-code

TLA+ models of the programs of this repository, the TLC configurations that check
them, and machine-checked proofs of all the safety properties that hold. Every definition
is translated from the C source; `PROJECT.json` gives, for each definition, the lines it stands for.

## 1. The system

The repository is a collection of independent Linux programs.

| Part | Source | State | What makes it hard | Module |
|---|---|---|---|---|
| snull data path | `snull/snull.c` | two devices, each with a buffer pool, a receive queue, a status word, a remembered skb; transmit queue and NAPI state | one device's handler runs on the other device's CPU; unlocked status word; watchdog; poll versus interrupts; open/close under traffic | `Snull` |
| snull addresses | same | a frame on its way | two address translations that must undo each other, a checksum that must follow | `SnullPing` |
| snull load, unload | same | registration, pools | failures half way; the two devices go one after the other | `SnullModule` |
| dummy-hw | `linux-netdevice-driver-test/dummy-hw.c` | frame queue, RX callback, kernel thread | callback removed while the thread is about to call it; purge racing dequeue; thread shutdown | `DummyEth` |
| dummy-eth | `linux-netdevice-driver-test/dummy-eth.c` | devices, module | devices freed while their frames are queued | `DummyEth` |
| its counters | same | one set per CPU | summed while they change and while CPUs leave | `DummyStats` |
| its reflector | same | the frame being answered | checksums, addresses, which frames are answered | `Reflector` |
| chat server, client | `select/chat-server/*.c` | client table, counter, mutex, sockets, threads | table read without the mutex, descriptor reuse, blocking sends under the mutex, SIGINT, SIGPIPE, a full table | `ChatServer` |
| link_monitor | `select/link_monitor/link_monitor.c` | three descriptors, counters | several events ready at once, failing initialisation | `LinkMonitor` |
| route_monitor | `netlink/route_monitor.c` | a socket and `running` | a signal just before select; lost notifications | `RouteMonitor` |
| route_show | `netlink/route_show.c` | a dump in progress | other messages inside the dump, changes during it | `RouteShow` |
| netlink demo | `netlink/netlink{Kernel,User}.c` | `nl_sk`, requests, replies | callbacks of several senders at once, load and unload | `NetlinkEcho` |
| netfilter hooks, NFQUEUE demo | `netfilter/test1..4` | hooks, a queue of undecided packets, `running` | unloading or leaving with packets queued; signals versus a blocking receive; no listener | `Netfilter` |
| proc demo | `test-proc/proc_demo.c` | one buffer | unlocked readers and writers, a writer inside the module's init | `ProcDemo` |
| sysfs demo | `sysfs/sysfs_demo.c` | one integer | - | none |

dummy-eth and dummy-hw call each other and are one model; so are the chat client and
server, the two halves of the netlink demo, and the netfilter modules with the program
that serves their queue. Nothing else interacts, except through the kernel.

## 2. The models

`InetChecksum` (the one's complement checksum) is shared by `SnullPing` and `Reflector`, and
`Sums` (a sum over 1..n, end-around carry) by `InetChecksum` and `DummyStats`;
`LossyFifo` is the abstract specification that `DummyEth` implements. What belongs to the
kernel is modelled from the use the code makes of it, and marked external in
`PROJECT.json`.

### Snull

Contexts `<<"xmit", d>>`, `<<"wdog", d>>`, `<<"poll", d>>` run driver code for each
device `d`; `pc`, `pkt`, `word`, `irqdev` are their locals.

* A frame is a number (the n-th `snull_tx` of the device). A buffer is
  `<<owner, index>>`; `ppool` and `rx_queue` are the linked lists, head first, and
  `nextNull` is the `next` field as the unlocked test in `snull_release_buffer`
  sees it.
* A section under `priv->lock` is one step. The handlers are two: the status word
  is read on entry and cleared with the rest of the section, because
  `snull_hw_tx` changes the word without the lock. Each `status |= bit` is a load
  and a store.
* `snull_release_buffer` is the push, then - with the lock dropped - the test of the
  queue state, the test of `pkt->next`, the wake-up: four steps.
* `snull_hw_tx`: take a buffer, enqueue it at the twin, test `rx_int_enabled`, raise
  and serve the twin's interrupt, raise the own one, and either serve it or
  simulate a lockup. The length test cannot fail: `snull_tx` has padded the frame.
* The transmit watchdog (`ndo_tx_timeout`) and `snull_tx` of one device exclude each
  other, as the kernel calls both with the transmit lock held; the watchdog may
  fire whenever the queue is stopped.
* `snull_release` returns once `napi_disable` has seen the poll finish.
  `napi_schedule` on a disabled context does nothing, and on a scheduled one
  requests another run (`"missed"`).
* The poll's unlocked look at `rx_queue` and the following dequeue are one step:
  the poll is the only consumer of the queue in NAPI mode.
* An empty pool is dereferenced in `snull_get_tx_buffer` with the lock held: the
  context goes to `"oops"` and keeps the lock. `blind` is history: the queue has been
  started (`StartQueue`, by whatever caller) while the pool was empty.

### DummyEth

`hw` and `eth` say how far the two modules are loaded; `thread` is where
`dummy_hw_thread` is, `cur` the skb it holds. Module init runs under the rtnl lock
and is one step; a load that fails undoes itself. `lt_request_irq(false)` is two
steps (clear the pointer, purge the queue), followed by the unregistration that
frees all devices. The thread's test of `dummy_drv_rx` and its call are two steps,
and the call may read the pointer again: C leaves that to the compiler. Running
unloaded code or using a freed device goes on or crashes, nondeterministically.
`newlink` and `dellink` are the kernel's. `late` and `hasty` are history variables: how
many callbacks were entered since dummy-eth's exit began, and whether a device or module was
ever removed (or a device opened during the removal) with traffic still on its way.
Counters and carrier are in `DummyStats`.

`LossyFifo` says what the hardware promises: a line of numbered messages from which the
oldest is delivered or lost, or which is cut. The refinement mapping takes the frame in
the thread's hands followed by `skb_tx_q` for the line, `received` for what was
delivered and the freed frames for what was lost.

### Reflector

A frame is a record of the header fields the reply functions read and write.
Checksums are one's complement sums over words of `W` bits, with the two folding
rounds of `csum_fold`; an address is four bytes and enters the header checksum as
two words. `Transmit` and `Receive` are the kernel's side: ARP resolution,
echo requests, and frames the reflector must not answer.

### ChatServer

`main`, one thread per connection, and a signal handler that runs on top of the
thread it interrupts (`victim`). A client stands for its address; a socket is a
descriptor in `fds`, and `accept` takes the lowest free one. `select`
returns for a waiting connection, which is accepted in the same step, or for a
client's socket, and then main builds its fd_set again. `client` is the
index main computed from `client_count`; 0 is the element before the table.
`broadcast_message` holds the mutex across one step per send; a send waits for room
in the receiver's buffer. A client that closes with unread messages, or is sent
something after closing, has its connection reset. `read` may return several
messages run together. The listen backlog is not modelled, nor SIGINT arriving at
main inside its own short critical sections (it behaves as it does for a thread).

The handler's `cleanup` is a step to lock the mutex, one per `close`, and one to unlock it;
`exit` comes later, and the other threads and main run on meanwhile (`handler` says how far
it has come, `closing` what is left to close). A thread may be inside `read` or `send` when
its socket is closed by another: the call keeps the connection it began with (`inside`), or
it began too late and finds whatever connection has the number by then, or none.
Left out: a second SIGINT, and what the threads make of the mutex
between `pthread_mutex_destroy` and `exit`, which is undefined. The slots in use are looked
up when cleanup locks; nobody changes them while it holds the mutex.

### SnullPing, SnullModule

`SnullPing` follows an echo request and its answer through `snull_header`, `snull_hw_tx`
and the twin's `snull_rx`, on the octets of the addresses, with the 16-bit checksum.
The host's IP layer (which addresses an interface accepts, what a ping answers) is
external.

`SnullModule` is `snull_init_module` and `snull_cleanup`, one device after the other, with
every allocation and registration failing at will, while devices registered so far are
opened, closed and used. The data path is reduced to how many buffers are in each pool
and in flight. `quiet` and `busy` are history: since rmmod both devices were down and
drained; the second one has been up.

### DummyStats

One step per load and per increment: on 64-bit builds the sequence counters of
`u64_stats_sync` are empty. `dummy_get_stats64` walks the possible CPUs while frames are
counted and CPUs come and go; `since` keeps the true totals at its start.

### LinkMonitor, RouteMonitor, RouteShow

`LinkMonitor` opens its three descriptors in order, each call failing at will. `file` is the
kernel's view of each descriptor, so that a close of a stale number would show.
`select` finds everything that is ready and the handlers run in the order of the code.
The timerfd hands out its expirations all at once; of the pending signals the lowest
number is read first; counters have `W` bits. A link change that finds the buffer full is
dropped by the kernel, as are those that follow until the buffer has been emptied; recvfrom
reports it once, with ENOBUFS, and the handler returns. `events` and `lost` are history: the
link changes and expirations since the statistics were reset, and how many of the link
changes were dropped. `get_interface_name` opens a socket and closes it before it returns;
it is no step of its own.

`RouteMonitor` keeps `known`, the table that a reader of the output would hold;
`print_route_info` is what a printed line tells that reader. The kernel sends one
notification in a datagram. A signal may come between any two steps, also
between the test of `running` and select. A notification that finds the buffer full is
dropped and leaves ENOBUFS behind.

`RouteShow` sends one request per section and reads until `NLMSG_DONE`. The kernel's side of
a dump is pulled by the reads and shares the socket with link notifications; a datagram is
the set of its messages, all of which are parsed; `steady` is what existed during the whole
section, `printed` what was shown.

### NetlinkEcho

`hello_init` is two steps, because the protocol can be used before `nl_sk` is assigned. A
request's callback runs in its sender's context, in three steps (the pid is read, the skb
is allocated or not, the reply is sent), for several senders at once. An open socket
holds the module. `early` remembers a socket opened before `hello_init` returned.

### Netfilter

A packet is at one of the hook points, queued, or decided; slots are used again, so
that traffic never ends. test4's hook queues ICMP packets on `queue_num`, which may be
rewritten at any time; the listener's queue exists between its binding and its
destruction. The listener's loop is `while (running)`, a receive that a signal
does not interrupt (the handler is installed with `signal`), and the verdict.
Unregistering a hook drops what is queued, as does destroying the queue. `more` counts the
packets handled since the signal. A packet is TCP, ICMP, or ICMP and too long: the copy range
of 0xffff lets the kernel send more than `buf[4096]` holds, recv cuts it off,
`nfq_handle_packet` refuses the message without calling `packet_cb`, and main ignores that.
Such a packet stays in the queue until a hook is unregistered or the listener leaves.

### ProcDemo

Reads and writes are byte by byte, also the copy in `proc_demo_init`, which runs after the
file has become visible. A cell behind the buffer (`Beyond`) shows a read or a write that
leaves it. `alone` and `last` are history: whether another writer was at work during an
operation, and the message written last.

## 3. Runs

The programs are independent, and so are most questions about one of them. A run that
takes several together lets its initial state choose one (`setting`, `handler` or
`program` in `MCFrames`, `MCSnullTraffic`, `MCNetlink` and `MCKernelDemos`); the variables
of the others rest. `MCDummyEth` and `MCChatServer` only add symmetry sets. `MCPings`
(instances of `SnullPing` and `Reflector`) and `MCStats` (an instance of `DummyStats`) are
the parts of `MCFrames` and `MCKernelDemos` that `FrameProofs` extends too.

| Run | Bounds | Checks | Result |
|---|---|---|---|
| Frames | snull one way: pool 1 or 2, 5 frames, lockup 2; addresses: 4 network and 4 host octets; reflector: 3 peers, payloads of up to two words of 16 bits, each one of six; fairness | `SkbsAccounted`, `TimeoutsAreLockups`, `StoppedQueueRecovers`, `FramesArrive`; `TwinAnswers`; `EchoAccepted`, `PingsAnswered` | holds |
| SnullTraffic | regular handler: both devices send 2 frames, lockup 2; NAPI: one sends 4, or 3 with failing allocations; one close each | `BuffersConserved`, `DeliveredOnce`, `IntsOffMeansPoll`, `ExhaustedOnlyAfterRestart` | holds |
| SnullStranded | NAPI, 2 frames, fairness | `FramesArrive` | violated |
| DummyUnload | 2 devices, 3 frames, fairness | `NothingLeftBehind`, `FramesConserved`, `OneStraggler`, `DrainedRemovalSafe`, `RequestsAnswered`, `UnloadsFinish`, `ImplementsFifo` | holds |
| DummyCallback | 2 devices, 1 frame | `CallbackAlive` | violated |
| ChatTable | 3 clients that say nothing, 2 slots, SIGINT outside the critical sections | `TableConsistent`, `SocketsOwned` | holds |
| ChatLive | 2 clients, one of which says 1 message, 2 slots, buffer of 1, fairness | `WelcomedAreListed`, `ServerSurvives`, `EveryoneServed`, `ShutdownCompletes` | holds |
| ChatWrongName | 3 clients, 3 slots | `NamesItsClient` | violated |
| ChatSigint | 2 clients, SIGINT anywhere, fairness | `ShutdownCompletes` | violated |
| Netlink | link_monitor: 2 queued datagrams, 2 expirations, 1-bit counters; route_monitor: 2 routes, buffer of 2; route_show: 2 links, 2 routes, 3 changes, buffer of 3; 2 users of the netlink demo; fairness | `DescriptorsOwn`, `CountsExact`, `QuitSignalsEnd`; `OutputHasNoGap`, `SignalStops`; `SectionComplete`, `ShowEnds`; `SocketOutlivesSenders`, `RepliesReachSenders` | holds |
| KernelDemos | proc_demo: buffer of 3, 2 processes; netfilter: 2 packets, a socket for 1; snull load: pools of 2; statistics: 2 CPUs, 2 frames; fairness for netfilter | `StaysInBuffer`, `UndisturbedReadWhole`; `OneMorePacket`, `QueuedDecided`; `NothingLeftBehind`, `FreedOnlyIdle`; `StatsBetween` | holds |
| NfBypass | 1 packet | `BypassWithoutListener` | violated |

Each violated run states what a comment or a message of the repository says;
`PROJECT.json` quotes it under "findings". Passing runs check for deadlock, except Netlink,
whose programs end. Elsewhere a model goes on for ever, or has a
`Rest` action that lets it stop only when no code is running (or the kernel has oopsed, or the server has ended).

Where a property holds only under a condition, the condition is part of the run or of
the property, and the code does not enforce it:

* `SkbsAccounted` holds with the regular handler, while one device sends
  and no interface is closed. A watchdog that fires on a queue stopped by an empty pool
  frees the last skb again, and an interface closed while its transmit interrupt is lost
  and then reopened forgets the skb it remembered.
* `DeliveredOnce` does not say in which order: the receive queue is a stack, and two
  frames queued before the poll come out reversed ("FIXME - misorders packets").
* `IntsOffMeansPoll` holds for a device that has not been closed, when the twin is up
  before the first frame (`WaitForTwin`). A frame sent earlier turns the twin's
  interrupts off while its NAPI context is disabled, and nothing turns them on.
* `ExhaustedOnlyAfterRestart`: `snull_get_tx_buffer` does find an empty pool, and
  dereferences it, once the queue has been started while the pool was empty. Three
  places do that: the watchdog, a reopening, and `snull_release_buffer`, which tests the
  queue state and `pkt->next` without the lock. In the last case another context started
  the queue after the push, and the buffer just given back was taken and the queue stopped
  again before the tests. `blind` remembers a start on an empty pool; the property says
  that there is no other way.
* `DrainedRemovalSafe` and `RequestsAnswered` speak of removals that wait for the
  traffic to drain; `hasty` remembers whether one did not. A hasty one can leave the
  thread with a frame of a freed device.
* `WelcomedAreListed` assumes a slot for every client. With a full table `add_client`
  does nothing and the client is welcomed all the same.
* `TableConsistent`, `SocketsOwned`, `WelcomedAreListed` and `ServerSurvives` end when
  cleanup unlocks the mutex (`BeforeUnlock`). From there to `exit` nothing is claimed, and they do
  not hold: the table still names sockets that were closed, a thread that leaves closes its
  number a second time, main may have given the number to a new connection, whose thread then
  loses its socket, and a slot may name a stranger's. While cleanup holds the mutex they say
  that it alone closes sockets under their threads, and only those in the table.
* `ServerSurvives` assumes that no client leaves before its welcome (`QuitEarly`), which
  is sent without `MSG_NOSIGNAL`.
* `ShutdownCompletes` holds in ChatLive, where SIGINT interrupts a thread that does not
  hold the mutex, and fails in ChatSigint, where it may interrupt any.
* `QuitSignalsEnd`: SIGTERM ends link_monitor once SIGUSR1 and SIGUSR2, which are read
  first, stop coming.
* `SocketOutlivesSenders` excepts a sender that came before `hello_init` returned. A sender
  for whose reply there was no memory waits for ever.
* `CountsExact` does not say that no link change goes uncounted: those the kernel dropped do.
  It says that no other does, and that the report of the loss is not counted in their place.
* `QueuedDecided` is about packets that fit the listener's buffer, and for the others about
  what happens once the listener leaves. Until then they may wait for ever.
* `OneMorePacket` is what Ctrl+C gives: the listener ends with the next packet, not before, and
  without one it waits on.
* `NothingLeftBehind` (snull's) and `FreedOnlyIdle` speak of unloads that found the devices
  quiet, or the second one down: `snull_cleanup` frees the first device while the second
  may still use it.
* `UndisturbedReadWhole` is about reads that no write overlaps, of messages written by one
  process alone.

Why the bounds are enough. Pools of one and two buffers are the two interesting
cases: the first transmission empties the pool, or the second does. Five frames
with a lockup of two contain two lockups and frames before, between and after them.
Two frames in each direction give every interleaving of the two transmitters'
handlers. A budget of two (the driver's own) with three or four frames
exhausts the budget. Three frames through the dummy hardware give one queued, one held and one
done. A table of two with three clients has a full table and a slot that is reused.
The six words of the payloads (0, 1, 32767, 32768, 65527, 65535) make sums carry and not
carry; 65527 and the type of a request add up to all ones. The proofs cover the others.
Octets 0, 1, 4, 255 and 1, 2, 3, 254
include both ends and both parities. Buffers of two or three datagrams fill and
overrun. A 1-bit counter wraps at once. A buffer of three bytes holds every relation
between two messages' lengths and the end.

Symmetry (devices in DummyCallback, clients in ChatTable and ChatWrongName) is used only in
runs without temporal properties; the modules do not distinguish the members of these
sets.

Faults. Operators with a suffix (`ReleasePool_Receiver`, `add_client_Uncounted`, ...) are
plausible mistakes in the definition that follows them. Replacing the definition by
the fault makes the run named in `PROJECT.json` report the property it guards.

### Fairness

* Snull: weak fairness of each context once it runs, of the watchdog (a timer), of the
  poll (a softirq) and of the waiting `napi_disable`. No fairness of transmissions,
  opens or closes.
* SnullPing, Reflector: a frame on the wire or in the simulated hardware moves on.
* DummyEth: weak fairness of the kernel thread and of an exit function already entered.
* ChatServer: weak fairness of main, of each thread, of the handler and of the client's
  receiving thread. `ThreadStep` is weakly fair although it may wait for a mutex: the
  only unfair schedule this excludes is one in which the mutex is never free long
  enough; the bounded number of messages makes every holder leave.
* LinkMonitor, RouteMonitor, RouteShow: weak fairness of the process and, in RouteMonitor, of
  the timeout of select. None of links, routes, timers or signals.
* Netfilter: weak fairness of packets under way and of the listener. None of arrivals,
  signals and module commands.

## 4. Proofs

All hold for every value of the constants under the named ASSUMEs of the module
concerned, and for every behaviour of its `Spec`; none uses the fairness that some of
them state. `Hears`, `SkbAccounting` and `LockupsOnly` have hypotheses of their own, the
conditions listed in section 3. Every safety property that a passing run checks is proved.

| Module | Theorem | States |
|---|---|---|
| `SnullProofs` | `TypeCorrect`, `Conservation` | `TypeOK`; `BuffersConserved`: no buffer is on two lists, on the wrong list or lost |
| `SnullPathProofs` | `Exhaustion`, `Uniqueness`, `Hears` | `ExhaustedOnlyAfterRestart`, `DeliveredOnce`, `IntsOffMeansPoll` |
| | `SkbAccounting`, `LockupsOnly` | `SkbsAccounted`, `TimeoutsAreLockups`, for one sender, the regular handler and no closing |
| `DummyEthProofs` | `TypeCorrect`, `Conservation`, `Refinement`, `Emptied`, `AtMostOneStraggler`, `SafeRemoval` | `TypeOK`, `FramesConserved`, `ImplementsFifo`, `NothingLeftBehind`, `OneStraggler`, `DrainedRemovalSafe` |
| `ChatServerProofs` | `TypeCorrect`, `Consistency`, `Ownership`, `Survival`, `Listing` | `TypeOK`, `TableConsistent`, `SocketsOwned`, `ServerSurvives`, `WelcomedAreListed` |
| `NetlinkProofs` | `SocketStays`, `OwnReplies` (netlink demo) | `SocketOutlivesSenders`, `RepliesReachSenders` |
| | `Descriptors`, `Counts` (link_monitor) | `DescriptorsOwn`, `CountsExact` |
| | `NoGap` (route_monitor), `Complete` (route_show) | `OutputHasNoGap`, `SectionComplete` |
| `KernelDemoProofs` | `InBuffer`, `ReadWhole` (proc_demo) | `StaysInBuffer`, `UndisturbedReadWhole` |
| | `OneMore` (nfqueue_userspace) | `OneMorePacket` |
| | `CleanUnload`, `FreedIdle` (snull's module) | `NothingLeftBehind`, `FreedOnlyIdle` |
| `FrameProofs` | `SumsBetween`, `TotalsGrow` (counters) | `StatsBetween`; no step lets a true total fall |
| | `RepliesAccepted` (reflector) | `EchoAccepted` |
| | `AliasesHold` (snull's addresses) | `HandedOver`: what `snull_hw_tx` hands over is accepted, and a reply is one to the ping |

`ListFacts` has the lemmas on lists without repetition that the two drivers share: what
a push, a pop and an append at the tail do to the members and to injectivity.

Snull. Assumed: the two devices differ, the parameters have their types, the pool is
set up with at most `PoolSize` buffers, `NoCtx` is not a context. `TypeOK` is not
inductive: `snull_release_buffer` pushes `pkt[c]`, which is a buffer only because every
context at a label where it holds one has one. The strengthening `Typed` adds `HandsFull`
(at those labels `pkt[c]` is a buffer) and `OwnersOK` (each pool and queue holds only
buffers of the right owner). For conservation the invariant is `Typed /\ BuffersConserved`.
Every action is one of five moves of a single buffer: none (`ConservedFrame`), pool to
hand (`ConservedPopPool`), hand to queue, queue to hand (`ConservedPopQueue`), hand to pool
(`ConservedPush`). Each move is proved once, and `ConservedNext` only says which move each
action makes.

Snull under traffic. `Exhaustion`: as long as nobody has started the queue on an empty pool,
a running queue and a transmitter on its way to the pool have a buffer there (`Supplied`),
because the transmitter is the only one to take from its pool and stops the queue with the
last buffer. Looking for this invariant is what brought up the third start, in
`snull_release_buffer`. `Uniqueness`: the frames delivered and the frames in the receive
queue are different frames, all of them already given to the twin (`Fresh`); it needs
conservation, as a buffer on two lists would be delivered twice. `Hears`: NAPI is on exactly
while the interface is not down, a poll that runs is scheduled (`NapiOK`), and the
interrupts are off only until a poll turns them on (`HearingOK`).

Snull one way. With one sender and the regular handler one context runs at a time
(`Control`), each handler finds exactly the bit raised for it (`Words`), a queue stopped for
want of buffers runs again before the transmitter raises its own interrupt (`QueueOK`), so
that a stopped queue at rest means a lockup, and the frees, the transmissions and the
timeouts add up at every label (`Counted`, `TimeoutsCounted`). The one fact of arithmetic
is `LockupCount`: the quotient of the frame number by the period grows exactly with the
frames the period divides.

DummyEth. The invariant adds to the types `Control` (where the thread can be with and
without a frame, and what must be gone when a module is: without it a reloaded dummy-hw
could find an old queue) and `Placed` (a frame is in one place exactly if it was
transmitted). An action stays, puts, dequeues, frees, delivers or purges, and each of
these moves is shown once to keep the invariant and to be a step of `LossyFifo` or a
stutter. `OneStraggler` has an invariant of its own: when the callback is cleared the
thread is at most once between its test and its call.

ChatServer. Assumed: finitely many clients, a table and socket buffers that are not empty.
`TableConsistent` is not inductive: that a slot names an open socket of its client rests
on who may close that socket. `Good` has two parts. `Sound` holds as long as the process
runs: the count, which number each connection was given, what main knows of the one it
accepts, and that the holder of the mutex is broadcasting or in cleanup. `Kept` holds until
cleanup unlocks: a thread has its socket unless cleanup has closed it, an open socket belongs
to a thread or to the accept under way, a slot in use names a client that has not been removed
yet, a client has at most one slot, a number that cleanup has closed is used again by
nobody but the connection main has just accepted, which cannot get past the mutex, and a
welcome that waits is on its own client's connection. Before cleanup begins two clients
present at the same time never share a socket number (`OwnSocket`), so `remove_client`, which looks for a number, finds the
caller's slot and no other (`Removal`); and as every open socket has its own client, `accept`
finds a free number (`DescriptorFree`, by the pigeonhole principle). Nothing is claimed once
the process has
ended. `Survival`: when nobody quits early, a client whose welcome is still to be sent is
connected (`Spared`), and every other send suppresses the signal. `Listing`: the slots in use
name different clients, so that one who is missing from a table with slots for all finds a
free one (`SlotFree`, again a pigeonhole), and `remove_client` disturbs nobody else.

NetlinkEcho. The invariant is the types and says in which states of the module a socket can be open
(`Sockets`) and that a callback's pid is its sender's (`Own`).

LinkMonitor. Assumed: a word has at least one value. `FilesInv`: every open descriptor is
named by its global, a global names its own descriptor or a closed one, and only a failed
`timerfd_settime`, after which nothing more is opened, leaves a closed one. For `Counts` the
property is inductive once the types are known; `ModAdd` says that a counter may be reduced
before or after an addition, and `ModMultiple` that multiples of the modulus do not count.

RouteMonitor. `MonitorInv` says of every route that the last notification about it in the
queue, or the copy if there is none, agrees with the table; that is `Leads`, with one lemma
for a notification that is queued and one for the first that is read. Added: nothing is queued
before the socket is bound, and recv is reached only when there is something to read.

RouteShow. Assumed: the bounds on links and routes are numbers. `SectionComplete` rests on a dump
that runs in pieces while the program reads. `Answer` says that everything wanted is printed,
queued, or beyond the last index the dump has sent (`Running`), or that the dump is over and
NLMSG_DONE is queued behind all of it (`Ended`); notifications of links may lie in between.
`Orderly` adds what makes an NLMSG_DONE the right one: while nothing has failed, no dump runs
and no end is queued between two sections. After a failure the leftover of the given-up dump
may end the next section early, and nothing is claimed.

ProcDemo. Assumed: a buffer of at least one byte and a first message that fits. `Bounds`:
the last byte of the buffer is never anything but a terminator, because every write
leaves room for one. `ReadWhole` adds that a writer that is alone has put its bytes there,
and that while `last` names a message nobody writes and the buffer holds it.

Netfilter. `OneMorePacket` follows from `NoSecond`: once a packet has been handled after the
signal, the loop has seen `running` cleared and does not come back to recv.

SnullModule. `Progress` says for every place of `snull_init_module` and `snull_cleanup` how
far each of the two devices is, `Traffic` that only a registered device is up and where
buffers can be, and `Touching` that a freed device is used only if the second device has
been up since rmmod.

Sums. `FrameProofs` needs facts about a sum of any number of terms. The induction is done
with sets: a set of numbers with 0 and with every successor of a member contains all of
them (`SetInduction`), because the natural numbers are well founded and a least number
outside would be neither. With it the recursion of `Sum` has a solution (`SumEquation`),
which is bounded by the sum of the bounds (`SumBound`) and grows by d when one term does
(`SumRaise`).

DummyStats. Assumed: the number of CPUs is a natural number. `StatsBetween` speaks only of
the end of a call; `StatsInv` says what holds on the way. For each field, what has been added
up so far is at most what the CPUs already passed count now, and together with what the
others count now it is at least the total at the call (`Bracketed`). An increment at a CPU
that has been passed raises the first bound, one at a CPU still to come the second sum, and a
load moves one count from the second to the first. That all possible CPUs are visited in
turn, whatever is online, is `ReadsInTurn`.

Checksums. Assumed: words of more than three bits, addresses of octets, and messages of no
more words than a word has values, as every frame is. Storing the complement of the folded sum
where a zero was makes the folded sum all ones (`ChecksumVerifies`): the sum grows by that
complement (`SumRaise`), and two rounds of end-around carry are enough for that many words
(`Carries`). `HeaderVerifies` and `MessageVerifies` are this for an IP header and for an
ICMP message.

Reflector. `ReflectInv`: request and answer are never both under way; an echo request on the
wire is the last ping, to a peer, and an IP answer was made from that ping by
`dummy_icmp_reply`. The tests of the kernel then follow from the fields of the answer
(`AnswerFields`) and the two checksum lemmas.

SnullPing. `HandedOver` is the safety part of `TwinAnswers` and is not checked in a run of its
own. `AliasInv` says which frames can be on either side of `snull_hw_tx`: a request from an
interface to the address pinged or a reply to the twin's alias before it (`OnHop`), the
same with both third octets flipped after it (`Across`). It rests on three facts: flipping
twice gives an address back (`AliasTwice`); the twin's alias is in the interface's network and
is neither interface's address (`TwinAlias`), so that the stack routes a reply back through
the same interface; and an echo request that is for this host is for the twin under the alias
that was pinged (`RequestIsForTwin`).

The types of these modules are proved rather than checked in a run: those of Snull, DummyEth
and ChatServer as theorems, the others as far as the invariants need them.

A leaf that the SMT solver does not find names `Zenon`, and a slow one allows more time
(`SMTT`, `ZenonT`), so that the proofs do not depend on the load of the machine. From nothing
they take about half an hour on one processor.

Checked by TLC only: all liveness, `TwinAnswers` and `PingsAnswered` included, as temporal
reasoning under fairness is out of the prover's reach.

## 5. Not modelled

* sysfs demo: one `int` that one call stores and another prints; the parsing is
  `kstrtoint`, which is the kernel's. There is nothing to interleave.
* snull: `snull_config`, `snull_change_mtu` and `snull_get_stats64` are single assignments or copies;
  `snull_ioctl` and `snull_rebuild_header` are in no operations table and never called.
  `netif_napi_del` in `snull_cleanup` while the device is still up: what follows is up to
  the kernel.
* The chat client's own signal handler against its two threads; the listen backlog; a second
  SIGINT at the server; `clients_mutex` between its destruction and `exit`.
* Lengths in bytes: a 1514-byte frame in snull's 1500-byte buffer, a full read in the chat
  server that leaves no terminator. (Of the NFQUEUE listener's buffer it is modelled whether a
  packet fits.) Messages and frames are numbers in these models.
* Where an skb's data lies: `pskb_may_pull` may move what the reflector has pointers to.
* Formatting, logging, header layouts; Makefiles and shell scripts.
