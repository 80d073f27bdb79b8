# A verification development for IPC-Bench / uintr_oneway

The repository measures how long a small message takes from one process (or
thread) to another over the inter-process communication methods of Linux, user
interrupts among them.  Each method is a pair of loops, client and server, that
synchronize with whatever the method offers: a byte that both spin on, an
eventfd, a signal, a user interrupt, a lock-free ring.  The numbers are only
worth something if the loops really alternate, if each measurement starts from
its own timestamp, and if the program gets to the end.  That is what the models
check.

## The system

| Part | Source | State | Operations | Model |
|---|---|---|---|---|
| Lock-free ring | `common/kfifo.h` | `in`, `out`, `mask`, buffer | `__kfifo_in`, `__kfifo_out`, `__kfifo_out_peek`, lengths | `Kfifo`, `KfifoQueue` |
| Shared memory, mapped file | `shm/`, `mmap/` | a named segment or file with its length, guard byte, timestamp bytes | open, extend, remove, wait, notify, copies | `Shm` |
| Condition variable | `shm-sync/` | segment, mutex, condition variable | both initializations, `sync_wait`, `sync_notify`, both loops, `cleanup` | `ShmSync` |
| Two-way eventfd | `eventfd/eventfd-bi.c` | 64-bit counter, two counts | `eventfd_wait` with write-back, `eventfd_notify` | `EventfdBi` |
| One-way eventfd | `eventfd/eventfd-uni.c` | 64-bit counter | blocking write, resetting read | `EventfdUni` |
| Two-way user interrupts | `uintrfd/uintrfd-bi.c` | descriptors, routes, posted bits, flags | set-up, `ui_handler`, `senduipi`, spin and clear | `UintrfdBi` |
| One-way user interrupts | `uintrfd/uintrfd-uni.c` | `bench`, `uintr_count`, `uintr_received` | handler, sender, main loop | `UintrfdUni` |
| Signals, FIFO, pipe | `signal/`, `fifo/`, `pipe/`, `common/signals.c`, `common/process.c` | process group, signal dispositions, pending bits, the stream | fork, setpgid, exec, set-up, `kill(0, …)`, `sigwait`, `fopen` rendezvous, write, read | `Signals` |
| Message queue | `mq/` | a queue that outlives its run, one handshake signal | `msgget`, `msgsnd`, `msgrcv`, `server_once`, `client_once` | `Mq` |
| Statistics, timed loop | `common/benchmarks.c` and every one-way client | minimum, maximum, sum, count, two clocks | `setup_benchmarks`, `benchmark`, `evaluate`, the loop test | `TimedClient` |
| Sockets | `tcp/`, `domain/`, `common/sockets.c` | who listens, the connection, bytes on their way, `errno` | bind, listen, accept, connect, send, `receive` | `Sockets` |
| uintr-pro | `uintr-pro/` | the ring's fill, the socket's name, one interrupt route | put, doorbell, get, handing over a descriptor | `UintrPro` |
| ZeroMQ, arguments, utilities | `zeromq/`, `common/arguments.c`, `common/utility.c` | | | not modelled |

The parts interact through the kernel's objects only (and, for the two uintrfd
programs, through shared variables).  A program named after its method starts a
`-server` and a `-client` executable in its own process group
(`common/parent.c`, `common/process.c`); eventfd, pipe and uintrfd fork or
create a thread instead.  The one-way programs, which this repository adds to
IPC-Bench, have the server send its clock and the client subtract it from its
own; their servers are endless loops, and the clients run for a tenth of a
second.  The two-way programs count messages.

What is hard here: steps of two processes that nobody ordered (set-up against
the first notification, spin against clear, copy against copy), notifications
that do not count (a pending signal, a posted interrupt, a flag), tokens taken
by the wrong process, timestamps that belong to another message, kernel objects
left over by an earlier run, and arithmetic at an edge (indices that wrap,
microseconds that start over, an eventfd that is full).  `PROJECT.json` lists
them as hazards, each at its line, with the properties that cover it.

## Modules

Each component is one module; its `MC` module extends it and the `.cfg` files
give the constants.  Constants have named assumptions.  Alternative definitions
marked "Mutant" in the comments are not part of a specification: each is a
plausible mistake in the definition that follows it, and every property of a
passing run is violated when one of them takes its place.

**Kfifo.**  One writer, one reader.  A call is split where the other process
can see the difference: reading the indices and clamping the length, copying
one byte (any order, since `memcpy` promises none), publishing the index.
`in` and `out` wrap at `Wrap = Laps * Size`, standing for 2^32.  A byte is its
position in the stream, so a lost, doubled or overwritten byte is a wrong
number.  `KfifoQueue` is the promise: a bounded FIFO queue with atomic put and
get; `QueueSpec` is the refinement.

**Shm.**  One module for the segment and the mapped file, which share their
loops.  The clock is the number of requests so far.  Init ranges over what a run
may find under the name: nothing, an object too short, one with any guard byte,
and servers of earlier runs (`Old`) that still spin on it, since their loop is
endless.  `found` and `old` record it; the protocol properties are about runs
that are `Clean`, without old servers and without a request nobody answered.
At most two objects exist in a run: the client of the file removes the name at
its end and a late server creates another one.

**EventfdBi.**  `eventfd_wait` is `Read` and, for the wrong token, `WriteBack`.
`TokenInvariant` says that at most one token exists and where it is, in terms
of both processes' counts.

**EventfdUni.**  Timestamps add up in the counter; ghosts count how many are in
it.  The clock (about 1.7 * 10^18 ns) and the counter's maximum of 2^64 - 2
are scaled down.

**UintrfdBi, UintrfdUni.**  A user interrupt is a posted bit; delivery is a
step of its own that may come between any two steps of the receiving thread
while its user-interrupt flag is set.  In `UintrfdUni` the handler is four
steps, because the sender runs concurrently with it.  The hardware and the
kernel calls are external and are modelled from how the code uses them.

**Signals.**  The three benchmarks that signals drive, one module with three
beginnings.  A child goes through fork, exec (handlers reset), handler, mask,
sleep.  What a signal does depends on where it finds the child: swallowed,
fatal, or pending.  `Sleeps` says whether `usleep(1000)` may be too short for
the other side's set-up, `Leaders` whether the parent may not lead its process
group, which is how a non-interactive shell starts it; `setpgid` then fails in
both children and nothing runs.  `Remains` is what earlier runs left of the
FIFO: nothing, the file, or a server that still holds its write end open, in
which case the client's `fopen` returns at once and orders nothing.

**Sockets.**  TCP and domain sockets share `receive` and their loops.  Lengths
are in units of eight bytes, the length of a timestamp; a message longer than
`Segment` arrives in pieces.  `errno` is kept, because `receive` looks at it
after a short read, where the call has not set it: the server's and, since the
client receives with the same function, the client's.  A server of an earlier run
(assumed to have been started with the same `-s` and `-b`) may be waiting in
`accept`.  Launching is in `Signals`; of the domain benchmark's handshake
`Sockets` has what a signal does to the client before and after its set-up.
The buffer sizes set by `set_socket_both_buffer_sizes` are why messages of
everyday size arrive whole.

**ShmSync.**  Mutex and condition variable of the segment.  Initializing them
while somebody waits is undefined: the waiter may be forgotten or not.  The
address of the `struct Sync` is computed as the code does, so that sizes whose
struct lies behind the last page of the segment end in a fault.

**UintrPro.**  The code as it stands: `ui_handler` is defined and never
registered, so its action is never enabled.

**Mq.**  The queue is a sequence of typed messages; `msgrcv` takes the first of
a type.  A request has a length, `-s` of its client, and each server compares it
with its own: a longer one stays in the queue (`E2BIG`, state `toobig`), a
shorter one is taken (`short`), and the server throws in both cases, as it does
when its answer finds the queue `full`.  Init ranges over what earlier runs may
have left: servers that still receive (`OldServers`), each with a `-s` of its
own (`OldSizes`), replies whose client was killed (`Stales`, up to a full
queue), or, when the server was killed before its client as `results/bench.sh`
does, behind the replies a request of any `-s` (`unserved`).  More than one such
request, and a client of an earlier run that is still running, are left out.
`Lag` says which request each measurement belongs to, `Harmless` which of these
leftovers cannot keep the client waiting: no old server with a larger `-s`, and
no request but one of this run's length in a queue with room.  Sizes in ascending
order, as in `results/bench.sh`, are harmless in this sense.

**TimedClient.**  The loop `tv_usec - start > 100000`, with the second scaled
down and the clock free to run on between any two steps, up to `MaxPause`.  The
statistics are computed as the code does, in an unsigned type (`Wrap` for 2^64)
and with a `minimum` that starts at `MinInit` for `INT32_MAX`; a latency may be
larger than that, or negative, which wraps: the sums of `EventfdUni` lie ahead of
the clock.

## Runs

| Run | Instance | What it shows |
|---|---|---|
| `MCKfifo` | 4 slots, indices wrap after 8, 10 bytes | invariant, order and integrity, no data race, exact lengths, refinement of the queue |
| `MCShm` | segment and file, every leftover, an old server or none, 3 rounds | turns, fresh timestamps, no race, answers, who is turned away or killed |
| `MCEventfd` | two-way: 3 messages; one-way: 5 timestamps fit, 3 reads | one token and agreeing rounds, complete, progress; sums, answers, a server that sleeps for ever |
| `MCUintrfdBi` | 6 messages, calls that succeed or may be refused | nothing merged, rounds, complete results, safe set-up, termination |
| `MCOneWay` | 3 interrupts, registration may fail; a second of 10 ticks, 6 starts, 2 messages, latencies on both sides of the initial minimum and one that wraps | in step (which implies that nothing is merged), fresh, quiet, termination; on time and not early, what the statistics say, when the loop ends |
| `MCSignals` | all three methods; counts 0, 1, 3; both kinds of sleep and of shell, every leftover FIFO, 3 rounds | who is killed and when, turns and nothing merged, answers and results, who is left behind |
| `MCMq` | up to 2 old servers with a smaller, the same or a larger `-s`, up to 3 old replies or an old request, room for 3, 4 rounds | handshake, where every request is and who throws, lag of each measurement, answers |
| `MCSockets` | both methods, blocking and busy, 1, 2 and 4 units, pieces of 2, 2 rounds | what is measured, answers, who spins, how a run leaves its server |
| `MCShmSync` | counts 0, 1, 3; sizes around the page, a leftover of `shm`, with spurious wake-ups and without | one measurement at most, everybody waits |

Where a comment or `src/README.md` promises what the code does not do, the
promise is a property and the run shows its violation; the findings in
`PROJECT.json` quote the promise.

| Violation run | Promise | What TLC finds |
|---|---|---|
| `MCUintrPro` (`Notified`) | `uintr-pro/server.c:109`, notify the client | no handler is registered, the first notification kills the server, nothing is ever taken out of the ring |
| `MCTimedClient` (`Finishes`) | `README.md:34`, run benchmarks and print results | a loop that starts in the last tenth of a second never ends |
| `MCSocketsDomain` (`Measures`) | `README.md:54-57`, `./domain -c 1000000 -s 100` | the server throws after its first answer, the client's second request fails |

`MCEventfd` and `MCOneWay` run two models at the same time that share nothing,
the pairs whose theorems share a proof module; their state is the product of the
two, so their bounds are small.

Bounds.  The ring needs more bytes than `Wrap` to wrap both indices while a
call is in progress, and lengths up to the ring's size to fill, empty and split
a copy.  The ping-pong protocols have the same states in every round except for
the counters, so a few rounds reach every interleaving; the counts are larger
than needed.  Five timestamps fill the eventfd of the instance (ten the real one), and three reads reach a read
after a full and after an empty counter.  Four rounds of the message queue are
enough for three old replies to be used up and for the lag to show afterwards;
two old servers can die of one request each, or one of them can take the request
away while the other is behind.  With `MinInit` 9 and `Wrap` 20 a latency of 12
is above the initial minimum, two of them wrap the sum, and -3 wraps itself.

The sizes of `MCSockets` are a message the domain server accepts, one it does
not, and one that arrives in two pieces; a second round meets an `errno` left by
the first.  In `MCShmSync` 45 is the largest size that does not overrun the page
(`SyncSize` is 88 on a 64-bit build), and the default of 4096 is beyond it.

Several things the passing runs state are what the code does and hardly what was
meant:

* `LeftBehind` (`MCSignals`): the signal client tests `args->count` but
  decrements `args->size`, so it waits for ever once the server has finished;
  a FIFO client that comes before `mkfifo` gives up and leaves its server in
  `fopen`, although a comment (`fifo/client.c:19`) says "Wait for the server to
  create the FIFO".
* `leader` in `Answered` (`MCSignals`) is needed: started by a script, the parent
  leads no process group, `setpgid` fails and nothing runs.
* `Clean` in `Fresh` and `NoRace` (`MCShm`) is needed: with a server left over
  by an earlier run the client measures with timestamps of earlier requests.
  The comments in `shm/server.c:15` and `shm/client.c:18` say that the segment is
  removed with its last user; `shmdt` alone does not do that, and nobody calls
  anything else.
* `Summary` (`MCOneWay`): a program all of whose latencies are above two
  seconds prints `INT32_MAX` as its minimum, and after a start ahead of the clock
  maximum and average are huge.
* `Backlog` and `Harmless` (`MCMq`): a server left over by a run with a larger
  `-s` takes a request, throws and leaves the client waiting for ever; a server
  with a smaller one throws, and the request is still there for the next.
* `Lingers` (`MCEventfd`): the server ends in a write nobody makes room for.
  The client takes the counter, in general a sum of several timestamps, for one
  timestamp; `Sums` says exactly what it reads.
* `Answered` (`MCSockets`): a busy-waiting client whose server has given up spins
  for ever if it was once quicker than the server (`Deserted`).
* `Aftermath` (`MCSockets`): failures of `connect` and `bind` are compared with
  1 and go unnoticed; the client dies of `SIGPIPE`, the server waits for ever,
  and the next run connects to it.
* `Measured` and `Deadlocked` (`MCShmSync`): the condition-variable benchmark
  cannot measure a second message, and with the default `-s` both processes fault
  on a `struct Sync` behind the segment.

Deadlock is checked where a stop would be an error; the benchmarks end, or a
process waits for ever by design, and those configurations say
`CHECK_DEADLOCK FALSE`; termination is then stated as a temporal property.

Fairness.  A process or thread that can take a step is scheduled (weak
fairness of each process, not of single actions), a posted interrupt is
delivered to a running thread that has them enabled, a sleep ends and time
passes.  Spinning threads are preempted.  Nothing is assumed about who wins a
race: in `EventfdBi` a process may take its own token again and again, and
`Progress` says that this is the only way not to end.

## Proofs

Proofs are in modules of their own; all are checked by TLAPS.  Three of them hold
the theorems of two programs and extend both models, whose definitions have
different names for that reason (`SyncSpec`, `UniSpec`).  `UintrPro` is
instantiated in `UintrfdProofs`; its theorems carry what they need of its
constants as a hypothesis, because `INSTANCE` does not make it a fact.

Every invariant of a passing run is proved.  So is the safety part of the
properties that need fairness: for a promise that somebody goes on, that no
reachable state has everyone waiting (`NoDeadlock` and the like); for a promise
that somebody waits for ever, that the wait, once entered, has no way out
(`...ForEver`).  What is left to TLC is that fair scheduling gets there.

* `KfifoProofs`: `RingSafe` (`RingInvariant` is inductive) for every `Size`,
  `Laps >= 2` and every bound; from it `RingDelivers`, `RingOccupancy` and
  `RingRaceFree`.  `Delivered` alone is not inductive: one needs that the
  indices are the stream positions modulo `Wrap` (`Indices`), that every
  published byte is in its slot (`Contents`), and what a call in progress may
  rely on (`WriterClaim`, `ReaderClaim`).  The arithmetic is in lemmas about
  division with remainder: two positions less than `Size` apart are in different
  slots, the two `memcpy` pieces place byte `i` at the masked index, and
  unsigned differences are exact when the positions are at most `Size` apart.
* `ShmProofs`: `Turns` is inductive, for every set of old servers and every
  leftover, and gives `ShmFresh` and `ShmRaceFree`.  It needs `Placed` and
  `Together`: as long as the client runs there is one object only, and whoever
  has opened one has that one.  `NoDeadlock` says that a waiting client and the
  server of its run are on the same object, with a guard one of them waits for,
  also when servers of earlier runs answer in between.  `StrandedForEver` needs
  `Leftover`, what a run knows from what it found: the client faults only in a
  clean run, so no request is left that could wake the server.
* `ShmProofs`, the condition variable (`ShmSync`): `MeasuredSafe` and
  `LockedOutForEver`.  The idea of `SyncInvariant` is in `HeldOnce`: after its
  first wait the server holds the mutex, and nothing unlocks it but the client,
  by initializing it late or by beginning a wait while the server has it.  Only
  one of the two can happen, and once, so the server gets through one more wait
  at most.  Without spurious wake-ups (`OnlySignals`) its first wait is ended by
  the client's first signal, when the client is past both, and then not even that.
* `KfifoProofs`, refinement: `RingIsQueue` proves `Spec => QueueSpec`.  The
  queue of `KfifoQueue` is the stretch of the stream between `out` and `in`
  (`Held`); `StretchPut` and `StretchGet` say that publishing an index appends
  to it or takes its front away, and `RingInvariant` that the lengths are
  allowed.  All other steps of a call leave the stretch alone.
* `EventfdProofs`: `TokenSafe`, `OneTokenSafe` and `CompleteSafe` for every
  count.  `OneToken` needs `Lockstep`: that there is no token while the client
  does not wait.  `Complete` follows from the invariant with what the two counts
  are when the server leaves its loop (`AllAnswered`).  `NoDeadlock` adds that a
  client that has ended has no round left.
* `EventfdProofs`, one way (`EventfdUni`): `SumsSafe` for every clock,
  bound and width of the counter.  `SumsInvariant` adds to `Sums` that the
  timestamp about to be written lies between the start and now, which is what a
  write adds to the bounds of the sum; the products are in `TimesStep`.
  `NeverBothBlocked` uses the assumption that one timestamp fits into the
  counter; `StuckForEver` is about the server after the client has ended.
* `UintrfdProofs`: `RoundsAgree` and `SetupNeverFails` for every count, every
  moment of delivery and every refusal.  `Rounds` is not inductive without
  `Waits` (a flag that ended a spin is still set when it is cleared) and
  `SetupSafe` not without `Routes` (a thread past a step of the set-up has what
  that step gives it).  `NoDeadlock` covers the set-up too, and needs that a
  thread has enabled delivery before it waits (`Enabled`).
* `UintrfdProofs`, the ring with a doorbell (`UintrPro` as `Pro`), for any set of
  servers of earlier runs: `ProSilent` (no interrupt is posted, no server gets
  past its first notify) and `ProNeverEmptied`, which say that the violation of
  `Notified` is not a matter of the schedule.
* `SignalsProofs`: `SurvivesSafe` and `InTurnSafe` for all three methods, every
  count, number of rounds, sleep, shell and leftover.  `TurnInvariant` follows
  the turn: it is with the client, a pending `SIGUSR1`, with the server (for FIFO
  and pipe: in the stream), or a pending `SIGUSR2` (`SignalTurn`, `StreamTurn`).
  Only the first request can be lost, at a server that is not set up yet, and
  `OrderedStart` says when it cannot.  `NotLostSafe` follows that first request
  through an ordered start; `LeftForEver` needs `ClosedEnd`, that a client that
  gave up has not opened the FIFO.
* `SocketsProofs`: `SocketWorks` and `SocketGivesUp` for every length, segment
  and number of rounds, with a server of an earlier run or without.
  `SocketInvariant` says who can be connected to whom (`Connection`,
  `SignalFirst`), that one request is under way at most, and in which direction
  (`OneRequest`), that a message that fits is never cut (`OnePiece`), and that a
  domain server asked for more than eight bytes is on its way out with its first
  answer (`FirstIsLast`); so `GivesUp`, one measurement at most, holds whatever
  the schedule.  `PiecesSafe` says of a message that lost a part that what is
  left never adds up to its length, and `AbandonedForEver` that the servers of
  `Aftermath` and a `Deserted` client stay where they are.
* `MqProofs`: `HandshakeSafe`, `BacklogSafe` and `LagSafe` for any set of old
  servers (which may be infinite: that only finitely many of them have taken a
  request is proved), any sizes, any number of replies found up to the capacity,
  with a request behind them or not, and any number of rounds.  `Backlog` needs
  `Started`, that every request in the queue has this run's length or that of
  the one found (`Lengths`), that nothing moves in a queue found full of replies
  (`Jammed`), and that the servers with a request are a finite set.  `NoDeadlock`
  follows from the same invariant, for the leftovers that are `Harmless`; TLC
  shows that with others a client does wait for ever.
  `Lag` needs three things more: no reply is from
  the future (`Stamps`), the replies found are the front of the queue until they
  are used up (`OldFirst`), and with one server the n-th reply in the queue is at
  most `Found` requests behind the n-th one the client is going to ask for
  (`InOrder`).  The rank of a reply is given by a function that exists, not by
  recursion over the queue; `Counts` bounds its growth between any two places,
  which is what an induction would have to show, and `CountsAppend` and
  `CountsRemove` maintain it when a message comes or goes.
* `OneWayProofs`, the timed loop (`TimedClient`): `OnTimeSafe` for every length of
  a second, limit and start.  `NotEarly` is why the loop never stops early: `tv_usec` is never
  further from its start than the time that has passed.  `NotLate` is why it
  stops in time if it starts early enough: `tv_usec` does not start over, and the
  limit had not passed at the last look at the clock.  `NeverEnds`: with a start
  in the last tenth of a second the loop never leaves its test.  `SummarySafe`
  (from `Figures`) holds for all latencies: the minimum is that of the latencies
  and `INT32_MAX`, and the bounds on the average have as their hypothesis that
  `count * maximum` is in the range of the type, so that the sum has not wrapped
  (`Wraps`).
* `OneWayProofs`, user interrupts (`UintrfdUni`): `InStepSafe` for every count, and
  from it `FreshSafe`, `NothingMergedSafe`, `QuietSafe` and `NoDeadlock`.

The theorems assume the named assumptions of the modules on their constants,
which TLC evaluates in every run: counts are positive, settings are among those a
run can have, indices have room for two laps, an earlier run left no more than
a full message queue, one timestamp fits into an eventfd, and the bound on the
elapsed time is above the limit of the loop.  The theorems on `UintrPro` assume
that the processes have different names.  The inductive invariants were checked with TLC on the instances of the
runs before they were proved.

Only model-checked: the properties that need fairness (`Answered`, `Stranded`,
`Progress`, `Served`, `Lingers`, `Terminates`, `LeftBehind`, `Ends`, `Aftermath`,
`Deadlocked`).  Fairness and `ENABLED` are out of the prover's reach; their safety
parts are proved, as said above.

## Not modelled

* ZeroMQ: the program is a request-reply loop; everything that could go wrong
  in it (buffering, reconnection, the order of requests and replies) is done by
  the library, which is not part of the repository.
* `check_flag`, `parse_arguments`: sequential parsing; the settings they produce
  are constants or chosen in Init.  `utility.c`: `throw` is the error state of
  each model.
* The rounding of `__kfifo_init`: the one caller passes a power of two.
* Socket options other than `O_NONBLOCK`, and what is in the payload.
* The experiments under `tcp/other`, `source/other`, `other/fexp` and
  `mq/flexible-array-test`, which no benchmark uses; the result script; the
  wording of the output; `find_build_path` and the building of argument vectors.
