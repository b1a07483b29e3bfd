# Embassy in TLA+

TLA+ models of embassy: the executor with its run queue, timer queue and timer
futures, the clocks that drive it, the interrupt-driven drivers of the nRF and
STM32 crates, the USB serial port, and the library that they share: signals,
wakers, portals, ring buffers and I/O futures. TLC checks small instances of
them; TLAPS proves their safety for every instance: the run queue and the
executor with any number of tasks, executors and interrupt contexts, the nRF
clock and its alarms for any length of its period, the buffered UART and the USB
serial port for buffers of any size, and the drivers and the library's
primitives.

Paths below are relative to the repository; `raw.rs`, `run_queue.rs` and
`timer_queue.rs` are in `embassy/src/executor/`.

## 1. The system

Embassy runs `async` tasks without an allocator or an operating system.

| part | state | operations | talks to |
|---|---|---|---|
| run queue (`run_queue.rs`) | atomic `head`, a link in every task | `enqueue` from anywhere, `dequeue_all` by the executor | task state, executor |
| tasks (`raw.rs`) | bits SPAWNED, RUN_QUEUED, TIMER_QUEUED; executor pointer; future; `expires_at` | `spawn`, `wake`, `poll` | all executors, all contexts |
| executor (`raw.rs`, `executor/mod.rs`) | its two queues, signal, alarm | `run_queued`, `enqueue`, then `wfe`, an interrupt or a condition variable | clock, alarm, tasks |
| timer queue (`timer_queue.rs`) | a private list through the tasks | `update`, `next_expiration`, `dequeue_expired` | task state and `expires_at` |
| nRF clock (`embassy-nrf/src/rtc.rs`) | 24-bit counter, half-period count, three alarms | `now`, `set_alarm`, `on_interrupt` | the executor's signal |
| ring buffer (`embassy-extras/src/ring_buffer.rs`) | `start`, `end`, `empty` | `push_buf`/`push`, `pop_buf`/`pop` | DMA, drivers |
| `PeripheralMutex` (`embassy-extras/src/peripheral.rs`) | driver state, whether the handler is set | `register_interrupt`, `with`, drop | the interrupt |
| buffered UART (`embassy-nrf/src/buffered_uarte.rs`) | two rings, two DMA states, two wakers | `poll_fill_buf`, `consume`, `poll_write`, `set_baudrate`, `on_interrupt`, drop | DMA, idle timer, executor |
| `Signal`, waker registrations, `Portal` (`embassy/src/util/`) | a waker or a value; a pointer into a waiting frame | `signal`/`reset`/`poll_wait`, `register`/`wake`, `call`/`wait_once`/`wait_many` | executor |
| interrupts (`embassy/src/interrupt.rs`, `util/signal.rs`, `embassy-extras/src/peripheral_shared.rs`) | handler and context, enabled and pending | `wake_on_interrupt`, `InterruptFuture`, `irq_wake_handler`, `Peripheral` | drivers, executor |
| nRF drivers (`uarte.rs`, `spim.rs`, `saadc.rs`, `qspi.rs`, `gpiote.rs`) | event, interrupt and DMA registers, wakers, latches | a future per operation, an interrupt handler, drop | DMA, pins |
| STM32 drivers (`exti.rs`, `f4/serial.rs`, `can.rs`) | edge selection and pending bits; stream and USART in an `Option`; mailboxes | waits for levels and edges, `read`/`write`/`read_until_idle`, `transmit`/`receive` | `InterruptFuture` |
| STM32 clock (`embassy-stm32/src/rtc.rs`) | 16-bit counter, half-period count, alarms | as the nRF clock | the executor's signal |
| USB serial (`embassy-extras/src/usb/`) | two rings, errors, `write_state`, two wakers | `poll_fill_buf`, `consume`, `poll_write`, `endpoint_out`, `endpoint_in_complete`, `reset` | host, executor |
| timer futures (`executor/timer.rs`) | a deadline each, one `expires_at` per task | `Timer`, `Ticker`, `with_timeout` | executor |
| `embassy-std` | a flag under a mutex, a condition variable, one alarm | `signal`, `wait` | executor, threads |
| I/O adapters (`embassy/src/io/util`) | position in a buffer | poll loops over a reader or writer | drivers |

What is hard in it:

* Everything is lock-free. A task is woken by an interrupt while it is being
  spawned, polled, taken from a queue or finished.
* Only the enqueuer that finds the queue empty signals. A signal that is lost
  means an executor that sleeps for ever.
* Task storage is static and reused, possibly on another executor, while stale
  wakers and an old timer entry still refer to it.
* Deadlines pass while the timer queue is being scanned and the alarm is set;
  the alarm itself is a compare register that may miss a value written late.
* The clock is assembled from a counter that wraps and a count that a late
  interrupt keeps.
* DMA fills and drains buffers while slices of them are lent to futures, and
  the driver may be dropped at any moment.
* A driver's future looks at an event, registers a waker and enables an
  interrupt, and its handler undoes these, each in several steps; the future
  may be dropped between any two of them and the next one finds what is left.
* The host takes packets when it likes, and sees a full one only when a shorter
  one follows.

What makes each part correct: the list is intact and holds each task once, no
wake-up is lost, futures are used only while they live, deadlines are kept, the
clock is exact and alarms are in time, bytes are neither lost, repeated nor
overwritten, and whoever waits is woken. `PROJECT.json` lists the hazards line
by line with the property that watches each.

## 2. The modules

| module | models | |
|---|---|---|
| `BatchQueue` | what the run queue promises: an atomic queue emptied in batches | abstract specification |
| `RunQueue` | every atomic access of `enqueue` and `dequeue_all` | implements `BatchQueue` |
| `Executor` | tasks, wakers, spawners, executors, timer queue, alarms | uses the queue of `BatchQueue` |
| `ExecutorBypass` | `Executor` with a count of the polls by which a queued task is overtaken | the executor's run |
| `Rtc` | the nRF clock and its alarms | stands below the `alarm` and `now` of `Executor` |
| `RingBuffer` | index arithmetic | operators |
| `BufferedUarte` | driver, interrupt handler, DMA, idle timer | uses `RingBuffer` |
| `StmRtc` | the STM32 clock: the driver's steps of `Rtc` on another timer | extends `Rtc` |
| `IrqDevice` | event, interrupt, handler, waker and future of any driver; `wake_on_interrupt`, `InterruptFuture`, `Peripheral` | shared state of the drivers |
| `NrfDma`, `NrfGpiote`, `StmDevices` | the drivers of the nRF with DMA, its GPIOTE, and EXTI, serial and CAN of the STM32 | extend `IrqDevice` |
| `Drivers` | all of these, one per behaviour | composes the three |
| `Usb` | the USB serial port | uses `RingBuffer` |
| `StdExecutor` | the executor of `embassy-std` and a task with three timer futures | |
| `SignalPortal` | `Signal`, `WakerRegistration`, `Portal` | |
| `IoAdapters` | the futures of `io/util` and `read_line` | |
| `Library` | the last three, one per behaviour | composes them |
| `Parts` | `Library` or `Usb`, one per behaviour | their run |
| `SeqFacts` | lemmas about sequences and about `RingBuffer` | used by the proofs |
| `RunQueueProof`, `ExecutorProof`, `RtcProof`, `BufferedUarteProof`, `UsbProof`, `DriversProof`, `LibraryProof` | the proofs of section 4 | each extends the module it is about |
| `MC*` | instances for TLC | |

Definitions named "Mutant" are wrong versions of the definition that follows
them. With one of them in its place the property it is paired with in
`PROJECT.json` is violated, which shows that the property depends on that code.

### RunQueue and BatchQueue

`head` and `next` are the pointers of the code. A producer is in
`TaskHeader::enqueue`: it wins RUN_QUEUED (`Claim`), loads `head`, stores its
link, and exchanges; the exchange is the weak one, so `CasFail` is always
possible. The producer that found the queue empty goes on to `Signal`. The
consumer swaps `head` with null, and for each task reads the link before it
calls `on_task`, which makes the task claimable again. `queue` and `batch` are
history variables that say what the links should be.

### Executor

A task's `state` is the set of its bits. Each caller (an executor from inside a
poll, or a context) is in at most one `wake` or `spawn`, whose steps are the
writes another party could observe: `Allocate`, `Initialize`, `Bind` (the
executor pointer), `Push`, `Signal`. An executor's `pc` follows `run_queued`:
`Start`, `Expire`/`Unlink` (dequeue_expired), `Swap`, `Take`, the poll
(`RegisterTimer`, `PollPending`, `PollReady`, `Finish`), `Update`, `BatchDone`,
`Rearm`/`Unlink` (next_expiration), `SetAlarm`, then the wait. The future is
abstract: during a poll it may wake and spawn anything, register any deadline,
return pending or ready.

Executors and contexts interleave freely. That is how threads behave; with
interrupt priorities fewer interleavings exist, so safety carries over.
The finding about migrating tasks needs two executors that interleave as
threads do, or one that pre-empts the other in the middle of `update`.

### Rtc

Time is a pair of half-periods and ticks, so that the wrap of the counter is
explicit. `Half` stands for 2^23; the window of 0xc00000 is one and a half
half-periods and the margin of three ticks is kept as it is. The interrupt is
one step per register access group, so that `now()` and `set_alarm` fall
between them. The peripheral is external: it raises events, and it may miss a
compare value that is written one tick ahead, as the code's comment says.

### BufferedUarte and RingBuffer

Bytes are numbered in the order of their arrival or of their acceptance by
`poll_write`, so order, loss and repetition are visible in the buffers'
contents. `on_interrupt` is one step per iteration of its two loops, with DMA
activity in between; the owner's methods run with the interrupt disabled. The
UARTE, its DMA, PPI and the timer are external actions. Lengths of the idle
timeout, pins and flow control are left out.

### IrqDevice and the drivers

A driver has two lanes: reception and transmission, or two pins. A lane holds
the future of an operation, the event it waits for, whether the peripheral's
interrupt is enabled, the waker, and the transfers in progress. What an
operation leaves behind is marked "stale" when the next one begins, so that
whose event completed an operation, and whose buffer the DMA uses, can be told.
The interrupt line is a level. `TaskRuns` says whether a task can run while the
handler does: `Above` names the drivers checked with a task that pre-empts its
handler, which is `PortInput` only.

* `NrfDma`: `UarteStart` (`UarteRead`, `UarteWrite`), `UarteCheck` (the poll
  after `Register`), `UarteCancel` and `UarteCancelled` (the `OnDrop`),
  `UarteDrop`, which enables the interrupts of RXTO and TXSTOPPED, then
  `UarteDropSleeps` (its WFE) until `UarteDropped`; `on_interrupt` is a step per
  access, with its branches for the end of a transfer (`UarteHandlerWakes`,
  `UarteHandlerMasks`) and for its stop (`UarteHandlerStops`). The return of the
  handler ends a WFE; other events may end it too (`UarteDropWakes`).
  SPIM, SAADC and QSPI share `TakeEvent` and `AwaitEvent`, the two halves of
  their poll; QSPI's `DropBomb` is `QspiCancel`. They begin before `new`, and
  may be made again: `SpimNew` while an old transfer goes on, `QspiNew` and
  `QspiActivated` with the spin between them, in which an interrupt that an
  earlier operation left enabled is taken.
* `NrfGpiote`: `on_irq` has a step for each access between which another actor
  can come. A channel's event is read, its interrupt disabled, its task woken
  (`ChannelHandler*`); of a port (`PortHandler*`) the latch is read, senses
  disabled, tasks woken and the latch cleared.
* `StmDevices`: the waits make an `InterruptFuture` (`MakeFuture`,
  `SetContext`, `Interrupted`). EXTI arms an edge and then looks at the level;
  serial takes stream and USART out of their options and puts them back when
  the transfer is over; CAN has three mailboxes and a receive queue that
  may be overrun.

Refused arguments change nothing and are left out; so are pins, rates and the
data.

### Usb

`with` disables the interrupt, so that a call of an interface and a callback of
the class are one step each. Bytes are numbered. `flush_write` follows the code
through its five outcomes, in which `write_state` advances even if the endpoint
was busy. `usb_device` and the bus are external: a packet that does not fit
into the buffer of `read_packet` is refused and stays or is gone, `write_packet`
may fail, a reset empties both endpoints.

### StdExecutor, SignalPortal, IoAdapters

`StdExecutor` has one step for what happens under the mutex, a timeout that
fires before the thread has the mutex again, and spurious wake-ups. The task
polls its timers one by one while time passes; each pending one registers in
the one `expires_at` that `run_queued` has reset. `SignalPortal` has two waiters
that are cancelled and come back; a call of a portal runs the closure of a
frame, which for `wait_many` may call the portal again. In `IoAdapters` a step
is one turn of a future's loop: the reader lends any beginning of what it has,
the writer takes any part of what it is given, either may fail. Each result is
compared with a definition over the whole input (`Promise`).

### StmRtc

The driver is that of the nRF almost line by line, so `StmRtc` uses the steps
of `Rtc` and replaces the timer: which interrupts are enabled, a flag that is
set whether or not its interrupt is enabled, and no missed matches.

## 3. The runs

| run | bounds | shows |
|---|---|---|
| `run_queue` | 3 tasks, 2 producers | links intact, each task in one place, no lost wake-up, refinement of `BatchQueue`; a queued task is run |
| `executor` | 2 tasks, 1 executor, 1 context, times 0..1 and never | safety of tasks, queues, timers and sleep; a queued task is overtaken at most twice by another; woken tasks are served, deadlines kept, finished tasks freed |
| `rtc` | half-period of 12 ticks, 3 half-periods, 1 alarm, latency 1 | clock exact, alarms armed in time, no match of an earlier lap |
| `buffered_uarte` | rings of 3 and 2 bytes, 7 bytes received and 5 sent | order, no overwriting, drop; readers and writers woken, reception restarts |
| `drivers` | nine drivers with two operations each, any number of them, cancelled at will | no lost interrupt, operations completed by their own event, no DMA left, panics (CAN's aside) only after a cancelled future; operations and drops end |
| `parts`: USB | rings of 4 bytes, packets of 2, a short one forced after 2, 7 bytes in and 8 out | order, no loss without an error, sleepers have something to wait for; the host sees what was written |
| `parts`: library | 2 threads and times 0..2; 2 waiters; inputs of up to 5 bytes of three kinds, buffers of up to 2 | no wake-up or timer slept through, woken tasks and all timers served; no waiter forgotten; portals call live frames; adapters keep every byte |

Why the bounds are enough. Three tasks and two producers allow a lost exchange,
a head that returns to an old value, and relinking during a batch. In
`executor` two tasks are needed for a queue with an order and a timer list with
a middle; time needs a past, a present and "never"; `MaxBypass` counts one poll
more than the property allows. Twelve ticks keep the window, the margin of
three ticks and the latency apart, and three half-periods cover an overflow, a
midway event and an alarm put off over both. Seven bytes go more than twice
around a ring of three, five around a ring of two. In `drivers` nothing is
counted but the CAN frames, of which two wait to be received and one overruns
the queue in a `receive`: two lanes are all that the drivers have, or two
pins for what pins do to each other, and operations may follow each other for
ever. The second pin of a port and of EXTI waits for one kind of change only.
For USB a ring holds two packets, the seventh byte is in the second lap, and
two full packets in a row reach the forced short one; the directions share
nothing but the reset and are explored one at a time. Five bytes hold a line
with a line end before and after it and both cut anywhere.

Time, periods and bytes are bounded in the guards (`MaxTime`, `StdMaxTime`,
`MaxPeriod`, `MaxRx`, `MaxTx`); `Latency` and `ReadTime` bound how late an
interrupt and how slow a read may be, which the code needs as well: no clock of
this kind survives an interrupt that is late by half a period.

Deadlock is checked for the run queue and the executor. The clock stops at
`MaxPeriod`, a dropped UART has nothing left to do, a driver that has panicked
and an adapter that has completed stop, and the host may have sent everything.

### What the properties exempt

Where the code leaves something open the property names the exemption, so that
it holds of everything else:

* `NoTransferIsLeft` and `CompletedByOwnEvent`: a transfer of SPIM or SAADC
  whose future was dropped goes on, and its end may complete the next one; the
  same is true of an EXTI edge of the old polarity and of a latch that an
  earlier wait left. `Can::transmit` returns at the first interrupt of any
  mailbox, although `can.rs:41` speaks of the frame.
* `PanicsOnlyWhenCancelled` excepts CAN, whose `unwrap` (`can.rs:46`) panics
  with no future dropped; the run `can_mailboxes` is about that.
* `NoLostInterrupt` and `OperationEnds` are about a task below its interrupt, and
  above it for `PortInput` only, which `DriversAssumption` says. The others do
  not stand a task that pre-empts their handler: `irq_wake_handler`
  (`signal.rs:95`) and `Uarte` (`uarte.rs:145`) wake before they mask, and a
  GPIOTE channel masks what the task has enabled since the event was read
  (`gpiote.rs:80-81`). With them in `Above`, and the assumption dropped, TLC finds
  the task left asleep.
* `ReadInOrder`: a reset between `poll_fill_buf` and `consume` makes `consume`
  pop what is no longer there (`usb_serial.rs:65`). `SleepersWait`: neither a
  reset nor a failed `write_packet` wakes a writer, and a reader that an error
  has not woken (`usb_serial.rs:290`) may sleep with the error pending.
* `NoWaiterIsForgotten`: `Signal::reset` drops the waker of a waiting task.
* `AdapterKeepsBytes`: after a lone CR `read_line` reads a byte of the next line
  (`io/util/mod.rs:138`); `drain` never completes over a reader at its end.

### Where code and comments disagree

Six runs are expected to fail. Each states what a comment says.

| run | statement | what happens |
|---|---|---|
| `executor_migrate` | a timer completes (`executor/timer.rs:44`) | a task respawned on another executor before `update(p)` can lose its deadline (`raw.rs:219`) |
| `rtc_two_ticks` | alarms are at most two ticks late (`rtc.rs:210`) | `next_period` writes the exact value over the safe one, and it can be missed (`rtc.rs:156`) |
| `buffered_uarte_early` | the registration enables the interrupt (`buffered_uarte.rs:121`) | `set_baudrate` enables it first, with no handler set (`buffered_uarte.rs:180`) |
| `can_mailboxes` | `transmit` is "Infallible" (`can.rs:45`) | the flag of an earlier frame ends a `transmit` before its own is sent, and the one that finds three mailboxes taken panics (`can.rs:46`); this needs no future dropped |
| `stm_rtc_now` | `now()` is right even if it races an overflow (`embassy-stm32/src/rtc.rs:22`) | the interrupt of the overflow is never enabled, so the period lags until another interrupt comes (`rtc.rs:94`), and `now()` is a lap behind after the midpoint |
| `usb_room` | `read_packet` needs room for a full packet (`cdc_acm.rs:35`) | `endpoint_out` passes what is free at the end of the ring (`usb_serial.rs:287`) |

Met on the way, without a run: batches run newest first, so that a task can be
polled twice while another waits, which `README.md:24` excludes
(`BypassedAtMostTwice` is the bound that holds on every executor); `set_alarm` of
the nRF clock leaves an old event in place, and the new alarm is triggered by it,
early (`rtc.rs:136` against `rtc.rs:211`); `qspi.rs:219` stores the upper half of
an answer over the lower.

### Fairness

* Run queue: the consumer's loop goes on, and an enqueuer that has linked its
  task signals. Nothing is assumed about the exchange, which an enqueuer may
  lose for ever.
* Executor: calls of `wake` and `spawn` finish, the loop of each executor goes
  on, the alarm calls back, time passes. Polls return (strong fairness, since
  the calls made from a poll interrupt it): a future that blocks stops its
  executor by design. Wakes, spawns and spurious wake-ups are never assumed.
* Buffered UART: an enabled and pending interrupt is taken and returns, the
  peripheral transmits what it was given, the idle timer expires. No bytes need
  arrive, the owner need not call, and drop need not end.
* Drivers: handlers run on and a peripheral ends what it has begun (weak). An
  interrupt that is pending again and again is taken, and a task that is woken
  again and again is polled (strong, since another interrupt or the task of the
  other lane may come first each time). Nobody need call, cancel or move a pin,
  and nothing but the handler of RXTO or TXSTOPPED need end the WFE of a drop.
* USB: the host polls the IN endpoint and the interrupt that follows is served.
  It need not send, and neither reader nor writer need call.
* `embassy-std`: threads run, those that must signal do, and time passes. Wakes
  and spurious wake-ups are never assumed.

## 4. The proofs

Every safety property of the passing runs is proved for all values of the
constants. Most are not inductive. Each module defines the invariant that is, TLC has checked it on the
instance of the run, and the theorems follow from it.

`SeqFacts` holds the facts that several of these proofs use: what appending,
prepending, popping and removing do to a sequence, and what `push_buf`, `push`,
`pop_buf` and `pop` do to a ring of any size. `Ring` is the invariant of the two
indices and the flag; `Used` and `At` say how many bytes the ring holds and where
the i-th of them is, so that wrapping is met in these lemmas and nowhere else.

`RunQueueProof`, from `RunQueueAssumption` only (null is not a task):

* `LinksHold` (`LinksIntact`) and `QueueIsSound` (types, `OnePlace`) are proved
  together. Neither is inductive alone: links stay intact because nobody else
  writes the link of a task that a producer holds, which is `OnePlace`; and
  `OnePlace` needs the consumer to be where the links say it is. `next` of a
  producer in its exchange is also needed: it equals the `prev` it will compare
  with, so that a successful exchange is right even if `head` has changed in
  between and come back.
* `WakeupsArrive`: `NoLostWakeup`.
* `Refinement`: every step of `RunQueue` is a step of `BatchQueue` or none.

`ExecutorProof`, from `ExecutorAssumption` (alarmed executors are executors,
executors are not contexts, null is neither, time is bounded by a number):

* The inductive invariant is `TypeOK`, `Phases` and `Sound`. `Sound` joins
  `RunQueuedOnce`, `FutureSafety`, `RunsAtHome` and `Lifecycle`, which need each
  other: a future is initialized safely because allocation wins the bits of a
  free storage, it stays at home because nobody rebinds a task that is queued,
  and the bit stands for one place because every place agrees on the executor.
  `Lifecycle` adds what none of them says: who may have the storage between
  allocation and the end of a poll. `Phases` ties `pc` to the batch and to the
  calls that the executor itself makes.
* `TypesHold`, `TasksAreQueuedOnce`, `FuturesAreSafe` and `TasksRunAtHome` are
  its consequences. The last has no run: with the one executor that TLC can
  afford here, a task cannot be at the wrong one.
* `NoWakeupIsLost` follows with a strengthening, `SignalOwed`, that speaks of
  every point of the loop after the queue was last emptied, not only of the
  wait.
* `TimersAreQueuedOnce` is inductive with the types: the bit is set before the
  task is linked and cleared with its removal, by the owner of the list.
* `PinnedDeadlinesAreKept` (`NoOversleep`), for any number of executors, if each
  task is only ever spawned on one of them (`Pinned`); without that it is false,
  which the run `executor_migrate` shows. `DeadlineInv` says that a task that
  waits is in the timer queue, and follows the scan: before the cursor no
  deadline is earlier than the one `next_expiration` will return. A task that
  expires is queued before it is unlinked, so that it does not wait any more.
  `HomeInv` says that an executor has only tasks of its own in its timer queue
  and in its hands, so that the others leave these and the executor's deadlines
  alone (`Apart`). `DeadlinesAreKept` is the case of one executor, where every
  task is at home.
* `WaitersArePassedTwice` (`BypassedAtMostTwice`), for any tasks, executors and
  victim, of the polls where the victim waits. `BypassInv` tells the two polls apart: while the
  victim is in the run queue the tasks left in the batch have not been polled
  since; once it is in the batch only the newer ones are still to come, and they
  have been polled once at most.

`RtcProof`, from `RtcAssumption`, of which it needs that two latencies of the
interrupt and the time of a read fit into a half-period, and that a half-period
is even and longer than the margins:

* `ClockInStep` (`PeriodInStep`) is not inductive: a second boundary must not be
  reached before the first is counted. `Recent` bounds the age of an uncounted
  boundary by the latency of the interrupt that overlooked it and of the one
  that serves it.
* `ClockIsExact` (`NowIsExact`) also needs that the period a caller has read is
  at most one behind when it reads the counter (`ReaderInStep`); the exclusive
  or of `calc_now` makes up for that one.
* `AlarmsAreArmed` (`ArmedInTime`) and `MatchesAreDue` (`MatchIsDue`, an action
  property), for any number of alarms. `AlarmInv` adds to the clock that an alarm
  in the window of the half-period counted last is enabled (`ArmedInWindow`), and
  that one that is enabled lies less than a lap ahead, with its timestamp in
  the compare register, late by two ticks at most (`NearIfEnabled`). The same is
  said of an alarm that `set_alarm` has accepted and not yet written
  (`SetterIsNear`), since ticks and interrupts fall in between.

* `StmErrsByOneLap`, of the STM32's timer, is what holds in place of the comment
  that the run `stm_rtc_now` refutes: no half-period is lost, and `now()` is right
  or one lap behind, the latter only just after the midpoint (`NowErrsByOneLap`,
  which TLC has checked on the instance of that run). `StmInv` replaces
  `Recent`: an uncounted midpoint is recent, as before (`StmMidRecent`), while an
  uncounted overflow may be half a period old, and if the counter is past the
  midpoint the midpoint is not counted either (`StmOvrflwWaits`), so that two
  overflows never fall together. What a caller of `now()` has read is at most two
  half-periods old, and if `calc_now` cannot make up for that, the midpoint is
  recent (`StmReader`).

`BufferedUarteProof`, from `BufferedUarteAssumption` (buffers are not empty):

* `UarteInv` joins, for each direction, the ring, the transfer in progress and
  where the numbered bytes are. Reception: the transfer was aimed at the free
  space behind the last byte (`Reception`), so what has landed continues the
  ring (`RxBytes`), and the lent slice is a beginning of the ring (`Lent`).
  Transmission: the wire has the first bytes of the ring until `pop` removes
  them (`Transmission`, `TxBytes`). `Quiet` keeps the handler out of a drop.
* Its consequences are `UarteTypes`, `ReceivedInOrder` (`RxInOrder`),
  `LentSliceIsSafe` (`SliceUntouched`) and `TransmittedInOrder` (`TxInOrder`, an
  action property: every step that sends a byte sends the next one written). `DroppedIsStopped` (`DropStopsDma`) adds that the events for
  which drop waits come after the transfers have ended.

`UsbProof`, from `UsbAssumption` (buffers and packets are not empty): `UsbInv` is
one invariant per direction.

* `WritesInOrder` (`WrittenInOrder`): what was written and not received is in the
  packet, then in the ring (`TxOrder`).
* `NobodyOversleeps` (`SleepersWait`): while there is something to send a packet
  is on its way (`OnItsWay`), unless an error or a reset has broken the chain.
* `ReadsInOrder` (`ReadInOrder`) needs most: the ring holds bytes that the reader
  has not had (`RingOrder`), every byte that has left the endpoint is in the
  ring, refused or excused (`NoneMissing`), and a refusal lies behind the slice
  that is lent (`Refusals`).

`DriversProof`, from `DriversAssumption`: the drivers are those that are modelled,
and only `PortInput` has a task that may pre-empt the handler. The second
part is what section 3 exempts. `DriversInv` has one conjunct per driver, because
each keeps its sleepers safe in its own way: `Uarte` enables the interrupt before
it looks at the event again, `irq_wake_handler` masks after it has woken, the port
masks its pin and leaves its latch for later, EXTI arms the edge before it looks
at the level.

* `SleepersAreInterrupted` (`NoLostInterrupt`) needs the enabled interrupt or the
  handler that is about to wake.
* `OperationsEndByThemselves` (`CompletedByOwnEvent`) and
  `TransfersEndWithTheirOperation` (`NoTransferIsLeft`) need that a lane nobody
  has cancelled has no transfer but its own (`OwnTransfer`), and of a port that
  a bit of the latch outlives its wait only while the handler will clear it
  (`Leftover`).
* `PanicsFollowCancellation` (`PanicsOnlyWhenCancelled`, without CAN) needs that stream and
  USART are missing only while an operation has them, or after a cancellation.

`LibraryProof`. Its theorems are about `LibSpec`; the run `parts` checks
`PartsFairSpec`, which adds the fairness of `StdExecutor`. From `WaitersAssumption` (the waiters
are finitely many and are no states of a `Signal` or a `Portal`):

* `SleepersAreRemembered` (`NoWaiterIsForgotten`), with `WaiterInv`.
* `PortalIsSafe` (`PortalFrameLives`), with `PortalInv`: a function that runs is
  that of a frame of `wait_many` without a result, exactly while the portal says
  so.

From `StdAssumption` (a bound on the clock):

* `StdLosesNoWakeup` (`NothingIsSleptThrough`), for any threads. What holds while
  the thread sleeps has to hold from the moment it emptied the queue:
  `SignalPending` says so of the signal, which only a check that returns may
  reset. `TimersPending` follows the one `expires_at` through a poll: it is no
  later than any future polled so far, and the alarm is set for it before the
  thread looks at the signal.

Of the I/O futures, for any input, any buffer and any cut of the input:

* `AdaptersKeepBytes` (`AdapterKeepsBytes`). The property is about results;
  `Midway` says what a pending future has consumed and delivered, as the same
  function of the input that `Promise` is of the whole of it. No induction over
  the input is needed, since the futures' own steps are the induction: a step
  that goes on extends a run of bytes of one kind (`Only`) by what the reader has
  lent, and a step that ends shows that the run is the longest. `Lines` does this
  for each stage of `read_line`, where the start of the line, its length and its
  end are known one after the other.

Only model-checked: all liveness (`QueuedIsRun`, `WokenIsServed`,
`TimerIsServed`, `FinishedIsFreed`, `SleepersAreWoken`,
`ReceptionResumes`, `OperationEnds`, `DropEnds`, `HostSeesAll`, `StdServes`),
which is out of the prover's reach.

## 5. Not modelled, and the plan

Not modelled: register accessors and pin, PPI and timer configuration of the
nRF; the RP2040 crate, which sets registers and spins on them (its
`Uart::send` drops the bytes for which the FIFO has no room, `uart.rs:96`);
generated interrupt lists; descriptors and control requests of CDC-ACM; logging;
traits without code; `Mutex` and `Forever`, whose checks stand by themselves;
the conversions of `Duration`; `split`, which only forwards. An owner of a
`PeripheralMutex` that runs above its interrupt (`peripheral.rs:43`) is not
modelled either. Memory orderings weaker than sequential consistency are left
out: each atomic access is one step.

What is left: every safety property of the runs is proved; liveness is model-checked
only. Next would come the early callback of a replaced alarm (`rtc.rs:136`), of
which nothing is stated, and weaker memory orderings of the run queue.
