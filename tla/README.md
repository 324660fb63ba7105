# jsSensor in TLA+

jsSensor is firmware for an nRF51 with FreeRTOS that reads DHT22 sensors. This
directory holds TLA+ models of its own code (`app/`), the TLC configurations
that check them, and TLAPS proofs about them. Line numbers are those of the
files under `src/app/`.

## The system

Two FreeRTOS tasks, the *workers* of `LEVEL_LOW` and `LEVEL_HIGH`, execute
everything that does not run in an interrupt. `LEVEL_LOW` is the more urgent
task (`config.h:4-8`): it preempts `LEVEL_HIGH`, and nested interrupts preempt
both. Time slicing is off (`worker.cpp:58-60`).

| component | state | operations | who talks to it |
|---|---|---|---|
| **worker** (`worker.cpp`) | a queue of items per level; a static argument stack and a static item, each shared by both tasks; the stack height, a local of each task | `init`, `add`, `addTo`, `addToFromISR`, `setAsync`; `mainLoop` | every other component defers calls through it; `mainLoop` calls `timer::getNextTimeout` and `timer::execute` |
| **timer** (`timer.cpp:1-166`, `timer.h`) | a sorted list per level; flags and fire time in each timer | `start`, `stop`, `startContinuos`, the `FromISR` variants; `getNextTimeout`, `execute` | forwards requests for another level through the worker |
| **timeouts** (`timer.cpp:169-230`) | reference-counted timer objects with a `std::function` | `setTimeout`, `setInterval`, `stopTimeout` | timers of `LEVEL_HIGH` |
| **Ref** (`ref.h`) | a count before each object | copy, move, assign, `createUnmanaged`, `restoreFromUnmanaged`, `deleteUnmanaged` | timeouts |
| **fast timer** (`fast_timer.cpp`) | a sorted list shared by all contexts, the compare registers of a hardware timer | `fastTimerStart`, `fastTimerStop`, the interrupt handler | dht22 |
| **dht22** (`dht22.cpp`, `fifo.hpp`) | a queue of at most four measurements, one sample buffer, the decoder's position | `measure` (HIGH), `start` (LOW), `startSampling`, `stopSampling` (interrupt), `finalizeAndParse`, `done` (HIGH) | worker, fast timer |
| **Win** (`test1.cpp:47-108`) | a window of 16 values | `add` | the application's sensor callback |
| **application** (`test1.cpp`) | two windows, what it reports (`hu`, `te`) | `main`, `testSens` and its callback | dht22, Win, timeouts |
| **getTime** (`time.cpp`), **trace** (`lite_trace.h`) | in no build, see *Not modelled* | | |

What is hard here: a call is *several* queue items, and the items of calls of
interrupted posters mix in one queue; two tasks share static data; the list of a
level may be changed by its own worker only, so requests travel and arrive later,
when levels may have changed; a worker computes how long to sleep before it goes
to sleep; tick counts wrap; assertions are compiled out (`common.h:26-27`); the fast
timer is started, stopped and fired by contexts that preempt each other in the
middle of its three critical sections; a measurement is a chain of five functions of
three contexts, each of which must have the next one called, while callbacks ask for
more measurements; a timeout's object is referred to by its own timer, by handles and by
closures of other timeouts, any of which may be the last to go. What makes each component correct:

* **worker**: each callback gets its own arguments, calls are executed once, in the
  order they were completed, and all of them are; the argument stack stays in bounds and drains.
* **timer**: lists, flags and levels agree; lists are sorted across the wrap of the
  counter; a timer fires once due, in order, not early, late by a bounded time, without drift; a stopped timer does not fire.
* **timeouts, Ref**: an object lives exactly as long as there are references to it; no reference is dropped twice (one is, see *Findings*).
* **fast timer**: as the timer, and no due time is missed because a compare register was written too late.
* **dht22**: one measurement at a time, each answered once, in order, with its own sensor; the buffer exists exactly while one is in progress.
* **Win**: the mean of the values left when the four largest and four smallest are removed.
* **application**: it reports that mean of what its sensor sent, and never stops measuring.

## Modules

| module | what it is |
|---|---|
| `Mailbox` | what a level of the worker promises: calls wait and are executed one at a time, first in first out, with their arguments |
| `Worker` | `worker.cpp` at the grain of one kernel queue operation |
| `WorkerInvariant` | the inductive invariant of `Worker` |
| `WorkerProofs` | the theorems about `Worker` and their proofs |
| `MCWorker` | instances for TLC |
| `TimerService` | what the timers promise: armed timers with the time left, fired in order and in time |
| `TimerList` | what both timers share: times that wrap, lists of timers, as operators |
| `TimerListProofs` | lemmas about those operators: the elements and the order of a list, differences of wrapping times |
| `Timer` | `timer.cpp` and the loop of the workers around it, on queues that are mailboxes |
| `TimerProofs` | proofs about `Timer`: its types, which timers its lists hold; their order, its timeouts, and that it implements `TimerService` |
| `TimerInvariant` | the inductive invariant for the order and the times of `Timer` |
| `TimerStopFromISR` | a program that calls `stopFromISR` |
| `MCTimer` | instances for TLC |
| `FastTimer` | `fast_timer.cpp`, its interrupt handler and the hardware timer, against `TimerService` |
| `FastTimerInvariant` | the inductive invariants of `FastTimer`, `ListInv` and `OrderInv` |
| `FastTimerProofs` | proofs about `FastTimer`: its types, which timers its list holds; its order, the compare register, and that it implements `TimerService` |
| `MCFastTimer` | instances for TLC |
| `Measurements` | what the sensor driver promises: measurements one at a time, in order, each answered once |
| `Fifo` | the ring of `fifo.hpp`, as operators |
| `Dht22Parse` | the decoder of `dht22.cpp`, as operators, at its real size (5 bytes of 8 bits), and the reference: what samples say |
| `Dht22ParseProofs` | the decoder finds what the reference says, for any samples |
| `Dht22` | the driver: the chain of a measurement over both workers, the fast timer and the SPI slave |
| `Dht22Proofs` | the theorems about `Dht22` and their proofs |
| `Win` | the trimmed mean of `test1.cpp`, as operators, and its definition by ranks |
| `Application` | `test1.cpp` on `Dht22` and `Win` |
| `ApplicationProofs` | the theorems about `Application` and `Win` and their proofs |
| `MCApplication` | an instance for TLC, with a model of DHT22 sensors and of what may be wrong with their signals |
| `Ref` | the counting pointers of `ref.h`, as operators on a heap |
| `Timeouts` | `setTimeout`, `setInterval`, `stopTimeout` and the worker that executes their callbacks |
| `TimeoutsInvariant` | the inductive invariant of `Timeouts` |
| `TimeoutsProofs` | the theorems about `Timeouts` and `Ref` and their proofs |
| `MCTimeouts` | an instance for TLC |

A definition with a suffix (`Runs_TimeSliced`, `start_NoRemove`) is the definition that
follows it with a plausible mistake; PROJECT.json pairs each property with one
that it must fail on.

### Worker

A context is named by its priority (0 `LEVEL_HIGH`, 1 `LEVEL_LOW`, 2.. interrupts), and
`Runs(c)` is FreeRTOS's rule: the highest context that can run does. `post[c]` is how far
`addToValist` or `addToFromISR` of context `c` is; every item it sends is one `Send`, so
anything more urgent can come in between. `Send` takes or refuses the item as `xQueueSend`
with no wait does, and goes on after a refusal as the code does. `mainLoop` is `Receive`
(copy into the shared `item`), then `PushArg` or `Invoke` (use of `item` and of the shared
`argsBuffer`), `Return`, and `ExecuteTimer` for the functions that timers execute. An argument
is named by its call and position; its value does not matter. `plan`, `accepted` and `refused` are history variables: no guard reads them.

### Timer

`list[l]` is the linked list of level `l` (`_next` pointers as a sequence), `flags`, `fireTime`
the members of each timer, `inbox[l]` the queue of the worker: by `LowIsMailbox` and `HighIsMailbox` calls are
delivered whole and in order, so a request is one element. A call of the program to `start` or
`stop` on the timer's own worker changes list, flags and fire time; on another worker it
becomes a request with its absolute due time. A repeating timer without a period gets its absolute time as flags (`timer.cpp:84-87`): `IntervalBits` and
`HighTimes` say which times have which of the bits that are read again, the period and `FLAG_HIGH`. `mainLoop` is `Poll` (compute the timeout), `Sleep`,
`TimeOut`, `Receive`, `execute`, `Return`. `Tick` wraps at `M`. Since only a level's own worker
changes its list, and `LEVEL_LOW` is never preempted by `LEVEL_HIGH`, a list operation is one action. (A
program in which `LEVEL_LOW` changes the list of `LEVEL_HIGH` would need a finer grain; that is
the program of run `timer_high`, wrong already at this one.)

Three things are about the program that uses the timers, not about `timer.cpp`: it moves a timer
to `LEVEL_HIGH` from `LEVEL_HIGH` only (`Movers`), as `setHighLevelTimeout` does, the only user of `FLAG_HIGH`;
it lets the CPU become idle every `MaxBusy` ticks; a callback continues its timer from when it
was due (`startContinuos`), once for each time it fired.

### FastTimer

`pc[c]` is how far task or handler `c` is. `fastTimerStart` is `Start` (take the counter), `Unlink`, `SetTimer`, `Link` and,
if the head changed, `Update`; `fastTimerStop` is `Stop` and `Update`. Each critical section of one
pass is one action; between them a more urgent context may come in (`Runs`). `updateTimeout` is not one action, though no software
comes in between: the hardware counts on (`Count`) while the code computes (`updateTimeout`), writes (`WriteCompare`)
and checks (`CheckCompare`). The handler is `Interrupt` (capture), `ClearEvents`, then `Fire` and `Return` per due
timer, with the starts and stops of callbacks in between, then `Finish`. `CC[1]` is always `cc + 1`; both
registers request the same interrupt. No interrupt preempts the handler, since the program leaves all interrupts at the same priority.

About the program: a timer belongs to one context and its own callback (`User`), as the only one, `dht22`'s, does; no
timer repeats with period 0; the CPU is idle once in `MaxBusy` counts.

### Dht22, Dht22Parse, Application

The components below the driver are replaced by what they promise: `lowCalls` and `highCalls` are mailboxes,
`fastTimer` is the callback of a timer that fires once for each start. `HighRuns` is the rule that `LEVEL_HIGH`
executes only while `LEVEL_LOW` has nothing to do. `start`, `stopSampling`, `finalizeAndParse` and `measure` are one action
each; `done` is split at the call of the callback (`done`, `callbackReturns`), which may call `measure`. `startSampling` is split at the loop
in which it waits for the semaphore of the SPI slave (`startSampling`, `acquired`; `dht22.cpp:197-198`). It waits in an interrupt and a critical section, so that no level
runs meanwhile (`Interrupted`). The address
of the sample buffer is kept, since it is allocated, freed and allocated again, and the SPI slave has
a copy of it (`spis.rx`). What the registers do is abstracted: `init` wires the slave to its clock,
`startSampling` hands it the buffer and starts the clock, `stopSampling` stops and deselects it, and
`EndOfTransfer` is its report of that, which the environment may withhold (the wire for it may be broken, `dht22.cpp:164`).
After such a transfer the slave is left enabled (162-168), and the next `startSampling` asks for a semaphore that the slave may still hold: it may be granted later, at once, or
never. `Hangs` is this wait, and the two liveness properties of the driver and its application claim that nothing else stops them.

`parseSamples` reads the samples of the signal from the buffer and writes the decoded bytes over them, as the code does, with
its real limits. `MCWaveform` builds the samples independently, from the protocol of the sensor: a frame of five bytes, two pulses per bit, with
typical, shortest and longest lengths; signals with a wrong checksum, a flipped bit, a pulse that is too long, a glitch,
a last pulse cut off, and lines that stay low or high. A signal is a record of what it means (`good`, `humidity`, `temperature`); `SignalAssumption`
says that this is what its samples say (`Tells`), by the reference at the end of `Dht22Parse`: the line as a series of pulses,
`Edges` where each begins, `DataOf` the bytes, `IsProper` lengths within limits and a sum that fits, `Signed` the value. TLC
evaluates it on the signals of `MCWaveform`, so the sender and the reference agree on each. `AnswersAreSent` compares what the callback finds with what
was sent. Temperatures and humidities are integers (tenths).

`Application` is the loop of `test1.cpp` on top: `testSens`, its callback, and the windows. `due` stands for the
timeout (and for `start2` at first). `MeasuresOther` is other code of `LEVEL_HIGH` that measures other sensors. It keeps the requests of
others below the size of the ring, so that `sens` always finds a place: `test1.cpp` alone has one request at a time, and nothing in the code bounds
more than the assertion of `Fifo::push`, which is compiled out. `fed` is a history variable: the last values that the windows were given.

### Ref, Timeouts

`heap.count` is the word in front of each object, `heap.ptr` what each Ref points to: handles of the program, and one
captured Ref in the closure of each object. `dec` calls the destructor, which drops the captured Ref, and so on along the chain. The
operators follow the order of `ref.h` (`MoveAssign` drops, reads, then clears), so assigning a handle to itself is in the
model. The first `start` of a timer is forwarded to `LEVEL_LOW` (its flags are 0), which preempts at once; hence `setHighLevelTimeout` is one
action. Callbacks and calls of `LEVEL_HIGH` may do anything that is declared in `timer.hpp`, any number of times, before they return.

An interval stopped by its own callback drops the reference to itself twice: in `stopTimeout` (`timer.cpp:228`), and when the callback returns and
`FLAG_RUNNING` is found cleared (194-196). `ReferencesCounted` says exactly what follows: from then on one
reference less is counted, and the object is freed while a Ref to it is left. The model follows such an object until it is
freed, does not use Refs to it afterwards (`Usable`), and does not let the storage be allocated again (`Free \ overdropped`); programs that
free it while its callback still executes (`KeepsExecuted`) are left out. These guards have no counterpart in `timer.cpp`: they end the model where a freed object would be used. So no property
forbids the second drop; it is stated, and listed as a finding below.

`HighQueueServed` assumes what the guard of `Tick` says of the load, that what is due or waits is executed within its tick. What it shows is that callbacks cannot
start timers that are due at once, thanks to the minimum of one tick in `float2ticks` (`timer.cpp:183-187`). `timer::start` has no such minimum.

## Runs

| run | checks | bounds |
|---|---|---|
| `worker` | types, the inductive invariant, own arguments, stack bounds, empty stack when idle, `LEVEL_LOW` implements `Mailbox`, every accepted call is executed | 2 interrupt priorities, up to 2 arguments, 3 calls, to both levels; 2 items fit in `LEVEL_HIGH`'s queue, so sends are refused there |
| `worker_high` | the same promises of `LEVEL_HIGH` in a program that uses no other level | 2 interrupt priorities, up to 2 arguments, 3 calls |
| `worker_shared` | **fails**: both levels in use | 1 interrupt priority, 1 argument, 2 calls |
| `worker_overflow` | **fails**: own arguments, or the program stops, when a queue overflows | 1 interrupt priority, 1 argument, 4 calls, queues of 2 items |
| `timer_order` | types, lists match flags, sorted lists, implements `TimerService` | 2 timers of `LEVEL_LOW`, delays 1 and 2, one repeats with period 2, `M` = 10, one request waits per queue |
| `timer_levels` | lists match flags, no sleep past the first timer, implements `TimerService`, each due timer fires | 1 timer per level, that of `LEVEL_HIGH` repeats with period 1, `M` = 8, one request waits per queue |
| `timer_high` | **fails**: a timer of `LEVEL_HIGH` first started by another context fires | 1 timer |
| `fast_timer` | types, list matches flags, sorted list, no due time is missed, implements `TimerService` | a timer of `LEVEL_LOW` that may repeat with period 2, one that callbacks use; delays 1 and 2, `M` = 12 |
| `fast_timer_tasks` | list matches flags, no due time is missed, each timer fires | a timer per task, delays 1 and 2, `M` = 10 |
| `timer_isr_stop` | **fails**: a program that only calls `stopFromISR` starts no timer | 1 timer |
| `application` | types, one measurement in progress, samples go to the buffer that is allocated, the decoder is right on each signal, answers are what was sent, trimmed means, implements `Measurements`; each measurement is answered and the program measures again and again, unless it hangs in `startSampling` | 2 sensors, 3 and 7 signals, 2 places in the queue, 2 addresses, windows of 3 values with 1 and 1 removed |
| `timeouts` | types, references are counted, stopped timeouts are silent, the queue is served, unreferenced timeouts are freed | 2 objects, 2 handles, times of one and two ticks, one call per tick |

Why the bounds suffice. Worker: three calls are a worker's own post, one interrupt
that preempts it and one that preempts the interrupt; more calls only repeat
these nestings, and the theorems below hold for any number. They push at most six arguments, so that run `worker`
does not come near the end of its eight cells, only near the bottom of the stack; that no nesting overflows the stack is theorem `BufferLargeEnough`. `MaxCalls` bounds
the calls of a behaviour, so behaviours end and deadlock is not checked in
`MCWorker`. Timer: `M` must exceed twice the largest difference of two fire times in a list
(delay plus lateness), as 2^32 does in the code; the smallest such `M` makes every
interleaving meet the wrap. Run `fast_timer` has 12, the smallest `M` for which its program is `Disciplined` (see *Proofs*): delays of two counts
and a lateness of up to three. `MaxInbox` is the number of calls that may wait in a level's queue
when the program posts another one to it; requests that workers forward come on top. With one, a start or stop waits in a queue while functions go on to start and stop the same timer
from its own level, and interrupts and the other worker make requests of the other level. What the runs do not have is a timer that changes its level while a request for it waits: their timers
keep the level of their first start. `TimersAreListed` is proved for programs that move timers at will. Interrupt handlers post once per tick.

Application: two sensors and two places make the queue full, wrap and empty; the third request for a place
would break the driver's contract. Two addresses tell a new buffer from an old one. A window of three values with one removed at each end is the
smallest in which the order of removals matters, and the signals of `sens` give it negative, equal and zero values. Timeouts: with two
objects one closure holds a Ref to the other timeout, so that freeing one frees the other; two handles are needed to move and
to keep a second reference; freed objects are allocated again without bound (three objects with one handle give 25 times
as many states, and nothing else to find).

`MaxBusy` = 1 lets the counter pass the compare register while it is written, once per attempt, so the loop
of `updateTimeout` is repeated.

Fairness. `FairSpec` of Worker is weak fairness of the work that is already there: the CPU
does not stop while something can run; nothing is promised to a less urgent context beyond
that. Timer adds that time passes and that functions of the program return (strong
fairness: a function of `LEVEL_HIGH` is interrupted by `LEVEL_LOW` each time it posts to it). FastTimer has the same for
its handler and callbacks, strong fairness for calls of the tasks (the load leaves them time) and for the hardware's counting,
which `MaxBusy` only interrupts. Application is weakly fair to the chain of the driver (calls are delivered, the fast timer fires, callbacks
return; the runs above show it), and to the slave's grant of its semaphore as long as the last transfer has ended; not to the end of an SPI transfer, nor to the grant after
one that has not ended; strongly to `testSens`, since `LEVEL_LOW` interrupts
`LEVEL_HIGH`, and its timeout fires all the same (run `timeouts`). Timeouts is weakly fair to the worker and to time: what is due or
waits is executed within the tick, the bound on the load that `Tick` states.

## Findings

* `worker_shared`: `argsBuffer` and `item` of `mainLoop` are static (`worker.cpp:129-130`), hence
  shared by both tasks. `LEVEL_LOW` preempts `LEVEL_HIGH` between the pushes of two
  arguments, or between `xQueueReceive` and the use of `item`, and overwrites them.
* `worker_overflow`: a refused item is noticed by `PROD_ASSERT` only, which expands to nothing
  though `common.h:26` calls it always enabled. In TLC's trace `LEVEL_HIGH` has sent the argument of call 1 to `LEVEL_LOW` when an interrupt posts call 2: its argument
is taken and its callback item refused. `LEVEL_LOW` pushes both arguments, and call 1, none of whose items was refused, pops that of call 2. (Posters that can meet a full queue are not preempted
by its worker, so once an item is refused the rest of that call is refused too.)
* `timer_high`: the first `start` with `FLAG_HIGH` is executed by `LEVEL_LOW` (the old flags say so, `timer.cpp:76-78`),
  which links the timer into `LEVEL_HIGH`'s list and does not wake that worker.
* `timer_isr_stop`: `stopFromISR` posts `startFW` (`timer.cpp:131`).

Met while modelling, without a run of their own: an interval that its own callback stops is released one reference early (see
*Ref, Timeouts*; `ReferencesCounted` states it); `hu`, the humidity that the application reports, is given the
temperature (`test1.cpp:123`); readings of failed measurements go into the windows (`test1.cpp:121-122`); `startInterval` without a period
takes the absolute time as period, and its upper bits as flags (`timer.cpp:77, 86`); `startSampling` may wait for ever, with all tasks and the less urgent
interrupts kept out, after the very failure of the SPI slave that `finalizeAndParse` means to survive (`dht22.cpp:162-168, 197-198`; without its alternative `<>[]Hangs`, `EveryMeasurementAnswered` fails on this); an interval of 2^24 ticks or more spills into the flags (`timer.cpp:218`).

## Proofs

`WorkerProofs` proves, for every number of interrupt priorities, arguments, calls and every
queue length, under the assumptions that constants have their types and that the
argument buffer has `MaxArgs` cells for each context and one more (`BufferAssumption`; 16 cells are
enough for up to three interrupt priorities):

* `TypeCorrect`: `Spec => []TypeOK`;
* `InvariantHolds`: `Spec => []IInv`;
* `ArgumentsIntact`, `BufferLargeEnough`, `StackDrains`: the three safety properties of run `worker`;
* `LowImplementsMailbox`: `Spec /\ []NoneRefused(Low) => LowIsMailbox`, and `HighImplementsMailbox`, the same of `LEVEL_HIGH` where
  nothing is posted to `LEVEL_LOW`. The hypothesis is that no send to that level met a full queue: after one the
  items of a burst are incomplete, as run `worker_overflow` shows. Sends to the other level may be refused.

*The argument.* `ArgsIntact` alone is not inductive: what a callback will find depends on items
still in the queue and on posts still in progress. The history variable `plan[t]` lists the stacks that the items
on their way will lead to; `IInv` says that (`Steps`) each queued item leads from one planned stack to
the next and each callback item finds its own arguments on top of the stack planned for it;
(`OpenPosts`) the arguments already sent by the posters in progress lie on the last
planned stack, each poster's above those of all less urgent ones; (`Heights`) nothing
else is there, so a poster's callback item pops down to where it began, and the stack
needs at most `MaxArgs` cells per context; (`StackIsPlanned`) the real stack is the first planned one. A `Send` is
always by the most urgent poster, whose arguments are on top: that is where preemption by priority,
and no time slicing, is used. A worker that preempts the owner of a stack would break `StackIsPlanned`, which is why
`IInv` claims it for undisturbed levels: `LEVEL_LOW`, and `LEVEL_HIGH` if nothing is posted to `LEVEL_LOW`.

*The refinement.* What waits in the mailbox is what the callback items of the queue announce (`Announced`, a recursive function). The send that completes a burst is
the mailbox's `Accept`, `Invoke` is `Start`, and of the items with arguments only the last shows. `MailboxInv` adds to `IInv` that each
call has a number of its own (`CallsNumbered`) and that functions come without arguments (`FunctionsTakeNone`). That
an item more at the end of the queue announces a call more at the end (`AnnouncedAppend`), and an item less at the front a call less there
(`AnnouncedTail`), is proved by induction over the items: the library's induction theorems take an
operator, but `Least`, that a nonempty set of numbers has a least element, follows from the theorem about well-founded relations, and `Counting`
from it.

`TimerProofs` proves, for every set of timers, every delay and mode, every program that moves timers, and every
even width `M` of the tick counter:

* `TypeCorrect`: `Spec => []TypeOK`;
* `TimersAreListed`: `Spec => []ListsMatchFlags`, the safety property of runs `timer_order` and `timer_levels`.

*The argument.* A list is seen as the set of its elements and the fact that they are distinct. `Leading`
counts an initial stretch of a list (`LeadingProperties`, from the cardinality of an interval), so `addItem` and
`removeItem` splice one element in or out (`Insertion`, `Removal`): whatever the order of the list is, they add or
remove one element and keep the others. The invariant `IInv` is `TypeOK` and, for each level,
that the elements of its list are the running timers of that level (`Lists`). It is inductive: `removeItem` is called
before the flags, hence the level, change (`startKeeps`), and `execute` puts its timer back
or clears its running flag (`executeKeeps`). That lists hold a timer once is part of it: `removeItem` removes the first
of several only.

and of every program that is `Disciplined` (module `TimerInvariant`):

* `TimersAreSorted`: `[]ListsSorted`; `WorkersWake`: `[]WakesInTime`;
* `HighTimersExecuted`: `[]HighExecuted`, which run `timer_high` refutes for a program that is not disciplined;
* `ImplementsTimerService`: `IsTimerService`, that `Timer` implements `TimerService`.

*The hypothesis* is about the program that uses the timers, as `timer.cpp` cannot see to it: delays and periods, with the lateness
`MaxLate` on the other side of now, are less than half of `M` (2^31 in the code); no timer repeats with period 0; a timer is started
for one level only, and moved to `LEVEL_HIGH` by `LEVEL_HIGH`, as in `setHighLevelTimeout`. Runs `timer_order` and `timer_levels` are two such programs.

*The argument.* Comparing times by the sign of their difference orders them only while they are close together: `ListsSorted` alone
is not even kept by `Tick`. `OrderInv` adds that each running timer is `InSight`: with `MaxLate` less than half of `M` ahead (`Ahead`), and at most `MaxBusy + busy` late, where `busy` counts
the ticks since the CPU was idle. `Tick` keeps that because the worker of a timer that is due is not asleep while the CPU is idle; which in turn needs
`TimeoutsInTime`, that the timeout it computed, and counts down while it sleeps, is not longer than the time left. So do `StartRequests`:
what is forwarded is in sight too, and a timer goes to `LEVEL_HIGH`'s list only while that worker executes a function, hence before it polls. The
four are one induction (`PollOrders`, ..., `TickOrders`, one lemma per action). In the refinement a timer is armed while it is running;
`start` is the service's `Arm` on the timer's own worker, `stop` is `Disarm`, `execute` is `Fire`, `Return` and `Tick` are themselves, and sleeping, waking and forwarding stutter.
The proof of `Fire` is where order matters: the head of a sorted list has the least time left.

`FastTimerProofs` proves for any timers, delays, modes and users of `FastTimer`:

* `ListInvariantHolds`: `Spec => []ListInv`; `TypeCorrect`: `[]TypeOK`; `TimersAreListed`: `[]ListMatchesFlags`;

and of every program that is `Disciplined` (delays and periods, with the lateness, less than half of `M`; that periods are not 0 is
an assumption of `FastTimer`):

* `ListIsSorted`: `[]ListSorted`; `CompareIsArmed`: `[]CompareArmed`; `ImplementsTimerService`: `IsTimerService`.

Run `fast_timer`, all of whose properties these are, is such a program.

*The argument.* Between its critical sections `fastTimerStart` works on a timer that is on no list. `ListInv` says why it finds it as it left it:
a context works on timers it may use (`Operations`), the handler does not execute a callback of a timer that a task has taken off the list
(`TasksUndisturbed`), and nobody comes in while a context is in `updateTimeout` (`Exclusion`). `OrderInv` has a finer bound on lateness than
that of `Timer`, because of the callbacks: a timer is late by `busy` at most, and by one more `MaxBusy + 1` while an interrupt is pending or the
handler is at work (`Late`). What a task is about to link is fresh (late by `busy` at most), so that it may be linked after the handler has finished.
The handler compares with a counter it captured no more than `busy` counts ago (`HandlerTime`). `CompareArmed` is kept by `Count` because of `CompareComputed`:
what `updateTimeout` computes, writes and checks is not later than the first timer, and if the counter has reached it meanwhile, the check says so.
At an idle count that makes the first timer due the compare register is the next value of the counter: the interrupt becomes pending, and
`Late` may go from `busy` to the larger bound. The refinement maps `Unlink`, `Stop` and `SetTimer` to `Disarm` where the timer was armed, `Link` to `Arm`, and
`Fire`, `Return` and `Count` to `Fire`, `Return` and `Tick`; all other steps stutter.

Both rest on `TimerListProofs`: where `Insert` and `Remove` leave the elements (`InsertTimer`, `RemoveTimer`) and the order of a list, and how
`Signed` behaves under sums as long as they stay in half of `M`.

`Dht22Proofs` proves, for any sensors, signals, addresses that `new` may return and size of the queue:

* `InvariantHolds`: `Spec => []IInv`;
* `MeasurementsOneByOne`: `Spec => []OneInProgress`; `SamplesAreSafe`: `Spec => []SamplesIntoBuffer`;
* `DecoderIsRight`: `Spec => []DecoderRight`;
* `AnswersAreRight`: `Spec => []AnswersAreSent`; `TypeCorrect`: `Spec => []TypeOK`; `ImplementsMeasurements`: `Spec => IsMeasurements`.

The assumption on the signals, `SignalAssumption`, is that the members of a signal tell what its samples say. It is a definition of what `good`, `humidity` and
`temperature` mean, and restricts nothing: any samples have such a record.

*The argument.* `OneInProgress` counts calls and timers, and says nothing of what they are for, so it is not inductive. `IInv` names the stage a
measurement is in (`Requested`, `Started`, which lasts until the slave grants its semaphore, `Sampling`, `Sampled`, `Answering`, or `Resting`) and what holds of pin, buffer and slave in it; each
function of the chain takes one stage to the next, and `measure` keeps the stage, or begins one. That `measure` in the middle of a
measurement does not change whose it is rests on the ring: `PushKeepsQueue` and `PopKeepsQueue`, from `Position`, which says where
an element is when the ring has wrapped. A second invariant, `Reading`, follows the data: what is received was sent by the sensor at the front of the
queue, the words that wait for `done` are those of this signal, and those in the sensor object while its callback executes too. In the
refinement those who wait are the elements of the ring, first to last; `measure` is `Measure`, `done` is `Answer`, `callbackReturns` is `Return`. `Spec` is
the driver's, with any program that keeps to the queue's size.

*The decoder.* `DecoderIsRight` rests on `Dht22ParseProofs`: `ParseIs` says of any number of samples that `parseSamples` calls them valid exactly if the
reference calls them proper, and then gets their words, which `dht22ToFloat` takes as the reference does. The difficulty is that the code decodes in
place: it writes byte `i` over samples that it has read, while it goes on reading behind. `Follows` relates the decoder to the position in the
original samples: bytes not yet fetched are unchanged, `shifting` is the rest of the byte in between. One call of `getBits` takes a pulse to its
end (`getBitsTakes`: `SkipFollows` for the fetching, and `RunExists` and `StopExists` for where a run of equal samples ends), and keeps an error once there is
one (`getBitsKeepsError`). `DataByteTakes` is sixteen calls, by `Counting`, and then the store, which is behind the position because each good pulse has one sample
or more, and each low one two (`OneByte`). `parseSamplesIs` is the four pulses before, five such bytes, and the sum. `ValueIs` and `dht22ToFloatIs` are about
the numbers: sixteen bits, eleven of them and a sign.

`ApplicationProofs` proves, for any sensors, signals and size of the queue, windows of any size, and any number of values dropped:

* `KeepsContract`: `ASpec => Spec`, that the application implements the driver's specification, so that all theorems of `Dht22Proofs` hold of it (`DriverServesApplication` lists them);
* `StaysInLoop`: `ASpec => []Loop`;
* `TrimmedMeansReported`: `ASpec => []ReportsTrimmedMean`.

*The argument.* `Spec` allows `measure` only while the queue has a place, `ASpec` does not say so of `testSens`: that there is one follows from `Loop`. The
sensor of the application is due, waits exactly once, or is answered, and while it does not wait the queue has a place
left: the others have one less than its size (`OthersLeaveRoom`), and `sens` does not have a second one. The proof of `KeepsContract` has `Loop` and the driver's `IInv` in one
induction, as each needs the other.

For the windows, `add` removes the largest value four times, then the smallest, and `TrimmedSum` ranks all values by size and place and adds the
middle ones. They need not remove the same places when values are equal; `addTrims` shows that the sum is the same. `Lost` is the invariant of
the removals: the places in `H` are a set of largest values (`Top`), those in `L` one of smallest (`Bottom`), and `sum` is that of the rest. `remMax` adds
to `H`, `remMin` to `L` (`remMaxLoses`, `remMinLoses`); that `remMax` finds a place at all needs values within `Limit`, which
`ApplicationAssumption` has (`Limit > 2047`: the code compares with 1000000, and eleven bits and a sign are less) and `Reports` carries through the sensor object. `RankedSizes` says
how many places have a rank in an interval, so that the ranks above and below the middle are such sets too, and of the same size (`LowRanksAreBottom`);
two sets of largest values of the same size have the same sum (`AlikeSums`, `SameTops`). Underneath is the sum over a set, which the community modules define by
recursion and the choice of an element: `SumExists`, `SumUnique` and `SumTakes` show that the order does not matter. `Holds` then relates a window to the values `fed`.

`TimeoutsProofs` proves, for any finite sets of objects and handles and any times that are asked for:

* `TypeCorrect`: `Spec => []TypeOK`; `ReferencesRight`: `Spec => []ReferencesCounted`; `StoppedSilent`: `Spec => StoppedIsSilent`.

*The argument.* `Counted` says of a heap that each count is that of the references in its places, of the unmanaged ones and of one that is
about to be dropped (`Total`), and that what is gone refers to nothing. A step of the chain of destructors keeps it (`DropOneCounted`): what is dropped next is what the
object that goes referred to. `dec` is a recursive function: `DecIsChain` turns it into a chain of such steps, and `DecCounted` follows by `Counting`; that the chain
is over after as many steps as there are objects is shown along the way, since each step but the last leaves fewer objects alive.
`PlaceAssigned` and `PlaceMoved` are the assignments of `ref.h` in their order, drop first. On top, `IInv` has that a timer runs while it is in the list
(`Listed`, which is why what is stopped is silent), that what executes its callback lives, and that an interval that lost a reference too early is over.
`stopTimeout` never frees an object: its parameter holds one reference, and the caller's Ref another.

Model-checked only:

* liveness (`LowDelivers`, `HighDelivers`, both `RunningTimersFire`, `EveryMeasurementAnswered`, `MeasuresAgain`, `HighQueueServed`,
  `UnreferencedIsFreed`), which is out of the prover's reach; the refinements are proved for their safety part, and `Mailbox`, `TimerService` and `Measurements` have no other.

Every invariant, action property and refinement of the passing runs is stated by a theorem.

The inductive invariants `OrderInv` (both), `ListInv`, `Reading`, `MailboxInv`, `Loop`, `Fits` and `IInv` of `TimeoutsInvariant` were checked by TLC on the instances named above before they were proved. The
runs check `WorkerInvariant`'s `IInv` and, of the others, the parts that are properties in their own right.

## Not modelled, and the plan

1. `Timer`: no run starts repeating timers with period 0 (`timer.cpp:84-87`), whose period and level depend on the time; `TimersAreListed` covers them, the theorems on order exclude them.
   The queue's limit is in `Worker` only. That a forwarded start keeps the due time of its request is not a property: `TimerService` lets a timer be armed for any time. A timer that two contexts
   start at a time is not in `FastTimer`.
2. `Timeouts`: intervals of 2^24 ticks and more, and the queue of `LEVEL_LOW` being full when a timeout is started (its worker
   empties it before `LEVEL_HIGH` runs).
3. Proofs: the composition of the driver with the workers and the fast timer below it. `Dht22` has `Mailbox` and `TimerService` built in as what their
   implementations were proved to do; that their conjunction implements `Dht22` is not stated as a theorem.

Left out for good: pin and clock set-up (`test1.cpp:136-149`), the kernel itself; `time.cpp`, which does not compile (it uses names that
are declared nowhere) and `lite_trace.h`, which nothing includes and whose functions are half empty; files that are in no build and define
no behaviour (`promise.hpp`, `shared.hpp`, `variant.hpp`, `window.cpp`, `main.cpp`, `main_old.c`, `DHT22.cpp`); the directories
that hold a one-line description. Floating point is out of TLC's reach: `float2ticks` is modelled on quarters of a tick, readings on tenths.
