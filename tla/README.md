# Specifications of picoinf

picoinf is the infrastructure of applications on the RP2040: an event manager with
timers and work queues on top of FreeRTOS, and the drivers, services and libraries that
run on it. These modules specify the event manager, which everything else rests on, and the
parts of the rest that keep state across calls, callbacks, threads or resets: UART and USB
output, UART input, stored files, GPS, the BLE attribute server and observer, the shell, the
timeline, pins, sequences of timers, WSPR transmissions. They are checked with TLC on small
instances, and all that is checked of them but liveness is proved with TLAPS for instances of
every size. Paths below are relative to the repository.

## The system

Threads and interrupts share one core. The FreeRTOS tick is 1 ms and scheduling is
preemptive.

| context | priority | runs |
|---|---|---|
| interrupt handlers (UART, GPIO, ...) | above all threads | queue work in Evm, move bytes between pipes and registers |
| `Application` task | 10 | `App::Run`, then `Evm::MainLoop()` and every callback |
| TinyUSB task | 5 | USB stack, its receive callback queues work in Evm |
| `Work` task | 1 | jobs of `Work::Queue()` |

| component | state | operations | hard because |
|---|---|---|---|
| Evm (`src/App/Evm/Evm.cpp`) | two work queues of 50, a semaphore, the timer list, the depth of nested loops | `QueueWork`, `QueueLowPriorityWork`, `ClearLowPriorityWorkByLabel`, `MainLoop`, `ExitMainLoop` | work arrives while the loop decides to sleep; queues fill up; loops nest |
| Timer (`src/App/Evm/Timer.cpp`) | expiry, sequence number, interval, snap | arm at, in, at intervals; cancel; fire | the list is ordered by fields of the objects in it; callbacks re-arm and cancel |
| TimerSequence | steps, one timer | add, delay, start at | steps built in one order and run in another, changed while one of them runs |
| Blinker | count left, times, one timer | blink, stop, switch | a counter that is one above what was asked; times changed in mid blink |
| Kernel wrappers (`src/App/Kernel`) | FreeRTOS queues and semaphores | put, get, give, take, from threads and interrupts | waiting, 32 bit times, results nobody checks |
| IsrPoolHeapAllocator | marks of a pool of slots | allocate, deallocate | a scan that jumps over blocks |
| Work (`src/App/Service/Work.cpp`) | job list, its pool, a semaphore | queue, run | three limits that must agree; callers preempt the thread anywhere |
| PAL | interrupt and scheduler locks, fatal handlers | lock, delay, fatal | nesting of forced interrupt mode |
| UART, Log | output pipe, input pipe, stack of UARTs | send, push and pop, interrupt | a count read before the interrupt is cleared; the current UART changes while a thread waits, and all threads share one stack of targets |
| Stream distributors | callbacks by id | add, remove, distribute | callbacks that change the map under iteration |
| USB, USB_CDC | send buffer, DTR; clock, VBUS | send, send from queue, clear; power up and down | two threads and one buffer; a thread that starts as power goes |
| Pin | reference counts, interrupt settings | copy, assign, destroy, interrupt | counts over copies; debounce |
| Timeline, CircularBuffer | events, a flag while a report is printed | record, report, reset, resize | a report walks a list that interrupts and threads write to |
| Storage (`Flashable`, LittleFS, `App.h`) | files | put, get, move, erase on upgrade | a reset between two steps |
| Shell | commands, history, scope | add, remove, evaluate a line | a line may repeat one of the history, and is then evaluated inside of another |
| JSONMsgRouter | handler table | add, dispatch | handlers added twice |
| GPS | sentences, lock and fix | parse, lock events | long sequences of sentences, some lost; midnight; callbacks that reset |
| BleGatt | values being read and written, subscriptions | read, write, notify, connect | the stack's callbacks are interrupts, the application's are work |
| BleObserver | a pipe of reports, those seen, a timer | start, stop, report | work queued only when the pipe was empty |
| WSPR | frequency, tones of a message | set a channel, send | a message goes through five codings; frequencies at the end of 32 bits |
| Motor, Signal, Sensor, JerryScript | | | see `PROJECT.json` |

What makes each correct, in a sentence: Evm serves all work it accepted and never sleeps
on any; a timer fires once for each arming, in order of expiry and registration; a
sequence runs its steps in order and once; the allocator never gives out a slot twice; the
work thread runs every job once, first in first out; UART output leaves in the order it
was put; a callback that was removed is not called; a pin is released when its last owner
goes; stored data is the old or the new value after a reset; bytes that were taken for USB
arrive; a report of the timeline prints what happened, in order; a fix is of one moment; what a BLE client writes reaches the program whole.

They interact through Evm above all: interrupt handlers and the tasks of lower priority
hand it work, timers call back from it, and everything a callback does is a client of it.

## Modules

| module | models | state | actions |
|---|---|---|---|
| `TimerService` | what timers promise: the abstract specification | clock, pending timers in order, expiry and period of each, callbacks on the stack | `Arm`, `Cancel`, `Fire`, `Return`, `Tick` |
| `Timer` | `Timer.cpp` and the timer list of Evm | the fields of the Timer objects, `timerList_` | one for each call of the interface, `ServiceTimers`, `OnTimeoutReturns` |
| `Evm` | the main loop, work queues, semaphore, and their callers, over `TimerService` | both queues, the semaphore, the stack of `MainLoop()` calls, the sleep that is to come and the one that is on, where each thread is in a call that queues work | the loop one kernel call at a time; each kernel call of a thread; an interrupt handler as one step |
| `HeapAllocators` | the pool allocator | the marks of the pool | `Allocate`, `Deallocate` |
| `Work` | the work thread, over `HeapAllocators` | the list, the pool, the semaphore, where the thread is | `Queue`, `Take`, `Extract`, `JobQueues`, `JobReturns` |
| `UartInput` | the reading half of the UART interrupt, its low priority work, the distributors, and who listens | the input pipe, the queue as far as the UART cares, both id maps, `AddData` between two of its steps | the interrupt for one byte; the work; `AddData` a byte or a callback at a time; each call a listener makes |
| `OutputChannel` | what an output promises: the abstract specification | what each was given and has not sent, what it has sent | `Accept`, `Transmit`, `Drop` |
| `UartOutput` | `UartSend` from threads, the stack of targets, the writing half of the interrupt handler, the device | the shared stack and the targets each thread has, pipe, FIFO and interrupt of each UART, where each thread is in `UartSend` | one call of the kernel or the stack a step; the handler; the device; enabling and disabling |
| `UsbCdc` | `USB_CDC.cpp` and TinyUSB's side of it | queue, FIFO, transfer, DTR, where `SendFromQueue()` is | `Send`, the TinyUSB thread one access to the queue a step, the port |
| `TimerSequence` | `TimerSequence.cpp` | the list of steps, the one that runs, the timer | each call that builds, `Start`, `Reset`, the timer |
| `Blinker` | `Blinker.cpp` | count, times, what is due, the switch | each call, the two callbacks of the timer |
| `Pin` | `Pin.cpp` | objects, counts of each pin, interrupt settings | construct, copy, assign an object or a new pin, destroy, the interrupt |
| `UsbPower` | the power of `USB.cpp`, over `Pin` | VBUS, USB's clock, where the start of the thread is | the edges of VBUS, the work they queue, the thread |
| `Storage` | `FilesystemLittleFS.cpp`, `Flashable.h`, the start of `App.h` | the files in flash, the littlefs calls a command has left, what the application thinks it stored | a call that works, one that fails, power failing, each command |
| `Gps` | `GPS.h`'s `GPSReader` | the last sentences, the lock, what the program was told | each kind of sentence with the callbacks it makes, the timer, the calls of the program |
| `BleGatt` | `BleGatt.cpp` | the value being read and written, the buffers, subscriptions, work queued | each request of a client, a client that gives up, each kind of work |
| `BleObserver` | `BleObserver.h` | filters, those seen, pipe, timer, work | a report, the work, the timer, the calls of the program one step at a time |
| `Shell` | `Shell.cpp` | commands, history, scope, the calls of `Eval()` that are going on | a line, a step of `Eval()`, commands added and removed |
| `Timeline` | `Timeline.cpp` over the buffer of `Container.h` | the list, where each report is, the event of a thread that has not locked yet | an event, a reset, a resize, each step of a report |
| `Wspr` | the channels of `WSPR.h`, `WSPREncoder.h`, `WSPRMessageTransmitter.h` | frequency, tones, what was on the air | set a channel, send, a symbol, the end |
| `TimerProofs`, `EvmProofs`, `UartInputProofs`, `UartOutputProofs`, `StorageProofs`, `GpsProofs`, `BleGattProofs` | theorems about the modules they are named for | | |
| `ComponentProofs` | theorems about `Work`, `BleObserver`, `TimerSequence`, `Blinker`, `Shell`, `Pin` with `UsbPower`, `Timeline`, `UsbCdc` and `Wspr` | | |
| `MCTimer`, `MCEvm`, `MCUartInput`, `MCUartOutput`, `MCGps`, `MCStorage`, `MCBleGatt` | instances for TLC | | |
| `MCComponents` | the instances of `TimerSequence`, `Blinker`, `UsbPower`, `Work`, `BleObserver`, `UsbCdc`, `Shell`, `Timeline` and `Wspr`: nine components that share nothing, of which each behaviour takes one | | |

`Timer` implements `TimerService` (`ImplementsService`, checked and proved), and `Evm` takes
`TimerService` for its timer list: what is shown of the loop holds with the real list
because the real list can do no more than the service.

Correspondence that is not obvious:

* `timerList` is the in-order walk of `std::multiset`. A search ends in a gap both of whose
  neighbours answer as the search needs, so on a list out of order a search has several
  outcomes, and all of them are modelled. The keys are read from the timers as they are at
  that point of the code: `Timeout` cancels with the old key and registers with the new.
* A `MainLoop()` call is a frame of `stack`: where it is, its quota, and the callback it
  waits for. While client code runs on top of a frame it may arm timers, queue and clear
  work, call `MainLoop()` again and `ExitMainLoop()`.
* A task of a lower priority runs only while the Evm thread waits, in `Take()` or inside a
  callback (`EvmWaits`), one kernel call a step. An interrupt handler runs between any two
  steps and is one step itself: nothing of a lower priority runs inside it.
* The two counts before the sleep (`CheckWork`, `CheckLowPriorityWork`) are two steps, and so
  are reading the clock for the duration (`ComputeTimeToSleep`) and waiting that long from
  whatever time it is by then (`Take`). `passed` says how much time went by between the two:
  by that the loop may wake late, which the code counts in `COUNT_LATENT_WAKE`.
* Work is known by the label of who queued it; what it does is what any callback may do.
* `ClearLowPriorityWorkByLabel` is one step, since it locks interrupts and the scheduler.
  The kernel calls inside it have critical sections of their own; whether leaving one
  unlocks interrupts is up to the FreeRTOS port, which is not in the repository.
* The scaling factor of `KTime` is 1, its default; changing it is modelled by what it does
  to the loop, a `Give()`.
* `Work::Queue()` is one step for the same reason. An exhausted pool ends in `PAL.Fatal()`,
  which does not return: `fatal` is the end of a behaviour, so `components` does not check
  for deadlock.
* In `UartInput` a byte is its place in the stream, so that a line says which bytes it was
  made of; what kind a byte is decides what `AddData` does with it. An interrupt that finds
  several bytes ready is as many interrupts in a row: each queues work, and work that finds
  an empty pipe does nothing. The Evm thread's steps are those of `AddData`, between any
  two of which interrupts come; `tmp` is its copy of the map, called in any order.
* The main loop is not nested inside a line callback there, which would run `AddData` while
  it is running, and raw listeners do not change while `Distribute()` iterates over their
  map. Both are up to the application.
* In `UartOutput` the handler is one step, for threads do not run inside of it; what the
  device sends meanwhile it could have sent just after. The device is the PL011 as the code
  uses it: it takes bytes while its FIFO has room, raises its transmit interrupt when the
  FIFO runs down to the trigger level and not when bytes are put into the pipe, and takes it
  back when it is filled above. The handler also runs for what is received, so it may at any
  time, and nothing waits for that.
* `targets` is what the `UartTarget` objects of all threads say, which the program does not
  store: it is what `uartStack`, the stack it does store, ought to answer. A byte carries
  where its sender wanted it (`Goal`), for `OutputToTarget` to be said of the wire.
* Any thread pushes, pops and sends whenever it runs, whatever others have on the stack: no
  rule of the code keeps them apart. A thread whose target is the newest gets its UART; what
  one sends while the newest target is another's goes to that, and when targets are popped
  out of order (`crossed`) the rest of them name the wrong UARTs, until all are gone. For
  these bytes the code promises no UART ("any"). The stack may also change while a thread is
  in `Put()`, which then raises the interrupt of another UART: `missed` has the UARTs whose
  bytes wait for the next interrupt because of that.
* Sending to a disabled UART is allowed, as in the code, where the check is commented out.
* In `UsbCdc` the Evm thread preempts the TinyUSB thread and not the other way, so `Send()`
  is one step, which may come between any two accesses of `SendFromQueue()` to the queue and
  to TinyUSB. A byte is its number in the order `Send()` took them, modulo `Modulus`. `erase`
  and `clear` on the vector are not atomic against `Send()`: `Erased` is what a `Send()` inside
  of them may leave, and `SendsInErase` allows it.
* A storage command is the littlefs calls it makes, in order (`todo`): each may fail, and
  power may fail between any two. Each call of littlefs is atomic over a power failure, as
  littlefs promises for the metadata, but formatting is two (`format`, then what `mount`
  finds). What an application believes about its files is kept with the files it has. Every
  call may fail, those of the start included, but `lfs_format`, which needs the flash driver
  alone, whose calls always return `LFS_ERR_OK`. The code does not look at every result: `Copy()`
  writes whatever string `Read()` left, `Write()` ignores a remove or a close that fails, and
  `App.h` ignores that the version was not stored. `unnoticed` and `trouble` say when a
  command, or the start, went on like that. That the version is there and cannot be read has
  the same effect as a new firmware.
* In `Gps` a sentence is one step, for the reader runs in the Evm thread; a callback that
  calls `Reset()` does so inside of that step, where the code goes on with what is left.
  Data is known by the second it was measured in (`time`), which is what tells one fix from
  a mixture. The satellite cache is `static` in the code and so survives `Reset()`. `Lose` is
  a sentence that does not arrive or fails `IsValid`.
* In `BleGatt` the stack's calls are interrupts between any two pieces of Evm's work. Bytes
  are known by the write they came in; the work takes its bytes from the front of the shared
  buffer. btstack is external: what it may call, in which order. Work that is queued from an
  interrupt is dropped when Evm's queue is full, which others may fill at any time. Nothing
  in the code keeps connections, `Init()` and requests from coming before the work they
  queued earlier has run, long writes from counting the bytes of earlier writes, or a client
  from asking for only a part of a value: all of that happens, and `outpaced`, `recounted`
  and `gaveUp` say when it did. The properties say what holds until then, and what a client
  still gets after a read that was given up. A write that waits while another characteristic
  is written to loses its handle (`Redirected`), which is part of the model and not excepted
  but by that handle.
* In `BleObserver` the program's calls are made one step at a time, since reports come in
  between, in any order and as often as it likes; the timer's callback runs `Start` again without `deDup`, as the code does.
* `TimerSequence` and `Blinker` keep times as what is left of them, so that no clock grows.
  A sequence that is changed inside of its own step may leave a reference that dangles: the
  next step then starts at any time. A program may do so, and call in any wrong moment the
  code does not test for; `missed` has the steps that such a call concerns. `Blinker` counts `count + 1` modulo `Width`, the width of the counter.
* `s` in `UsbPower` is the state of the pins it is made over; a debounced interrupt compares
  with the time since the last one (`sinceMs`), which stops growing at the debounce time.
* In `Shell` a part of a line is what it was split and trimmed to, with the mark whether it
  has a quote in it: `Eval()` looks it up as it is written, `ShellCmdExecute()` without the
  quotes. `evals` is the stack of `Eval()` calls, since what repeats calls it again. A scope
  is never cleared, as in the code: `scope ""` has no argument, for `SplitQuotedString` drops
  empty parts (a part that is an empty pair of quotes indexes an empty list, and is not among
  the lines).
* An object of `Pin` may be assigned any other and any new pin, as `blinker.set.pin` of the
  shell does. The code then writes the new pin's data over the old pin's and may switch the
  new one off: `left` has the pins that an object was made to leave for another, whose counts
  are spoiled, and `joined` those they came to.
* In `Timeline` an event of a thread is two steps, the test of `currentlyReporting_` and what
  is done under the lock, and a report may begin between them. Two threads report at the same
  time, and the one that ends first lets events in again. `walk` has what each report prints
  and what there was to print, with the events that came late. A report is a step for each element, since it waits for room to
  print. `SetMaxEvents(0)` divides by zero and is not among the calls.
* In `Wspr` a frequency is a pair of Hz and hundredths, computed as 32 bits would, and a
  character is its code. The loop of `GetRdx` is the index up to which as many are counted as
  are asked for. The receiver, `Decode`, is the coding undone; what it does not know as one of
  the four tones is none of them. When symbols begin is left out: the callbacks of `Send()`
  and the events of its timeline take time between symbols, of which the code makes up for
  that of one callback only. The minute of a channel
  takes part in its number only: the function that rotates the minutes by band, `Rotate()` in
  `WSPR.h:190`, is not in the repository.

## What is checked

| run | instance | states | shows |
|---|---|---|---|
| `timers` | 3 timers, clock 0..2, 5 sequence numbers, 2 nested callbacks, snap, symmetry | 0.75 M | an interval timer is in exactly one place (`IntervalKeepsGoing`); the tree with its keys does what `TimerService` says (`ImplementsService`) |
| `evm` | 1 handler, 1 task, 1 timer due at 3, queues of 1, 2 nested loops, ticks of 2 us, clock 0..4 | 0.43 M | whenever the loop sleeps: no work without a wakeup, no exit pending, no timer due before the wait ends but by the time that passed before it began; queued work and due timers are served |
| `uart_input` | 4 bytes, pipe of 2, lines of 3, ids below 3, one line and one raw listener besides the shell | 2.1 M | the shell gets the lines of the stream; no line is made of two; ids and listeners belong together; what was cleared is gone; the pipe is served |
| `uart_output` | 2 threads of two priorities, 2 sends of 1 or 2 bytes, pipe of 3, FIFO of 1, a stack of 3 | 0.54 M | bytes go where their sender wanted, in order (`ImplementsChannel`); none is in a pipe without an interrupt to come, unless the stack changed under its sender; and they leave it in the end |
| `gps` | days of 2 seconds, fix batches of 2 sentences, one reset | 1.8 M | what is told of a fix is of one second; locks are told once and held; a date told is of its day, from the first trusted RMC after midnight on; satellites of two batches mix only where sentences were lost; a fix is told in the end |
| `storage` | 2 firmwares, an object, 2 names, 2 values | 0.30 M | no firmware finds another's files; an object is the old or the new (or, if there was none, it may be found empty); a move loses nothing but after failures the code ignores; the same firmware finds what it left, unless its version was not stored or not read |
| `ble_gatt` | 2 characteristics with notifications, values of 2 and 3 bytes, chunks of 2, a buffer of 2, room for 2 works | 1.9 M | copies stay in the buffers and handles in the map; reads are of one value and answered; writes arrive; subscribers are told |
| `components` | see the bounds | 0.41 M | steps start when asked to and all run; blinks are counted; a pin is on while it is named; USB's clock follows VBUS; jobs run; a report that waits has work to come, or that work was taken away; bytes USB took arrive once and in order; no line of the shell is evaluated inside of itself; a report of the timeline prints what was recorded, in order; a WSPR message is heard as it was sent, on its frequency |
| `usb_cdc_erase` | `Send()` also inside of `erase` | | bytes that were taken are lost |
| `ble_long_writes` | long writes after others (`GoesOn`) | | the work copies more than the buffer has (`BytesThatCame`) |
| `observer_restart` | `Stop()` with a report in the pipe, and a second `Start()` | | a report stays in the pipe, and so does every later one |
| `shell_repeat` | lines with quotes | | a line that repeats itself is in the history |

The last four are runs TLC must find violated: they show where the code does not do what
its comments say (`findings` in `PROJECT.json`).

What the passing runs assume of their surroundings is a constant of each module, and where
the code itself does not see to it, a configuration beside them shows what it would be
without (they are not part of the runs; TLC reports a violation of the property named):

| assumption | without it |
|---|---|
| `EvmQueuesWork = FALSE`: callbacks queue no work to a full queue | `MCEvmWedge.cfg`: the Evm thread waits for itself (`WorkServed`) |
| intervals above zero | `MCEvmZeroInterval.cfg`: other timers starve (`TimerServed`) |
| (none; `SleepNotPastDeadline` excepts that word) | with 0xFFFFFFFF us left, the argument of `Take()` is the word for ever (`Evm.cpp:148`) |
| `MayDropWork = FALSE`: others do not push the UART's work out of Evm's queue | bytes stay in the pipe until the next one comes (`InputServed`) |
| listeners give back their own ids | `MCUartReservedId.cfg`: the reserved id is given away (`IdsHaveOwners`) |
| buffers that do not fill the pipe between them | `MCUartWedge.cfg`: two senders wait for each other's interrupt (`OutputSent`) |
| `CallbackResets`: a callback for the time itself does not reset | fixes of that sentence are stamped after the reset (`FixesComplete`) |
| (none; `SplicedOnlyAcrossGap` allows for it) | `MCGpsSatellites.cfg`: satellites of two batches in one (`SatellitesWhole`) |
| (none; `MoveKeepsData` excepts `unnoticed`) | `Move()` removes what it did not read or close |
| (none; the properties of `ble_gatt` except `outpaced`) | a value is another connection's, work is lost; `map.at()` throws |
| (none; those about writes except `recounted`) | run `ble_long_writes` |
| (none; `ReadsAreWhole` excepts these two) | a value that filled its last blob and then changed: the client asks for one blob more, for which the value is got afresh, and takes the end of another for its own; a read after one that was given up is answered with what was left of that |
| `SendsInErase = FALSE` | run `usb_cdc_erase` |
| `CleanEdges`, `CallsInside = FALSE`, `Counts` without the largest | `MCComponentsEdges.cfg`, which has all of these at once (check one property at a time): a bounce hides an edge of VBUS (`UsbFollowsVbus`); what is told from inside of the functions that switch is overruled by the timer that `OnTimeout()` arms after them, and the largest count, one more than which is 0, is counted down to -1, which is endless (`BlinksAsAsked`) |
| (none; `LeftOnlyByLostWork` excepts `stranded`) | run `observer_restart` |
| lines without quotes | run `shell_repeat` |
| (none; `ReportInOrder` leaves these lists open) | a list that was emptied under a report is walked once around 32 bits |
| `Bands` below 43 MHz (`BandsInWord` in the proofs) | `MCComponentsEdges.cfg`, with 6m: hundredths of Hz do not fit in 32 bits (`HeardAsSent`) |
| `MessagesAssumption`: callsigns, grids and powers of a standard form | other callsigns are sent as another or overrun the six characters |

`MCEvmTwoTimers.cfg` is a larger instance of `evm`, which holds and takes longer than the
others. That blocks of several slots may overlap in the pool (`HeapAllocators`) concerns no
caller: all ask for one.

Bounds. Three timers are the fewest with a neighbour on each side in the list; five
sequence numbers let each be armed and one again, or one be an interval and fire twice; two
nested callbacks are the fewest in which a timer may fire inside its own callback's nested
loop. A queue of one item is full and empty in turn, so every item meets both edges, and it
is full again while the loop still has its quota to serve. Two nested loops are the fewest
in which the wrong one could leave. With a tick of 2 us an expiry is either on a tick or
between two. `CountLimit` is 1 in the run while Evm's semaphore counts to 2^32 - 1: the
smaller limit loses more of the gives, and the theorems hold for every limit. A timer due at
3 is a tick and a half away, so the loop sleeps with it registered, for one tick, and the
clock may pass between reading it and waiting, before, at and after the next tick; `MaxTime`
of 4 lets the wait end on either side of the timer. Time does go on up to `MaxTime`, and
`TimerServed` excepts the waits that this bound cuts off.

Four bytes are
a line of three with what comes after it, or two short lines, and more than a pipe of two
holds; an id map below 3 is full with one more listener than the shell. An output pipe of
three is full with a buffer and a half, so that a thread waits for room, but not with one
byte of each of two buffers; with a FIFO of one every byte that is sent interrupts. One
thread uses both UARTs and the other `UART_1`, and a stack of three holds two targets, of one
thread or of each, so that they are pushed and popped in each other's order and while the
other thread sends or waits for room.

A day of two seconds has a midnight in every run; a batch of two sentences may lose either.
Two firmwares are one that follows another or itself; two names are the fewest to move
between, two values the fewest to tell old from new. With chunks of two, a value of two bytes
fills its last blob, so that the client asks for one more, and one of three does not; a
buffer of two is filled by two writes of one byte, and by one long write; a queue of two is
full with one request of each of two handles. The run goes on until interrupts outpaced Evm
(`outpaced`) or a long write counted another's bytes (`recounted`): what follows is excepted
from the properties, and the theorems are proved without this bound (`GoesOn`).
With packets of one byte every byte of a FIFO of two completes by itself, so that `Send()`
comes before, between and after; eight numbers are more than FIFO and buffer together hold.
In `components`: sequences of up to three steps with delays 0 and 2; blinks of 0 to 2 with a
counter of 4 values, on and off for 1 and 2 or 0 and 1; the pin of VBUS and two of LEDs, with two
client objects besides `pVbus_` and the temporary of a statement, so that an object can be
moved from a pin that another names or that nobody else does; two callers of `Work` and four slots, which lets the pool be
fragmented; two advertisements, a pipe of three and a queue of two, from which other work may
push the observer's; a history of two lines, so that old ones drop out, numbered in four
values, so that they wrap; timelines of one event and of three, two threads that report,
also at the same time, two that record, two events that come late in a report, and indices
of two bits; two messages, one with a callsign of each kind, the first and the last
channel and two bands.

Fairness (`FairSpec`). The Evm thread has the highest priority of the threads that queue
work, so it takes its next step whenever it can; callbacks return; a task that can run for
good gets to, and time passes. Nothing is assumed of interrupt handlers, of tasks that start new
calls or of clients. In `UartOutput` the device sends and an interrupt that is asked for
comes; nothing is assumed of who pushes and pops targets; a thread that can go on again and again does
(strong fairness), since those above it wait in turn, for the room that it is to make or for
their next call. In `UartInput` the Evm thread takes its steps and callbacks return; nothing
is assumed of interrupts and listeners. In `Gps` seconds pass, the receiver goes on and Evm
serves the timer: `FixTold` is about a receiver with a steady fix. In `BleGatt` Evm
serves its work, and btstack asks again for a read that was answered and sends what it was
asked to send; nothing is assumed of clients.
In `UsbCdc` the host takes what is there and the TinyUSB thread, which
run while Evm waits, takes its steps. In `components` timers run out and steps return (`TimerSequence`),
Evm serves the pin's work (`UsbPower`), jobs return and whoever preempts the work
thread lets it run (`Work`); each of these says nothing of the behaviours of another component. `Shell`,
`Timeline` and `Wspr` need none: what is shown of them is safety.

## What is proved

For every value of the constants, from the assumptions stated in the module the theorem is
about and the premises in its statement only. A premise says what the code leaves to its
surroundings, as in the table above: TLC finds the property violated without it.

* `TimerProofs`: types, `TimerListInOrder`, `IntervalKeepsGoing`, `EarliestFirst`. That the
  list is in order is not inductive: a search finds its timer only if no two timers have the
  same key, so the invariant carries that sequence numbers differ and are below the next
  one; and that `OnTimeout` never registers a registered timer needs an interval timer to be
  in one callback at most. The lemmas say what a search in an ordered list returns (exactly
  one gap), and what cutting and inserting leave. From them follows `ImplementsService`, step
  by step: a timer that is searched for by its key is found at its only place, and the gap
  an armed timer goes to is behind every timer that is due no later, for its sequence number
  is above theirs, which is where a queue by due time would put it.
* `EvmProofs`: `NoLostWakeup` and `NoSleepAfterExit`. The invariant follows the loop to its
  sleep: once it has passed a queue because it was empty, whatever is in that queue has
  given the semaphore or is about to (`Covered`), and nothing takes the semaphore before the
  loop is back at the services. While client code runs nothing is claimed, which is why
  clients may do as they like; the frames below the innermost one are all in callbacks, so a
  loop that is returned to is not on its way to sleep. `SleepNotPastDeadline`: a sleep that
  ends by itself ends by the time the next timer is due, since a duration is rounded down to
  ticks and cut off at the word it goes through, or is late by no more than what passed
  between the reading of the clock and `Take()` (`passed`); with a timer there is no sleep
  without end, unless what is left to it is the one word that means it. `NeverSleepsLate` is the
  same for whatever wait has an end, without exception.
* `UartInputProofs`: `IdsHaveOwners`, from what `IDMaker` and the maps are after each call
  (`Owned`); `LinesNotSpliced` and `ClearedIsGone`, for which bytes are followed from the
  pipe to `AddData` to the line: each place has bytes later than the one before it, and
  between two of them is nothing but what is no part of a line or was lost (`InOrder`).
  `ShellGetsLines`: as long as nothing is lost, what `AddData` and the pipe have are the last
  bytes that came, without a gap, and what came before them, split, is the line that has
  begun and the lines the shell was called with, but for the one that is ending while the shell
  is still to be called (`ShellInv`). A line that gets too long was short before, so nothing
  need be known of what happens after it.
* `UartOutputProofs`: types; that `UartOutput` implements `OutputChannel`, by what a step
  does to FIFO and pipe taken as one sequence; and `NoByteStranded` and `OutputToTarget`,
  whichever threads push, send and pop in between. For these the stack must be followed
  (`StackInv`): it has one UART more than there are targets, whoever's they are, and as
  long as none was removed out of its order (`crossed`) they are the same UARTs in the same places.
  What a thread sends while the newest target is its own, or there is none, is therefore put
  to the UART that says; `UartCurrent()` is asked once for the bytes and once more for the
  interrupt, and when the two answers differ, the UART that got none is in `missed`. The
  pipe a handler leaves behind has a full FIFO before it, and a FIFO that runs down to the
  trigger interrupts.
* `StorageProofs`: the four properties of `storage`, for any names, values and firmwares. What a
  command has left to do is a suffix of a known sequence of calls, and each suffix says what
  the files are. The erase is the first call left whenever some file is not of this
  firmware, whichever start it is; `Put`'s `open`, which creates the file when there is none, is only ever the
  first of its calls; while a file is copied the one it is copied from is whole, and it is
  removed only after what was read of it was written, unless one of the failures that the
  code ignores came in between (`unnoticed`). That a start finds what the last one left rests
  on the version being stored and read (`trouble`), which `App` does not check.
* `GpsProofs`: `FixesComplete` (if the callback for the time does not reset),
  `LocksAreSteady`, `DateWrongUntilRMC` and `SplicedOnlyAcrossGap`. The invariant has three
  parts: what is left of a second is the end of one, whose batches are whole (`WorldInv`);
  the data at hand is of sentences that came, and what the later of them need of the earlier
  is there (`DataInv`); the cache of satellites says which message of the batch comes next,
  and from where on none was lost (`CacheInv`). A second is flattened from batches of any
  length, by a recursive function.
* `BleGattProofs`: `NoStrayAccess`, `WritesDelivered` and `ReadsAreWhole`, for any client,
  which may write before a write was handled and give up what it reads, and
  for work that a full queue drops. `MapInv`: what queued work will look for is there.
  `WriteInv`: the buffer is the bytes of the writes that wait, one after the other, each as
  long as its work was told (`Ledger`), and behind them what an unfinished long write has
  accumulated, which `CANCEL` takes off again. `ReadInv`: what is ready is what the client is
  reading, or a rest that nobody asked for. They hold until a connection, `Init()` or a full queue
  outpaced Evm, and `WriteInv` until a long write counted the bytes of another (`Held`); from
  there on the properties claim nothing.
* `ComponentProofs`, about the small components one after the other.
  `Work`: each count of the semaphore, and the count the thread holds, has a job in the
  list, so that `front()` always exists, whatever the pool does (`JobForEachCount`). With the
  pool (`WorkInv`: the marked slots are those of the nodes, one each) it is also the other way
  round: the semaphore is never given at its limit, which the code would not notice, and no
  job waits without a count (`NoJobWithoutCount`); and `PAL.Fatal()` is called only when
  `COUNT_LIMIT` jobs wait (`ResetsOnlyWhenFull`). It rests on the scan of the pool finding a
  free slot whenever there is one (`PlaceIsFree`), as it passes over slots one at a time when
  all blocks are of one, as here, and on counting slots and nodes (`NodesFitSlots`).
  `BleObserver`: `LeftOnlyByLostWork`, which is inductive with the types: an interrupt that
  fills the empty pipe queues work, and the work empties it; what else empties the queue,
  `Stop()` and what is pushed out of it, is remembered (`stranded`).
  `TimerSequence`: `StartsAsAsked`, in which what the timer has left and the time since the
  last step are together at least the delay the next step asks for. A call in the wrong
  moment takes that from the step it concerns, and `Reset()` inside of a step from all of them until the
  next (`missed`).
  `Blinker`: `BlinksAsAsked`, without calls from inside its callbacks and for counts below the
  largest; pulses and what is left to count are together one more than the count.
  `Shell`: `NoEndlessRepeat`, for lines without quotes: what is remembered repeats nothing,
  so a repeated line returns, and it is never the one that repeats it.
  `Pin`, with `UsbPower` as its client: `PinsCounted`, through every assignment. An
  object that names a pin and is assigned another leaves a count behind that is never
  right again (`left`), and the pin it joins, whose count is right, may be switched off
  by the assignment (`joined`); the counts of all others stay those of the objects.
  The temporary of a statement names nothing after it.
  `Timeline`: `ReportInOrder`, for any number of reports that overlap: what the
  buffer holds is the end of what a report had when it began and of what came late since (between the
  test of `currentlyReporting_` and the lock), and lacks no more of its beginning than came
  late. Lists that were cleared under a report are left open.
  `UsbCdc`: `QueueMoves`, because `Send()` queues only what the FIFO had no room for, and a
  full FIFO means that TinyUSB is sending; the invariant says where `SendFromQueue()` may be
  preempted and what it knows then. `NoneLost`, for `~SendsInErase`: the bytes in the packet
  on the wire, in the FIFO and in the part of the queue that was not sent yet are numbered on
  from what has arrived, also while that part is being determined and removed.
  `Wspr`: `HeardAsSent`, for bands below 43 MHz. The invariant (`WsprInv`) says that each
  symbol on the air is the tone of the message whose turn it was; what remains is a lemma for
  each step of the coding, that the receiver undoes it for all inputs. A tone is told from
  the others by its hundredths, since the sum does not wrap (`HundredthsFit`, `ToneIsHeard`);
  `GetRdx` gives each coded bit a place of its own, because reversing a byte twice gives the
  byte and so there are as many counted indices as tones (`ReversedTwice`, `RdxIsOneToOne`);
  the tap of place 0 gives each bit back from the parity and the bits before it
  (`ParityUndone`); bits are a number again if it fits (`NumberIsBits`); and callsign and
  grid fit into 28 and 15 bits, as digits of different bases, blanks included
  (`CallsignIsHeard`, `GridIsHeard`).

What a recursive function computes (the second of `Gps`, the lines of `UartInput`, the scan
of the pool, the bits and numbers of `Wspr`) is shown by the least number for which it would not: the function
exists because one up to the number before can be continued, or because what it should be is
one, and it has a property because the value before has it.

Only model-checked: liveness (`Served`, `InputServed`, `OutputSent`,
`FixTold`, `RequestsServed`, `StepsRun`, `UsbFollowsVbus`, `JobsRun`, `Delivered`), which is
out of the provers' reach, and the pool's scan for blocks of several slots, which nobody asks
for. `QueueMoves` is only proved: `Delivered` cannot hold without it. So are the invariants of
`Work`: `JobsRun` cannot hold if `front()` may fail or a job has no count.

## Not modelled, and the plan

`PROJECT.json` lists every component. What is left, in this order:

1. `PAL`: the nesting of forced interrupt mode, and the fatal handlers.
2. Commands to the GPS module, their acknowledgements, and UBX messages.
3. The output to USB and `UartOut` of interrupts; directories of the file system; `BleGap`
   and the attribute database; the bus recovery of I2C; the stepper of `Motor`.

Sensors, clocks, PWM, ADC, watchdog, descriptors, the help of the shell, the table of the
JSON router, the conversions of the time service, the script bindings and vendored code
(ArduinoJson, si5351, nhash) stay out: they are register access, data, tables or formatting, with no interleaving
to get wrong. They are most of the repository's lines, which is why the map covers a small
share of these. `PowerManager` is what is left of an earlier platform and does nothing here.
