# A verification development for embedded-dslib

This directory holds TLA+ specifications of *embedded-dslib*, a C99 library of
statically allocated data structures and event utilities for embedded systems
(`src/src/*.c`, `src/inc/*.h`), the TLC configurations that model-check them, and
proofs checked by TLAPS. Paths below are relative to the repository.

The library never allocates memory and never starts a thread. What makes it hard
to get right is *re-entrancy* (a timer callback, an event handler or a foreach
callback calls back into the structure that is being walked), *interrupts* (one
side of a ring buffer runs in an ISR, and the ISR may drive the timers), and
*fixed sizes* (every pool, table and counter has a limit and wraps).

## 1. Inventory

| Component | Source | State it keeps | Operations | What makes it correct |
|---|---|---|---|---|
| Software timers | `ds_timer.c/.h` | pool of `ds_timer_t` (id, period, remaining, repeat_count, executed_count, periodic, state), `next_id` | init, create, start, stop, delete, reset, tick, queries | countdowns stay in range; a tick calls back exactly the timers that are due, each once; unique ids; callbacks that change the pool harm no timer; phase kept by late ticks |
| Event bus | `ds_event.c/.h` | pool of subscriptions (event, handler, active), `active_count` | init, subscribe, unsubscribe, publish, reset, sub_count | no duplicate subscription; counter exact; a publish calls whoever stays subscribed once, whatever handlers do; publish returns |
| Hash map | `ds_hashmap.c/.h` | open-addressing table (hash, key, value) with deletion marks, `size`, `deleted_count` | init, put, get, remove, contains, clear, size, foreach | a map: each stored key is found, one copy of it, nothing else changes; counters exact; foreach visits each key that stays once |
| Ring buffer | `ds_ringbuf.c/.h` | bytes, `head`, `tail`, mask | init, reset, write, read, write_batch, read_batch, peek, available, free_space, is_empty, is_full | a FIFO between one writer and one reader whose accesses interleave; no loss, no overrun |
| FIFO queue | `ds_queue.c/.h` | items, `head`, `tail`, `count` | init, reset, enqueue, dequeue, peek, size, is_empty, is_full | a bounded FIFO; with an interrupt as producer, `count` is written by both sides |
| Stack | `ds_stack.c/.h` | items, `top` | init, reset, push, pop, peek, ... | a bounded LIFO |
| Linked list | `ds_linkedlist.c/.h` | intrusive nodes, sentinel head, `size` | init, push/pop at both ends, insert, remove, find, foreach, clear | prev and next agree, `size` exact, refinement of a sequence; foreach reads `next` after its callback, which may have moved the node |
| Priority queue | `ds_priority_queue.c/.h` | binary heap of item pointers, `size`, `compare` | init, push, pop, peek, reset, size, is_empty, is_full | heap order; nothing lost; pop returns a least priority |
| Bit field | `ds_bitfield.c/.h` | words of 32 bits, `num_bits` | init, set_all, clear_all, set, clear, toggle, test, find_first_set, find_first_clear, count, size | a set of bit numbers; what the last word holds past `num_bits` never shows |
| Common | `ds_common.h` | none | error codes, power-of-two test, alignment, modular power, hash | pure functions |
| UART example | `ringbuf_uart_example.c` | ring buffer, the line being parsed | receive interrupt, line parser | a line is printed as it was received, whole; every byte reaches the parser |
| Command table example | `hashmap_cmd_example.c` | map from names to an array of handlers | register, execute | a command runs the handler it was registered with |
| Event bus example | `event_bus_example.c` | | a script of publishes | a demonstration |
| Tests | `test/*` | | | statements of intended behaviour |

How they interact. The library's components do not call each other: they meet in
the application. `ds_timer_tick` calls `timer->callback` (ds_timer.c:202),
`ds_event_publish` calls `subs[i].handler` (ds_event.c:130), and
`ds_hashmap_foreach` / `ds_list_foreach` call their argument, each from inside a
loop over shared state, and the called code may use the same object. An ISR and the
main loop meet in the ring buffer (`ringbuf_uart_example.c`, `ds_ringbuf.h`), and
the headers suggest an ISR as the caller of `ds_timer_tick` (ds_timer.h:155) and as
producer of the queue.

Hard behaviours are listed, each at its line, in `PROJECT.json` under `hazards`.

## 2. Modules

| Module | Role |
|---|---|
| `DsTimer` | the timer pool, with `ds_timer_tick` as a stack of activations |
| `DsTimerIsr` | `DsTimer` with the tick in an interrupt, the calls cut at their stores; implements `DsTimer` |
| `DsTimer_proofs` | TLAPS proofs about the pool of `DsTimer`: types, countdowns, phase, ids |
| `DsTimerTick_proofs` | TLAPS proofs about its ticks and callbacks, and that `DsTimerIsr` implements it; extends `DsTimer_proofs` |
| `DsEventBus` | the event bus, with `ds_event_publish` as a stack of activations |
| `DsEventBus_proofs` | TLAPS proofs of everything about the bus but that publishes return |
| `Dictionary` | abstract: what a map promises |
| `DsHashMap` | the open-addressing table; implements `Dictionary` |
| `CommandTable` | the command table example, composed with `DsHashMap` |
| `CommandTable_proofs` | TLAPS proofs about the hash map and the command table |
| `DsCommon` | the pure helpers of `ds_common.h`, each beside a reference definition |
| `MCDsHashMap` | the keys of the hash map's runs; asserts that `DsCommon` gives their hashes, and what it states |
| `BoundedFifo` | abstract: what a queue between two parties promises, and that a use it is not made for breaks it until it is next cleared |
| `DsRingBuf` | the ring buffer between two parties; implements `BoundedFifo` |
| `UartExample` | the UART example, composed with `DsRingBuf` |
| `UartExample_proofs` | TLAPS proofs about the ring buffer and the UART example |
| `DsQueue` | the FIFO queue between two parties; implements `BoundedFifo` |
| `NodeSequence` | abstract: what a list promises |
| `DsList` | the linked list and its walks; implements `NodeSequence` |
| `DsList_proofs` | TLAPS proofs of the ring, of the sequence it shows and of the walks |
| `PriorityBag` | abstract: what a priority queue promises |
| `DsPriorityQueue` | the binary heap, sift step by sift step; implements `PriorityBag` |
| `MCDsPriorityQueue` | the items and priorities of the priority queue |
| `DsPriorityQueue_proofs` | TLAPS proofs of the heap order and of the refinement |
| `BoundedLifo` | abstract: what a stack promises |
| `DsStack` | the stack; implements `BoundedLifo` |
| `BitSet` | abstract: what a bit field promises |
| `DsBitfield` | the bit field in words; implements `BitSet` |
| `MCContainers` | priority queue, stack, queue and bit field side by side |
| `MCComponents` | these, the event bus and the list side by side, for one run |
| `MCInterrupts` | the UART example with the ring buffer, and `DsTimerIsr`, side by side, for one run |
| `MCContainers_proofs` | TLAPS proofs about the queue, the stack and the bit field, as `MCContainers` instantiates them |

Conventions. A TLA+ name is the name in the code where there is one. A call that
only returns an error code changes nothing and is a stuttering step. NULL arguments
are refused at once by every function and are left out. A definition commented
*Mutant* is a plausible bug, not used by the specification: the property it is
listed with in `PROJECT.json` fails when it takes the place of the real definition.
Variables and record fields commented *history* exist in the model only.

### DsTimer

`timers[s]` is `mgr->timers[s]`. `name`, `tick_count` and `free_list` are never read by the
library, and `user_data` is only handed to the callback (ds_timer.c:202); they are left out.
`callback` is non-NULL exactly while the id is valid. The one exception is a timer that got the id
0 when `next_id` came round: the pool takes its slot for free, and the application's calls on it
are left out. `ds_timer_tick` is not atomic: `TickBegin` pushes a frame
(`elapsed`, the loop index `slot`), `TickSkip`, `TickCountdown` and `TickExpire` are
the branches of one loop iteration, `TickExpire` ends at the call of the callback,
`CallbackReturn` is the code after it, `TickEnd` returns. While a callback runs (the
top frame is `calling`), the API actions `Create`, `Start`, `Stop`, `Delete`, `Reset`
are open to it, as far as `CallbackMay` allows: `"other"` lets it touch timers that
are not in their own callback, `"self"` those that are, `"tick"` lets it call
`ds_timer_tick`. `SetRepeat` is the application's write to the public field
`repeat_count`, which no function of the library sets to anything but 0.
Unsigned arithmetic is modulo `Word`.

`IdLimit` bounds the creations of a run: none while `next_id` has that value. With 0 every id but 0
is handed out once; with `Word` there is no bound and ids come round.

History: `armed[s]`, what `ds_timer_start` has promised for slot `s`: `"yes"` after a start that
returned DS_OK, until the timer has fired for the last time or is stopped, deleted or reset, and
`"again"` if that start was made by the timer's own last callback; `owed`, the timers that a tick
has yet to call back; `touched`, those that a callback or a nested tick has changed since the tick
began.

What the code after a callback may hit is a slot, whose timer the callback may have restarted,
deleted or replaced. `ArmedRuns` and `RestartedRuns` divide the promise between them: a start holds
whatever callbacks do (a run and a theorem), but for the one made by a timer's own last callback,
which the code undoes (a violation run). `ExpiresTheTimerThatFired` says how far that write goes.

### DsTimerIsr

`DsTimer` lets others in only while a callback runs. Here the tick comes from an interrupt,
between any two stores of the API call the main loop is making, and runs to its end. A call is
the sequence of its stores (`CreateCall`, `StartCall`, `StopCall`, `DeleteCall`, `ResetCall`;
`CallBegin` makes the first, `NextStore` the others from `stores`). The order of the stores is
that of the program; the fields are not volatile, so that the build keeps it is an assumption.
`CallsAtomic` says that `DsTimer` is implemented, with the stores still to come counted as made
(`AllStored`): a call takes effect at its first store. For `ds_timer_start` that is so only if
the application masks the interrupt around it (`StartMasked`). The callbacks of the interrupt
leave the pool alone; one that creates a timer can be given the slot that the interrupted
`ds_timer_create` has found and not yet marked (`find_free_timer`, ds_timer.c:71), which no
order of stores can prevent.

### DsEventBus

`subs[s]` is `bus->subs[s]`. `PublishBegin` pushes a frame, `PublishSkip` and
`PublishCall` are the two outcomes of a loop iteration, `HandlerReturn` goes on with
the loop, `PublishEnd` returns. A running handler may do what `HandlerMay` lists.
`owed` and `called` are history. The names that another module of the same run has too carry the
prefix `Bus` here (`BusReset` is `ds_event_bus_reset`), and `List` in `DsList`.

### DsHashMap

One step per call; the probe loop is defined by what it looks at (`Probe`, `Ends`,
`StopsAt`, `FirstDeleted`), and `put` is split into the outcomes of its loop.
`ds_hashmap_foreach` is one step per slot and one for the return of its callback,
which may put, remove or clear. A key is a model value with a hash (`Hash`), so that
collisions are chosen, and the hash arithmetic wraps at `Word`. The lookup that
`contains` makes is that of `Get`.

### CommandTable and DsCommon

`CommandTable` lets one of two users loose on the map: `"api"` takes every action of
`DsHashMap`, `"commands"` those of the example. The entries of `g_cmd_store` are the values of
the map, `store` their handlers. `Register` is the whole of `register_command`: it takes an
entry and then puts the name, which may be refused; `RegisterRefused` is its two early returns.
A NULL handler, which `register_command` does not refuse, is left out (section 5).
`Execute` is the lookup and call of `execute_command`. `bound` (history) is what a name was
registered with.

`DsCommon` has the helpers as the code computes them (bitwise, with overflow) and the formulas
that say what they are to compute; `MCDsHashMap` asserts these for every word of 8 bits, and that
`ds_hash_djb2` gives the hashes of its keys.

### DsRingBuf

A call is split at its accesses to what the two sides share: `WriteBegin` /
`WriteBatchBegin` read both indices, `WriteStore` stores a byte, `WriteAdvance`
stores `head`; `ReadBegin`, `ReadLoad`, `ReadAdvance` likewise, and a peek is a read of
nothing. `ResetHead` and `ResetTail` are the two stores of `ds_ringbuf_reset`. `mode`
says how the two sides share the processor: as two tasks, or one of them an interrupt
that runs to completion between two steps of the other. The buffer's fields are not
volatile; the byte accesses are `uint8_t` and may alias `*rb`, so a C compiler keeps
them and the stores to `head` and `tail` in program order, which is the order the
model has. Hardware that reorders stores between cores is outside the model, and
the library has no barriers.

A batch may ask for anything. One that takes all of `free_space` moves `head` onto `tail` and spoils
the buffer (run `ringbuf_batch`); `flooded` (history) says that this has happened, until the reader
has found the buffer empty (`ReadRefused`) or has reset it. The properties excuse what happens in
between and nothing else.

### UartExample

One of two users is at the ring buffer: `"api"` takes every action of `DsRingBuf`, `"uart"` is
the example. `Receive` is the interrupt's call of `ds_ringbuf_write_batch`, `ReceiveRest` its
accesses; `Enter`, `ReadByte`, `ReadRest`, `Parse`, `EndLine`, `Return` are `process_uart_data`,
which the interrupt may enter between any two accesses of its `ds_ringbuf_read`. A burst is of any
length and ends anywhere; what does not fit is dropped by `ds_ringbuf_write_batch`, which the
example counts and prints. `line_buf` and `line_pos` are local to the call and lost when it returns
(`Return`). `sent` is history: the bytes accepted from the line on that the parser is at.

What is demanded of the parser is in two parts. `LinesAsReceived` holds for all bursts: a line is
printed as it was received, from the last terminator or the last return on. `LinesWhole` says what
the comment of the example promises, that a return forgets nothing; the run `uart_torn_line` refutes
it.

### DsQueue

Split like `DsRingBuf`, with the same `mode`; a peek is `PeekBegin`, `PeekLoad`. The field
`count` is written by both sides: `count++` and `count--` are a load and a store of a plain
`uint32_t` (`EnqueueLoadCount`, `EnqueueStoreCount`, and likewise for dequeue), and the other side
may come in between. `lost` (history) says that one side's change was overwritten, until the next
reset. `CountsItems` is what the header says of `count`, which the run `queue_count` refutes;
`IndicesMatchCount` and `ImplementsFifo` say what holds all the same: `count` stays in range, and
until a change is lost the queue is a FIFO, in whatever order the accesses come.

A slot is filled before `tail` moves and counted last, which is why a consumer never sees an empty
slot; the item pointers are accesses of another type than `count`, so a compiler may move them, and
the order of the model holds only if it does not. `ds_queue_reset` stores three fields and is one
step at rest: the application must keep the other side out.

### DsList

`next` and `prev` are functions on the nodes and the sentinel. A call is one step, but for
the two walks: `WalkBegin`, `WalkCall` (a node is handed to the callback), `WalkNext` (the
callback returns 0 and the link is read), `WalkBreak`, `WalkEnd`. While a callback runs it may
do what `CallbackMay` allows. The library cannot see whether a node is in a list; the
history variable `linked` says so and states the caller's obligation. `ds_list_at` and the
emptiness test are operators; `ds_list_node_bind` and `data` are left out.

### DsPriorityQueue

`PushBegin`, `SiftUp`, `PushEnd` and `PopBegin`, `SiftDown`, `PopEnd` are the calls cut at the
iterations of their sift loops (nothing can run in between, but the invariants are about
that moment). Items are pointers and may be queued twice; `compare` goes by `Priority`,
which does not change while an item is queued.

### DsStack

One step per call; the items above `top` are whatever was left there.

### DsBitfield

A word is the set of its bits that are 1, of `W` bits where the code has 32, so that
`popcount32` is a cardinality and `ctz32` a least element. A query is a step that leaves its
answer in `reply`.

### MCContainers

The four containers that call nothing back and share nothing: `used` says which one is used,
the others stay as they were made. The assumptions on the constants of the queue, the stack
and the bit field are asserted here.

### MCComponents, MCInterrupts

`MCComponents` extends `MCContainers` with the event bus and the list (`part` says which of the three
is used); `MCInterrupts` has the two parts that an interrupt enters, the ring buffer with the UART
receiver and the timers of `DsTimerIsr` (`used`). Parts that share nothing are explored side by side,
never at once; the fairness of each part is that of its own module.

## 3. Runs

All are run with `tlc -config <name>.cfg <Module>`; deadlock is checked in all.

| Run | Module | Shows |
|---|---|---|
| `timer_reentrant` | DsTimer | callbacks that create, start, stop, delete and reset any timer in the middle of a tick, their own included, leave every countdown in range, ids unique, armed timers running and deadlines on phase; each tick calls back exactly the timers that are due; the write after a callback makes EXPIRED the timer that fired, or one that took over its slot, and no periodic timer that has no limit or has yet to fire; running timers fire and ticks return |
| `timer_catchup` | DsTimer | *violation*: one tick over several periods makes one callback; `test_all.c:918` asks for three |
| `timer_rearm` | DsTimer | *violation*: a one-shot timer that its own callback starts again ends EXPIRED although `ds_timer_start` returned DS_OK |
| `timer_ids` | DsTimer | *violation*: once `next_id` has come round, a new timer gets the id of one in use |
| `timer_start_race` | DsTimerIsr | *violation*: a tick in the middle of `ds_timer_start` fires on what an earlier period has left |
| `hashmap_walk` | MCDsHashMap | colliding keys, deleted slots in probe sequences and a walk with a mutating callback: still a dictionary, counters exact, walks complete; a command runs the handler it was registered with, while the handler array and the map fill up at different times; `ds_common.h` against its reference definitions |
| `hashmap_full` | MCDsHashMap | *violation*: `DS_ERR_FULL` with slots free, since quadratic probing does not reach all of them |
| `interrupts` | MCInterrupts | ring buffer: a FIFO of capacity - 1 bytes under all interleavings of its two sides, and again after a batch has flooded it. UART example: for bursts of any length the parser prints each line as received and gets to every byte. Timers: a tick from an interrupt, at any store of create, stop, delete and reset, does what it would do before or after that call, and of start too if it is masked |
| `ringbuf_batch` | DsRingBuf | *violation*: a batch that fills `free_space` makes the buffer look empty and loses all of it |
| `uart_torn_line` | UartExample | *violation*: a line that comes in two bursts is torn, since `process_uart_data` forgets what it has taken when the buffer runs empty |
| `components` | MCComponents | priority queue: the heap is in order but for the place where a sift works, nothing is lost or doubled, pop and peek give a least item. Stack: last in, first out. Queue: `count` in range, and a FIFO whose `head`, `tail`, `count` agree until a change of `count` is lost. Bit field: changes and queries are those of a set of numbers, from any contents of the storage. Event bus: handlers that subscribe, unsubscribe, reset and publish leave the pool consistent; a publish calls whoever stays subscribed exactly once; publishes return. List: the ring stays whole in both directions and behaves as a sequence; a walk visits each node that stays exactly once although its callback inserts nodes and removes others and, as its last change, its own; it returns if its callbacks stop putting nodes in |
| `queue_count` | DsQueue | *violation*: an interrupt that enqueues in the middle of `count--` has its `count++` overwritten |

Bounds, and why they suffice.

- **timer_reentrant**: 2 slots, words of 2 bits, period 2, ticks of 1 and 3, a limit of 1
  repetition, 3 creations (ids 1 to 3 of 4), one activation. Two slots are the least in which a
  callback acts on another timer, before or behind its own in the walk, and three creations the
  least in which a slot is reused, also by the callback of the timer that held it, while another
  timer lives. A tick of 3 comes one or two late, two being a whole period, one of 1 early or exactly.
  Nested ticks are left to the theorems (all but `OnlyDueTimersFire` hold with them). A period of 0 (raised to 1) is
  in `interrupts`.
- **timer_ids**: words of 2 bits, so that the counter comes round after 3 creations.
- **interrupts**, **timer_start_race** (timers): 2 slots, words of 2 bits, periods 0 (raised to 1) and
  3, limits of 2 repetitions, 2 creations; ticks of 2, and of 1 and 3 in `timer_start_race`. A call
  makes up to 7 stores, so the tick comes at each place of each call with the other timer in every
  state.
- **components** (event bus): 3 slots, 2 events, 3 handlers (6 possible subscriptions, so the pool
  does fill up), publishes nested to depth 2.
- **hashmap**: 5 slots, a word of 4 bits; keys `ka`, `kb` collide from the first probe,
  `kc` meets them later, the probe sequence of `kd` wraps at the word, `ke` is too long to
  store. Five slots are the least for which quadratic probing misses slots (3 of 5
  reached). The symmetry set permutes `ka` with `kb` (one hash) and the values, which
  nothing compares. The `"api"` user stores 2 values. The command table has 4 entries, so
  that either the map (which reaches 3 slots for one hash) or the array can refuse a name
  first, and 2 handlers. `DsCommon`: every word of 8 bits; moduli up to 16, the largest whose
  square fits.
- **interrupts** (ring buffer): capacity 4 (power of two, as init requires), batches of up
  to 3 (4 in `ringbuf_batch`), which flood the buffer whenever a byte is in it. Two tasks, or an
  interrupt that writes; an interrupt that reads is among the interleavings of two tasks. Contents of
  0 to 3 bytes at each of the 4 offsets. 2 byte values and one terminator; a line buffer of 3 keeps
  two bytes of a line and drops the third. `SentLimit = 5`: no burst comes while that many bytes wait
  to be printed, which is longer than any line the buffer can hold at once and lets one line come in
  several bursts.
- **components** (stack): capacity 3, 3 items, every content of the storage.
- **components** (queue): capacity 4, 2 items, each of the three modes: all fillings 0 to 4 at all 4
  offsets, hence full and empty met at every offset, and a change of `count` lost at each of them.
- **components** (list): 4 nodes. The least for which a walk at an inner node has one node behind
  it, one ahead, and a third to be put in anywhere.
- **components** (priority queue): capacity 6, so that there are three levels, an inner node with one child and
  one with two; 3 priorities, one shared by two items (ties); every content of the storage.
- **components** (bit field): words of 3 bits, 8 bits: three words, the last one partly used. With
  `NumBits = 9` (no bits past the end) both properties hold as well.

Fairness. `DsTimer!FairSpec`: `ds_timer.h` requires that tick be called periodically
(weak fairness of a tick at the outermost level), the loop runs on, and callbacks
return (weak fairness of each). `DsEventBus!BusFairness`: the loop runs on; a handler
makes finitely many calls (strong fairness of its return at its own depth of the
stack, because each nested publish disables it for a while). `UartExample!FairUartSpec`:
the interrupt returns (weak fairness of its steps), and however often it comes it leaves the
main loop, which calls `process_uart_data` for ever, time to go on (strong fairness, because
each interrupt disables the main loop for a while). `DsList!ListFairness`: the loop of foreach
runs on and its callbacks return. The other calls have no liveness property: none waits.

## 4. Proofs

`DsTimer_proofs` and `DsTimerTick_proofs` prove every safety property that
`timer_reentrant` checks, for every capacity, word size, set of periods and elapsed
times and every depth of nested ticks (the run has `MaxDepth = 1`), from the named
assumptions on the constants in `DsTimer` and those of the second column.

| Theorem | Assumes | Property | Invariant it rests on |
|---|---|---|---|
| `TypeCorrect` | | `TypeOK` | `PoolInv` |
| `DeadlineAlwaysArmed` | | `DeadlineArmed` | `PoolInv` |
| `PhaseAlwaysKept` | | `PhaseKept` | `PoolInv`, lemma `PhaseArithmetic` |
| `IdsUnique` | `IdLimit # Word` | `LiveIdsDistinct` | `IdsInv` |
| `ArmedTimersRun` | | `ArmedRuns` | `CallbackInv` |
| `OnlyTheFiredExpire` | | `ExpiresTheTimerThatFired` | `CallbackInv` |
| `DueTimersAlwaysFired` | | `DueTimersFired` | `OwedInv` |
| `OnlyDueTimersFire` | `"tick" \notin CallbackMay` | `FiresOnlyWhenDue` | `DueInv` |
| `CallsAreAtomic` (of `DsTimerIsr`) | `StartMasked`, `CallbackMay = {}` | `CallsAtomic` | `IsrInv` |

- `PoolInv == TypeOK /\ DeadlineArmed /\ CallingInLoop`. `TypeOK` is not inductive
  alone: `remaining - elapsed` and `NextRemaining` stay in the word only if the countdown
  lies between 1 and a period that is not 0 (`DeadlineArmed`; the lemma
  `NextRemainingBounds` is the arithmetic), and the return of a callback increments a
  loop index that must still be inside the pool (`CallingInLoop`). There is one lemma per
  action; those about the frames (`TouchFrames`, `SetTopFrames`, `NextSlotFrames`,
  `ExpireFrames`, `TickEndFrames`) say what an action leaves of the activation stack.
- `PhaseKept` speaks of a step that increments `executed_count`; `ExecutedByExpire` shows
  that only `TickExpire` is one, and `PhaseArithmetic` that `period - late % period` is
  the deadline moved by a multiple of the period.
- `IdsInv`: as long as timers can be created, every id in the pool is below `next_id`, and no two timers
  in use share one. `IdLimit # Word` says that `next_id` has not gone past its first round; what
  comes then is in the run `timer_ids`.
- `CallbackInv`: an armed timer runs, the timer whose callback is being made has its slot and id
  unless a call has touched the slot since, and what is in that slot has not finished if a start
  has promised that it runs. No theorem assumes anything of what callbacks do: they may stop, start,
  reset, delete and replace their own timers. What the code then gets wrong is not in `ArmedRuns`
  but in `RestartedRuns`, which the run `timer_rearm` refutes.
- `OwedInv`: in each activation the timers still owed a call lie at or after the loop
  index and are still due, and no callback in progress runs for an owed slot. It
  needs no assumption: a callback or a nested tick that changes a timer takes it off
  the list of what is owed.
- `DueInv`: without nested ticks there is at most one activation, and the timers it
  does not owe and nobody touched are not due ahead of the loop.
- `IsrInv`: the interrupt runs one tick at a time, a callback is that of a running timer, and
  the timer that an unfinished call is about does not run, nor does a free one. Hence the tick
  skips that timer whether it sees it before the stores still to come or after them
  (`RunningWritten`), while every other timer is the same in both views (`OtherWritten`);
  `StoresUnrolled` says what `AllStored` makes of a first store and the rest. A start breaks the
  invariant at its last store but one, which is why it has to be masked. `CallsAreAtomic` is a
  refinement of `DsTimer!Spec` without callbacks, so what the other theorems say of `timers`
  holds under interrupts of the pool with the stores to come counted as made. What it assumes
  of callbacks is the limit of the model (section 2, `DsTimerIsr`).

`DsPriorityQueue_proofs` proves all that `components` checks of the heap, for every capacity and every
set of items and priorities, from the assumptions in `DsPriorityQueue`.

| Theorem | Property | Rests on |
|---|---|---|
| `TypeCorrect` | `TypeOK` | induction on its own (lemma `TypeStep`) |
| `HeapAlwaysOrdered` | `HeapOrder` | `HeapInv` |
| `HeapImplementsPriorityBag` | `ImplementsPriorityBag` | `HeapInv`, lemmas `RootIsLeast`, `SwapContents`, `PushAddsItem`, `PopTakesItem` |

- `HeapInv == TypeOK /\ HeapOrder /\ RisingHeld`. That the heap is ordered everywhere but
  where the sift works (`OrderedButAtSift`) is not inductive alone: a swap puts the parent's
  item above the other child, so the children of that place must also not go before its
  parent (`OrderedAroundSift`). `RisingHeld` keeps the index of a push in progress inside.
- The refinement: a push adds one item and a pop takes one (`PushAddsItem`,
  `PopTakesItem`, cardinalities of the sets of places), a swap changes nothing
  (`SwapContents`), and the root goes after no item (`RootIsLeast`). The last is the
  induction along the path to the root; it is proved without an induction theorem, by
  taking the least slot that would go before the root (`LeastElement`, from the
  well-foundedness of `<` on the naturals) and looking at its parent.

`UartExample_proofs` proves the ring buffer and the example that uses it, for every capacity that is a
power of two, every set of bytes, every length of bursts and lines and each `mode`. Every theorem
about `Spec` (of `DsRingBuf`) carries over to the example by `UartUsesRing == UartSpec => Spec`.

| Theorem | Assumes | Property | Invariant it rests on |
|---|---|---|---|
| `TypeCorrect` | | `TypeOK` | `TypeInv` |
| `NeverOverrun` | | `NoOverrun` | `RingInv` |
| `RingImplementsFifo` | | `ImplementsFifo` | `RingInv` |
| `LinesArriveAsReceived` | | `LinesAsReceived` | `UartInv` |

- No theorem assumes anything of batches and bursts: a batch of all of `free_space` sets `flooded`, and
  the theorems say that the buffer is whole before, and whole again once the reader has found it
  empty or reset it.
- `RingInv == TypeInv /\ (~flooded => Fitting /\ Handed /\ ResetRoom)`. `Fitting`, which is what
  `NoOverrun` says, is not inductive alone:
  a step of one side has to leave what the other has checked, so `Handed` keeps the byte that is
  stored but not announced, and the one loaded but not released, in their places, and
  `ResetRoom` covers the moment between the two stores of `ds_ringbuf_reset`, where the writer
  sees the new `head` with the old `tail`. That a refused read ends a flood is where the invariant is
  won back: the indices are equal and no write is in progress.
- The refinement rests on what each access does to `Contents` (a store to `head` appends, one
  to `tail` drops the first, the others change nothing); indices are modulo the capacity, hence the
  lemmas about `Wrap`.
- `UartInv` adds `LineInv`: while the buffer is not flooded, `sent` is what the parser has taken of the
  current line, the byte in its hand, what waits in the buffer, and what the interrupt has yet to
  store, in that order; a call that finds nothing waiting starts over with nothing.

`DsEventBus_proofs` proves every safety property of the bus, for every pool size, every set of
events and handlers, every `HandlerMay` and every depth of nested publishes. No theorem has a further
assumption.

| Theorem | Property | Invariant it rests on |
|---|---|---|
| `TypeCorrect`, `CountIsRight`, `SubscribedOnce` | `BusTypeOK`, `CountMatches`, `NoDuplicates` | `BusInv` |
| `CalledAtLeastOnce`, `CalledAtMostOnce` | `AtLeastOnce`, `AtMostOnce` | `BusInv` |

- `BusInv == BusTypeOK /\ CountMatches /\ NoDuplicates /\ FramesInv`. `FramesInv` is what makes the
  loop right although handlers change the pool: in each activation the handlers still owed a call
  hold a slot ahead of the loop index, and those already called one behind it. It is kept because
  a subscription never moves to another slot while it lasts.

`CommandTable_proofs` proves every property that `hashmap_walk` checks, for every capacity, every
set of keys and every hash function; the first five are about `DsHashMap` alone.

| Theorem | Assumes | Property | Invariant it rests on |
|---|---|---|---|
| `TypeCorrect`, `CountersRight`, `EveryPairFound` | `HashesUnmarked` | `TypeOK`, `CountersMatch`, `Reachable` | `MapInv` |
| `WalkVisitsOnce` | `HashesUnmarked` | `ForeachVisitsEachOnce` | `MapInv` |
| `MapImplementsDictionary` | `HashesUnmarked` | `ImplementsDictionary` | `MapInv` |
| `CommandsDispatch` | `HashesUnmarked`, `NULL \notin Values` | `DispatchesRegistered` | `MapInv`, `CommandInv` |

- `HashesUnmarked` says that no key hashes to 0xFFFFFFFF or 0xFFFFFFFE, the marks of an empty and a
  deleted slot. The code does not check it: section 5 has what happens to such a key.
  `NULL \notin Values` holds in the example, whose values are addresses of the array's entries.
- `MapInv` is the three invariants, `KeysStored` (only keys that fit are in the table) and `WalkInv`
  (the keys that a walk still owes lie ahead of it, the ones it has visited behind it).
  `Reachable` carries the weight: a put may fill a slot in the middle of the probe sequences of
  other keys and a remove may mark one, and neither may cut a sequence; that a put finds the key if
  it is there, and so makes no second copy, follows from it. It is stated for a probe sequence that
  need not visit every slot.
- `CommandInv`: the value of a stored name is an entry of `g_cmd_store` whose handler is the one
  bound to that name.
- `CommandsUseMap == CommandSpec => Spec` carries the theorems about the map over to the example.

`MCContainers_proofs` proves the queue, the stack and the bit field, for every capacity (a power of
two for the queue), every set of items, every number of bits and every length of words. The
theorems are about `Queue!Spec`, `Stack!Spec` and `Bits!Spec`.

| Theorem | Assumes | Property | Invariant it rests on |
|---|---|---|---|
| `CountAgrees` | | `IndicesMatchCount` | `QueueInv` |
| `QueueImplementsFifo` | | `ImplementsFifo` | `QueueInv` |
| `StackImplementsLifo` | | `ImplementsLifo` | `StackInv` (types) |
| `BitsImplementSet` | | `ImplementsBitSet` | `BitsTyped` |

- `QueueInv` has two layers. `QueueTyped` holds even after a change of `count` was lost: with a call in
  progress there is always room for its item, or an item for it, and the value that one side has
  loaded is no further from its bound than `count` is; hence `count` stays in `0 .. capacity`. `QueueWhole`
  holds until a change is lost: `tail` is ahead of `head` by what is counted or about to be, and the
  item that a dequeue has loaded is still the oldest. What comes after is in the run `queue_count`.
- The bit field needs no invariant but its types: the difficulty is in the answers. A number and
  its place (word, bit) determine each other (`PlaceOf`, division with remainder);
  the search finds the least number, although it looks for the first word and then the first bit
  of it, and gives up if that bit is past the end (`FirstIs`); the count of all ones less those
  past the end of the last word (`PastEndIs`) is the number of members (`BitsInCount`, a bijection).
  The contents past the end are arbitrary throughout. `Ones`, the sum of the words' counts in
  `ds_bitfield_count`, is written as the number of places that hold a 1.

`DsList_proofs` proves every safety property of the list that `components` checks, for every finite set of nodes.

| Theorem | Assumes | Property | Invariant it rests on |
|---|---|---|---|
| `RingAlwaysIntact` | | `RingIntact` | `ListInv` |
| `WalksVisitOnce` | `CallbacksOrderly` | `WalkVisitsEachOnce` | `ListInv`, `WalkInv` |
| `ListImplementsSequence` | | `ImplementsSequence` | `ListInv`, `InOrder` |
| `CallsActWhereAsked` | | `ActsWhereAsked` | `ListInv`, `InOrder` |

- `ListInv == RingIntact /\ LinksWritten`. That prev and next go round *all* of the list is said by
  sets: no proper part of the cells is closed under `next`, or under `prev` (`IsRing`). An
  insertion (`Joins`) and a removal (`Parts`) keep it, and both lemmas serve both directions,
  since a call does to `prev` what it does to `next` with the ends swapped. `LinksWritten`: the
  links that a removed node keeps lead to cells that have links themselves, so a walk that reads
  them does not meet NULL. `RingAlwaysIntact` holds whatever callbacks may do.
- `CallbacksOrderly == CallbackMay \subseteq {"insert", "remove", "self"}`: callbacks do not clear
  or reverse the list, and removing its own node is the last change one makes. Section 5 says
  what the others do to a walk. `WalkInv`: there is a set of cells, closed under the step back to the head, that the walk
  has passed; the nodes it has visited are in it and those it owes are not.

- `InOrder` says that `Contents` are the nodes of the ring, each once, in the order of `next`. `At` is
  recursive along the links; that it is defined and unique (`TrailIs`) is shown without an induction
  theorem, by the least number at which it would fail (`LeastNumber`). With the cells numbered from
  the sentinel round to the sentinel (`Goes`), `prev` is one number back, and a call is a change of
  numbers (`InsertGoes`, `RemoveGoes`, `TurnGoes`); the sequence operators are changed in the same way
  (`InsertAtIs`, `RemoveAtIs`), and a sequence in order is the only one of its length (`ShownIs`).

Model-checked only, at the bounds of section 3:

- liveness: `RunningFires`, `TickReturns`, `PublishReturns`, `WalkReturns`, `BytesReachParser`. The
  prover has no rules for fairness, which is about ENABLED.
- the formulas of `DsCommon`, asserted for words of 8 bits.

The proofs made some assumptions on constants explicit: `DsRingBuf`, `DsQueue` and `DsHashMap` state the
capacities that their init functions accept, and `DsHashMap` that the capacity fits its word.

## 5. Where code and documentation differ

With a run (see `findings` in `PROJECT.json`): `timer_catchup`, `timer_rearm`, `timer_ids`,
`timer_start_race`, `hashmap_full`, `ringbuf_batch`, `uart_torn_line`, `queue_count`.

Without a run of their own; each shows when the named cfg is changed as said:

- A callback that deletes its own timer and creates a one-shot timer gets its slot back, and the
  code after the callback sets the new timer EXPIRED before it has fired. `ExpiresTheTimerThatFired`
  lets that pass, as the write can hit nothing but that slot; without the disjunct
  `s \in Top.touched` `timer_reentrant` shows it.
- A callback that calls `ds_timer_tick` makes the inner tick fire its own timer again and
  the outer loop charge the others twice: `"tick"` added to `CallbackMay`, `MaxDepth = 2`;
  `FiresOnlyWhenDue` makes no claim about a timer that a nested tick has touched.
- A callback that starts a timer in a later slot has it charged with the elapsed time of
  the tick in progress, so it can fire early; one in an earlier slot is not charged.
- When `next_id` comes round, the id 0 is handed out as well (`timer_ids`), to a timer whose slot counts
  as free: `ds_timer_create` returns a timer and the next one overwrites it.
- `ds_event.h:47` documents `DS_EVENT_MAX_SUBS` subscribers per event; no code reads it.
- `ds_hashmap.c:146`: a key whose hash is 0xFFFFFFFF or 0xFFFFFFFE is stored with the mark
  of an empty or deleted slot: it is counted, and lost. A key with `MCHash` = 15 or 14 makes
  `CountersMatch` fail.
- `ds_hashmap.h:129` says that `contains` tells whether a key exists; for one stored with
  the value NULL it says no, as it is `get(...) != NULL`.
- `ds_ringbuf_free_space` of an empty buffer is its capacity, one more than single writes
  can fill (`test_all.c:33` says capacity - 1 is usable).
- A foreach callback that goes on changing the list after it has removed its own node, or
  that clears or reverses the list, makes the walk miss nodes, repeat them, or visit nodes
  that are in no list: add `"after"`, `"clear"` or `"reverse"` to `CallbackMay` in `components.cfg`;
  `WalkVisitsEachOnce` fails. No document forbids it.
- `test_all.c:278` passes a callback at address 1 to `ds_list_foreach` on a list of five nodes;
  the code calls it.
- A foreach callback that goes on taking nodes out and putting them back behind the walk keeps
  it going for ever; `WalkReturns` asks only for walks whose callbacks stop putting nodes in.
- `ds_ringbuf_reset` is modelled for a main loop that reads, the writer being an interrupt.
  Called by one task while another uses the buffer, or by a main loop that writes with an
  interrupt that reads, its two stores let the other side see the old index of one and the
  new one of the other, and bytes come back that had been read; no document offers that use.
- `hashmap_cmd_example.c:10` says that commands can be registered and *unregistered*; there is
  no function for the latter. An entry of `g_cmd_store` whose name the map refuses stays taken.
- `register_command` does not refuse a NULL handler: it puts the name with an entry that still counts as
  free, which the next registration takes, so that both names run its handler. Nothing in the example
  does that, and the model leaves it out.
- `cmd_help` passes the address 1 to `ds_hashmap_foreach` as its callback; the code calls it
  once for each command.
- The logger of `event_bus_example.c` is subscribed to the button event as well, and reads its
  one byte as a `sensor_data_t`.
- `ds_common.h:136` says that `ds_pow_mod` is (base^exp) % mod. Its products are of 32 bits and
  overflow for a modulus whose square does not fit (`PowModOverflows`), and the 0th power
  modulo 1 is 1. Nothing calls it.
- `DS_IS_POWER_OF_TWO(0)` is true (the callers ask for a capacity of 2 first);
  `DS_ALIGN_POWER_OF_TWO` gives 0 for 0 and above 2^31.
- `ds_stack.h:20` shows `ds_stack_pop` returning the item; the function returns an error code
  and stores the item through a pointer.
- `ds_timer.h:9` says timers are kept sorted by expiry; the pool is in order of creation.

## 6. Plan

1. (done) Timers, event bus, hash map, ring buffer, queue, list, priority queue, bit
   field; every safety property of the timers and everything about the priority queue
   proved.
2. (done) The timers with the tick in an interrupt (`DsTimerIsr`); the UART example and the
   command table; the stack; the pure helpers of `ds_common.h`; liveness of the list's walks
   and of the UART parser.
3. (done) Proofs: ring buffer and UART example, queue, stack, event bus, hash map and command table,
   the list, the bit field, the timers under interrupts. Every safety property of a passing run
   is stated by a theorem.
4. Left: the theorems of `DsTimer` stated for `DsTimerIsr` itself, so that no reader has to carry
   them over.

## 7. Not modelled

`event_bus_example.c` (a script of publishes whose handlers print), `cmd_help` and the other
built-in handlers of the command table (they print), the statistics of the UART example,
`ds_list_node_bind` (it stores a pointer no list operation reads), the test suite and its
framework, formatting and printing.
