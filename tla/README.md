# Verification of wiced-eventloop

TLA+ models of the event loop in `src/common/eventloop.c` and of the components
that run on it, TLC runs that check them on small instances, and TLAPS proofs
for instances of any size.

- [The system](#the-system): components, state, operations, interactions
- [What is hard here](#what-is-hard-here)
- [The modules](#the-modules): what each one models and how it corresponds to the code
- [The runs](#the-runs): what is checked, with which bounds and why they are enough
- [Fairness](#fairness)
- [The proofs](#the-proofs)
- [Disagreements found](#disagreements-found)
- [Modelling assumptions](#modelling-assumptions)
- [Not modelled](#not-modelled)
- [Plan](#plan)

To check everything again: `tlc -config X.cfg M` for each run named below, where `M`
is the part of `X` before the first underscore, and `tlapm` on each `...Proofs.tla`.

## The system

The program is a library for WICED boards (Wi-Fi microcontrollers) and an example
application. One thread runs a cooperative event loop; everything with a state of
its own is called from there. Other threads - the networking worker, sensor workers,
the MQTT library, UART and button drivers - only set bits of an RTOS event-flag
group, and the loop turns a bit into the call of a handler.

| component | state | operations | talks to |
|---|---|---|---|
| **event loop** `eventloop.c/.h` | two intrusive lists (timers, event nodes), the RTOS flag group, `pending_events`, `loop_stop`, and one C stack frame for each activation | `a_eventloop`, register and deregister of both kinds of node, enable/disable, `a_eventloop_break`, `a_eventloop_set_flag` | everything |
| **worker** `sys_worker.c` | a timer, an event node, an interval; a job in an RTOS worker thread | init, trigger, change of interval | the loop; a worker thread with a bounded queue, shared by several workers; the MQTT library's thread, which triggers it |
| **MQTT client** `sys_mqtt.c` | `mqtt_connected`, two bitmaps of awaited and received events, a retry timer | init, publish, subscribe, the handlers of five flags | the loop, **which it runs again inside a handler** to wait for an answer; the MQTT library's thread; the network |
| **network** `network.c` | `a_net.up`, `.assoc`, the retry's timed event, a table of callbacks | init, start, stop, restart, register callback | WICED's link and address callbacks, the networking worker thread, clients on other threads |
| **LEDs** `sys_led.c` | a mode for each LED, a count of blinking ones, one shared timer | init, set | the loop |
| **PWM ramp** `sys_pwm.c` | a ramp: start, target, step, current level, one timer | init, level | the loop |
| **buttons** `sys_button.c` | table of objects by button | init; the driver's callback on its thread | the loop, the button driver |
| **UART** `sys_uart.c` | `last_data`, shared by two threads | init, register event, send | the loop, a worker thread, the driver's ring buffer |
| **example** `example/main.c` | an emergency light with its level and blinking phase, faults, one timer node used for two purposes | start-up, fault reports, blinking, telemetry; RPC messages on the MQTT library's thread | all of the above |
| **firmware upgrade** `upgrade.c` | a flash slot, the boot selection, the sockets and handles of one call | try | HTTP, flash, the network; the console calls it on a worker thread |
| **JSON parser** `json_parser.c` | a character automaton, and a buffer and a table of places that are the caller's | take a character, take a text, look a name up | the example, which parses messages in place |

### What makes each one correct

- *Event loop*: a flag that was set is delivered to a listening handler, once, and is
  lost by no nesting, stop or time-out; timers are called when due, not earlier; the
  lists stay lists while handlers and inner activations change them under a scan.
- *Worker*: the cycle timer - job - flag - finish never dies, whoever triggers it on
  which thread. A worker is in one place of it only, so that sampling and publishing
  exclude each other without a lock, as long as no two threads take its timer at once;
  the code does not exclude that (see [below](#disagreements-found)).
- *MQTT client*: while the network is up it is connected, retrying, or about to look;
  a request is a success only if its answer came; `a_eventloop_break` stops only an
  activation that somebody waits in.
- *Network*: `a_net.up` follows the station; every client gets to know it that has an
  entry of the table to itself; joining is retried until stopped, with one timed event.
- *LEDs, ramp*: the timer is registered exactly while it is needed; pins and levels
  show what was asked for.
- *Buttons, UART*: reports coalesce but the last state is not missed; bytes arrive
  once and in order.
- *Upgrade*: an image is selected for the next boot only after it was verified, and
  every exit but two releases what was acquired.
- *Example*: after an update that no other one overlapped, timer, level and modes of the
  LEDs show the state that the server and the fault pins asked for; the count of
  blinking LEDs is right as long as no two calls of `a_sys_led_set` overlap; the
  start-up ends with the client created.
- *JSON parser*: nothing is written over what is still to be read, nor beyond one place
  behind the table, whatever the message is; what a sender wrote is what is found.

## What is hard here

`PROJECT.json` lists each hazard at its line with the properties that watch it. The
recurring ones:

- **Re-entrance.** `mqtt_inner_event_loop` runs `a_eventloop` inside a handler. The
  outer activation is suspended in the middle of a dispatch pass or of a timer scan,
  holding a cursor into a list; the inner one calls other handlers, and those may
  register nodes, break the loop or nest once more.
- **Three threads and no lock.** The hand-over between the loop, worker threads and
  library threads rests on the order of timer, job, flag and handler.
- **A clock that wraps**, compared by the sign of an unsigned difference.
- **Retries, lost answers and late answers** in the MQTT client and the network, with
  state read before a wait and used after it.
- **One timer node with two owners** and lights changed from two threads in the example.
- **Parsing in place**: the parser writes into the message that it still reads.

## The modules

**`LoopPromise`** is the abstract specification: flags that are owed, timers that are
armed, handlers that are served, and a stack of calls. It has no lists, no cursor and
no pass. Client code may register and remove several nodes and signal flags before the
loop goes on (`Register`), as the initialisation of a worker or of the MQTT client does.

**`EventLoop`** is `eventloop.c`. A list is a sequence, front first. `stack` holds one
record for each activation of `a_eventloop`: where it stands (`wait`, `dispatch`,
`timers`), its cursor `node`, the timers that its single reading of the clock found
due, whether it has a time limit, and the handler it is calling. Client operations are
guarded by `InClient`: they happen outside the loop or in a called handler, at any
depth; `a_eventloop_set_flag` happens at any time. Taking the flags is one step, each
dispatch is one step, and each call of a timer is one step, because other threads and
handlers can act between them. Time is abstracted to the choice of the due set; every
other branch is kept. `KeepsPromise` is the refinement of `LoopPromise`: `owed` is the
flag group together with `pending_events`, `armed` the timer list, `serving` the
enabled nodes of the event list.

**`EventLoopRequests`** adds what the owner of each node last asked for, to compare
register, remove, enable and disable with what the loop does.

**`EventLoopTimed`** adds the clock to each action of `EventLoop`: `next_timeout`, the
time-out of the wait, the reading of the clock in `process_timer`, the time limit of
an activation, all modulo `Modulus`. Each of its actions conjoins one of `EventLoop`'s
and chooses the due set by the C expression.

**`SysWorker`** and **`SysMqtt`** extend `EventLoop`: their handlers are what happens
between `dispatch` (or `expire`) and `handler_returns`, in as many steps as they have
points at which another thread's action, or an inner activation, matters. In `SysMqtt`,
`place` says for every activation where its handler stands, which is the C stack of
`event_net_change`, `mqtt_app_open` and `mqtt_inner_event_loop`. The MQTT library, its
broker and the network thread are external: they answer late, never, or drop the
session at any time.

**`SysMqttAnswers`** adds which answers were handled while each wait lasted, and
`misled`: whether one of the three ways was taken in which the client loses sight of its
session (see [below](#disagreements-found)). `BelievesSession` says that there is no fourth.

In `SysWorker`, `op` says for both threads that call `sys_worker.c`, the loop's and the
MQTT library's, which call of `timer_callback` or `a_sys_worker_change_inteval` is next:
the look at the timer, its deregistration, the sending of the job and a registration are
steps of their own, and the threads' steps interleave. `raced` records the workers
whose timer was taken by one thread while the other had found it registered and was
going to take it.

**`Network`** is `network.c` with its three kinds of threads. WICED is external. The
registration of a callback is four steps: the entry is found free, `callback` is written,
`arg` is written, `a_net.up` is read; clients on different threads may find the same entry
free, or the table full.

**`SysLed`**, **`SysPwm`**, **`SysButton`**, **`SysUart`** need of the loop only what
`LoopPromise` promises - a timer's handler is called only while the timer is armed, a
flag stays owed until its handler is called, handlers do not overlap unless they nest -
so they are modelled on that promise (`led_armed`, `pwm_armed`, `button_owed`,
`uart_owed`) and not on the loop's inside. `KeepsPromise` and `FlagDelivered` are what
justifies this. Their functions are called on one thread; what becomes of
`a_sys_led_set` on two is in `Example`. `SysButton` has the list of event nodes as well,
because initialising an object again clears a node that is linked (`sys_button.c:40`).

**`Upgrade`** is `upgrade.c`: one action for each step of `_get_write_fw` that can fail,
`held` for what it has acquired, and the labels it jumps to as the sets they release. The
image is a sequence of chunks, and each chunk is right or wrong when it is received and
taken or damaged when it is written. `restart` is the reboot at the end, and a power
failure anywhere. `MCUpgrade` and `MCComponents` instantiate it.

**`Example`** is `main.c`: `at` says for each of the two threads which call of its
handler is next, and the two threads' steps interleave. Every call of `a_sys_led_set` in
`indicate_led` has a beginning and an end, and so do the four of `update_net_state_fn`
together, which leave the number of blinking LEDs alone. `torn` records that two such
calls have overlapped: from then on `num_blink_led` and the timer behind it may be
anything, and are not followed further. The faults of the ports are read one by one.
`timer_node` is the handler that the shared node is registered with. `settled` records
whether the last update ran without the other thread's. The worker is reduced to whether
its timer is armed or its job is on its way (`SysWorker` has the rest).

**`JsonParser`** is `json_parser.c`, one action for each character, with one operator
for each `case` and label of `a_json_append`. `stored` and `entry` are what the buffer and
the table hold, so their lengths are `buf_pos` and `entry_pos`. **`JsonMessages`** adds
what a message means: documents, how they are written as text (`Render`), and what
`_get_prop` finds; `FindsMembers` compares the parser with it. A document is the sequence
of its members in the order of the text, each with its depth, since the table is as flat:
an object's members simply follow it. The documents `Doc` and what may stand between two
tokens, `Gap`, are constants.

**`EventLoopProofs`**, **`JsonProofs`**, **`ApplicationProofs`** (the upgrade, the example,
and the composition of `MCComponents`) and the other `...Proofs` modules hold the theorems. The `MC...` modules instantiate the
others.

Definitions whose names are not in the source and that stand just before a definition
of the source (`insert_unchecked` before `insert_node_safe`) are variants with one
plausible mistake. No specification uses them: each shows that some property notices
the mistake (`mutants` in `PROJECT.json`).

## The runs

| run | states | shows |
|---|---|---|
| `MCEventLoop` | 79 thousand | The lists are linked once, cursors stay on linked nodes, a dispatch pass only advances, the loop implements `LoopPromise`, and every flag is taken and delivered. |
| `MCEventLoopRequests_removed` | violation | The handler of a removed event node is called. |
| `MCEventLoopRequests_disabled` | violation | The handler of a disabled event node is called. |
| `MCEventLoopTimers` | 4.8 million | No timer is early; the scan calls exactly what the C comparison says is due; no sleep passes a timer; a limited activation does not sleep for twice its limit. |
| `MCEventLoopTimers_fair` | 1.0 million | Each overdue timer is served although the loop polls and although the scan starts again from the front after each call. |
| `MCSysWorker` | 605 thousand | No worker's cycle is lost, each worker is in one place of its cycle unless two threads have taken its timer at once, and each sample completes. |
| `MCSysMqtt` | 3.4 million | The client never gives up while the network is up, reports what it believes, breaks only activations that are waited in, and only the innermost wait can be interrupted. |
| `MCSysMqttAnswers_success` | 0.7 million | A request succeeds only if its answer was handled while it waited; a connection the client believes in is there or its end is still to be handled, but for the three ways named [below](#disagreements-found). |
| `MCSysMqttAnswers_failure` | violation | A request whose answer stopped its wait is told that there was none. |
| `MCNetwork` | 16.4 million | `a_net.up` follows the station, every client gets to know it unless it found no entry or lost it to another one, joining is retried with one timed event. |
| `MCComponents` | 321 thousand | LEDs: the timer is registered while one blinks, and the pins show the modes. Ramp: it is on its way to what was asked for last, never moves away from it, and gets there. Buttons: the last state is not missed. UART: bytes arrive once and in order. Upgrade: what is selected for the next boot is what was verified, and all exits but two release what was acquired. Example: after an update of the lights that ran alone they show the state, and blinking LEDs are counted until two calls overlap; the start-up ends with the client created unless a fault was reported. JSON: a message is parsed in place without overtaking itself, the members that were written are found, and what is too large for the table is refused. |
| `MCUpgrade_success` | violation | A call that tried nothing returns `OTA_SUCCESS`. |

Bounds, and why they are enough:

- *Nodes and flags* (`MCEventLoop`): two event nodes with the overlapping masks `{f1}`
  and `{f1, f2}`, so that a handler can take another one's flag; one timer. Two list
  elements make every position of a cursor occur (front, middle, end), and the theorems
  say the same of any number. `MCEventLoopTimers` has two timers instead, and no event
  nodes, because the order of timers is its question; the flag still wakes the wait.
  The timers are symmetric there.
- *Depth*: `MaxDepth` is 2 where an outer and an inner activation are the question, for
  workers, too, and 3 for MQTT, where a third waiter can come between a break and its effect.
- *Clock*: three bits (`Modulus` 8), intervals 1 and 2, limit 3. The clock wraps within
  one activation, and half the range is 4, so no interval reaches it; `InRange` keeps a
  handler from running for half the range of the clock (24 days on the board). This
  is the one bound on behaviours that the code does not enforce.
- *Interleaving* (`MCSysMqtt`): a step of the loop's own code between the wait and the
  call of a handler touches only what belongs to the loop's thread, so it commutes with
  the steps of the other threads; `MCSpec` takes those only while the loop waits and,
  as far as a handler can see them, while one runs. In nested activations it takes them
  only while the innermost one waits: this is a bound. `MCSysMqttAnswers` takes them only while the loop waits, and its
  network stays as it was at the start.
- *Queues* (`MCNetwork`): others send a job only while fewer than `QueueBound` = 2 are
  queued, so that no job is refused; this abstracts WICED's queue, which is longer. Two
  suffice for a change to stand before or behind a loss while a third is handled. In
  `MCSysWorker` the queue has one slot and two workers, so that it is often full; the
  library triggers one of the two.
- *Clients* (`MCNetwork`): three, which are symmetric, for a table of two, so that one can
  find it full and two can take the same entry with or without a third.
- *`MCComponents`*: the seven components share no state; the variable `part` chooses the
  one that moves, so the run explores the sum of the state spaces and not the product.
  Four LEDs and 50 steps are the example's. The UART run ends when eight bytes
  have arrived, four times what the ring buffer holds: hence `CHECK_DEADLOCK FALSE`.
- *Upgrade*: images of up to four chunks against a slot of three and a maximum of four,
  so that lengths lie on both sides of both; the right image has two, so an image can be
  too short, too long or wrong. Calls follow each other without limit.
- *Example*: one port stands for the four, which `update_led` treats alike; `RpcParam` is
  `{0, 30}`, a value below and one above the clamp of the emergency flag, so that each RPC
  can change the state both ways.
- *JSON*: a table of `entry_max` = 6 places, so that three members fit and four do not;
  the messages are the renderings of eight documents (with escapes, an empty value, a name
  used twice, objects in objects down to depth two, one with four members), with and
  without spaces, each rendering without spaces also with one character replaced, one
  lost, or its end cut off, and the empty message. `JsonProofs` proves `InPlace` of all messages and
  `FindsMembers` of all documents.

## Fairness

- Weak fairness of the loop's own steps: the loop's thread is scheduled.
- Weak fairness of entering the loop from `main`: `example/main.c:316` calls it in an
  endless loop.
- Strong fairness of the return of a handler, for each depth: handlers return, but
  between two steps of one, an inner activation may run, during which its return is not
  enabled.
- `SysWorker`: weak fairness of the worker thread and of each caller of `timer_callback`,
  so the MQTT library's thread goes on, too; strong fairness of the time-out of a limited
  activation at each depth: its clock runs.
- `EventLoopTimed`: weak fairness of the clock.
- Peripherals and the start-up of the example (`initial_led_blink_cb`): the loop calls the handlers it owes a call, which is `FlagDelivered` for
  flags and `OverdueServed` for timers; the drivers report what has changed.

Nothing is assumed of the other threads' activity, of the broker or of the network. The
limits of what liveness says are in the properties themselves: `OverdueServed` exempts a
loop that is asked to stop in each pass, because `a_eventloop` then returns before
`process_timer` (`eventloop.c:176`).

## The proofs

`EventLoopProofs.tla` is about `EventLoop` for every `TimerNode`, `EventNode`, `Flag`,
`Mask` and `MaxDepth`. It rests on the three named assumptions of `EventLoop`:
`NodesDistinct` (the two kinds of nodes are different C objects and `NULL` is neither),
`MaskType` and `DepthType`.

| theorem | says |
|---|---|
| `InvHolds` | `Inv` below is an invariant |
| `TypesHold`, `LinkedOnceHolds`, `CursorLinkedHolds` | the types, and the safety invariants of `MCEventLoop` |
| `PromiseKept` | `Spec => KeepsPromise`: the loop implements `LoopPromise` |
| `PassAdvancesHolds` | no step moves a cursor back or adds a node behind it that the pass had left, at any depth: a dispatch pass ends |

The inductive invariant is `Inv == TypeOK /\ LinkedOnce /\ CursorLinked /\ Nested`. None
of the four is inductive without the others. That a cursor stays linked needs lists
without duplicates: with duplicates, the position of a node is not that of its
successor's predecessor, and `Following` could leave the list. That the node after a
return is linked needs `Nested`, which is about the model's frames only: an activation that
calls an event handler still has that handler's node as its cursor. `Nested` needs the
types of the frames.

The argument: lemmas about the list operators (`InsertKeeps`, `RemoveKeeps`,
`FollowingLinked`, `FrontLinked`) and about sequences of frames come first. Every step
of the loop changes only the innermost frame and every client step only lists and
flags, apart from `Rearm`; `InnermostInv`, `PopInv`, `ClientInv` and `RearmFrames` say
what each such change has to show. Then there is one step for each action. The
refinement maps initial states to initial states (`InitPromise`) and each step to a
step of `LoopPromise` or a stutter (`NextPromise`), which needs `Inv` to know that the
handler that is called was registered.

That `a_eventloop_deregister_event` never unlinks an event node is used in the proof of
`CursorLinked`, and not by accident: the variant that takes the node out of the list it
is in (`deregister_from_event_list`) violates `CursorLinked`, because a handler may
remove the node on which the cursor of its own or of an outer activation stands. A
repair of the function has to move those cursors as well.

### The clock

`EventLoopTimedProofs.tla` is about the loop with its clock, for every even range
`Modulus == 2 * Half`, all intervals below `Half`, all time limits of less than half the
range, any timers and any depth (`ModulusType`, `IntervalType`, `LimitType`,
`ForeverDistinct`). The only bound on what may happen is that of `tick`, `InRange`.

| theorem | says |
|---|---|
| `TimedIsLoop`, `TimedKeepsPromise` | a step with a clock is a step of `EventLoop`, so all of its theorems hold here |
| `DueExactHolds` | the timers that a scan has still to call are those that `process_timer`'s comparison finds due, whatever inner activations did to the timers meanwhile |
| `NeverEarlyHolds` | no handler is called before its interval has passed, the wrap of the clock included |
| `NoOversleepHolds`, `SleepBoundedHolds` | a wait ends by the time the first timer is due; one with a limit, before twice the limit |
| `TimedInvHolds`, `TimedTypesHold` | the invariant, and the types in it |

The inductive invariant is `Inv` of the loop with
`TimedInv == TimedTypeOK /\ AgeExact /\ ScansNested /\ DueExact /\ WaitsEnd`. `age`, a
history variable, says how long ago the reading was that a timer was armed from; `AgeExact`
says that `next_timeout` is that reading plus the interval. `DueExact` fails in two ways
without more. A scan could last so long that the sign of the difference turns; and a timer
that an inner activation calls and arms anew could be due for the outer scan, whose due
set no longer holds it. `ScansNested` excludes both: a scan's reading is younger than half
the range, with room for any armed interval, and an inner scan's reading is not older than
an outer one's, so what the inner one arms lies in the future of both. `NeverEarly` follows
from `DueExact` and `AgeExact`. `WaitsEnd` says of each activation's wait when it ends,
which `NoOversleep` and `SleepBounded` say of the innermost.

The arithmetic modulo the range appears only in a few operators (`Reading`,
`UnsignedGap`, `After`, `DueAt`). Lemmas about these (`ReadingWraps`, `Distance`,
`DueGap`) say which integer each is, and the steps of the proof use the lemmas alone.

### The components

The components that rest on the loop's promise have proofs of their own, each from the
assumptions its module names and for every value of its constants:

| module | theorems about the runs' properties | the inductive invariant adds |
|---|---|---|
| `NetworkProofs` | `UpIsReal`, `UpIsNoticed`, `ClientsKnow`, `KeepsTrying`, `RetryRegisteredOnce` | where a job may stand in the worker's queue: when link and address are there but `up` is not, a change must be queued *behind* each report of a loss (`Noticed`); when `up` is set without a link, the report of the loss is on its way (`Real`); what a client has written to its entry is still there, or another client has written its callback there (`Table`) |
| `PeripheralProofs`: `SysLed` | `TimerWhileBlinking`, `PinsShowModes` | the counter is the cardinality of the set of blinking LEDs; the lemmas say how one assignment changes that set |
| `PeripheralProofs`: `SysPwm` | `OnItsWay`, `NeverAway` | while the timer is armed the level is on the curve (`OnCurve`); the lemmas show that the curve, with its two divisions and the rounding, is monotone between start and target |
| `PeripheralProofs`: `SysButton` | `LastStateOnItsWay` | a state that a handler has read but not yet told is current, or a report is on its way (`ReadOnItsWay`); objects may be initialised again at any time before they have told anything |
| `PeripheralProofs`: `SysUart` | `BytesInOrder` | whose turn it is (`Turn`): the job is sent, or the worker waits, or its byte is owed to the handler, or the handler runs, and never two of these; `HeadMoves` says that a byte that is taken keeps its place in the order |
| `SysWorkerProofs` | `CycleKept`, `OneBaton` | see below |
| `SysMqttProofs` | `NeverGivesUp`, `ReportedIsCurrent`, `MainKeepsRunning`, `OnlyInnermostWaits`, `SuccessHeard`, `BelievesSession` | see below |
| `ApplicationProofs`: `Upgrade` | `BootsVerified`, `Released` | what is held at each step (`HeldAt`), and what is known of the slot there (`Unselected`): the image in it is the received one only from `verify_writing` on |
| `ApplicationProofs`: `Example` | `AloneShowsState`, `ExampleTypeOK` | at each step of an update that met no other, the calls already made have had their effect, on each LED of each port (`AloneReached`); the same for the toggling of the blink handler (`Toggling`); which thread is inside `a_sys_led_set` (`Threading`); how one assignment changes the number of blinking LEDs (`SetModeCounts`); the start-up's counter is below seven whenever its timer is set (`ExampleTypes`), so it never passes seven |
| `JsonProofs` | `InPlace`, `FindsMembers` | in each state of the automaton the number of places in the table is odd exactly if a value is due (`InTurn`); for `FindsMembers` see below |

`NeverAway` and `RetryRegisteredOnce` are about steps; they follow from the same
invariants.

The end of `ApplicationProofs.tla` is about the composition of seven of them in
`MCComponents`: the conjunction of the invariants is one of the composition, since a step
of one component leaves the variables of the others alone (`ComponentsInvHolds`). It proves
`ComponentsTypeOK` and the ten other invariants of the run
(`ComponentInvariantsHold`), and so justifies checking seven components with one run.

### What the parser finds

`FindsMembersHolds` in `JsonProofs.tla` says that the parser understands every document:
any number of members, any names and texts, quotes and backslashes included, objects to
any depth, any gap between the tokens (the same between all of a document, after the
commas and braces too), and a table of any length. What fits is accepted
and each name is found with its value, and what does not fit is refused. It rests on
`DocType` and `GapType`, which say what a document and a gap are (`IsDocument`), and on
`JsonConstants`.

The invariant is `InDocument`: while the text of a document is parsed, the parser is
somewhere in it (`Progress`). There are seven places for each member: at its name, in it,
behind it; at its value, in the quotes or the word; behind the value (`AtName`, `InName`,
`PastName`, `AtValue`, `InValue`, `InWord`, `PastValue`). Each says three things: which text
is left of the message, from that place in the document on; which state, `escaped` and
`recur` the automaton has there; and that the names and values before it stand in the buffer
where the table says, ended by a NUL (`Named`, `Valued`). Each step takes the first
character of what is left, and there is one lemma for each place (`InNameStep`,
`PastValueStep`, ...) that says where it leads. `recur` is the depth of the member, less the
objects that have been closed behind it. At the end, `DocumentFound` shows that the look-up
returns the first member of the name.

The text is put together by `FlattenSeq`, which is defined recursively, and the proofs need
of it only that a sequence of parts begins with its first and ends with its last
(`Flattens` and the lemmas about it). No theorem on induction can be used here, because
each takes an operator as a parameter. The lemmas are shown of a least counterexample
instead: the lengths at which one fails are a set of numbers, which would have a least
element (`WFMin`, `NatLessThanWellFounded`).

### The compositions with the loop

`SysWorkerProofs.tla` is about the composition of workers with `EventLoop`, for every set of
workers and of other handlers, every length of the thread's queue and every depth of
nesting. It uses the proofs of the loop: each step of `SysWorker` is one of `EventLoop`,
leaves it alone, makes the client operations of `a_sys_worker_init` at once, or changes
the timer list as a client operation does, from whatever thread; so `Inv` holds of the
composition, too (`LoopInvHolds`). That it implements `LoopPromise` is not claimed: a
registration from the library's thread while the loop's own code runs is no step of that.

`CycleKept` and `OneBaton` count the places of a worker's cycle. The proof restates each
place as a condition: that a worker is somewhere (`Somewhere`) is kept by all steps, the
race of the two threads included; that it is at one place only (`AtOne`) is kept for the
workers that are not in `raced`. That needs more than the places: a flag is not in the
flag group and in `pending_events` at once, or one job would be finished twice (`Single`);
who is going to take a timer finds it still registered, unless the worker is in `raced`
(`Timers`); and only event handlers are ever suspended, so no nested activation comes
between the call of a timer and its job (`Calls`). `TakePlaces` is the heart of it: taking
a timer that is not registered any more can only happen to a worker in `raced`. Besides
the loop's assumptions it rests on `WorkerNodes`: the nodes and flags of two workers
differ, and `NULL` is none.

`SysMqttProofs.tla` is about the client on `EventLoop`, for every application, every depth
of nesting and every interleaving with the other threads, which `MCSysMqttAnswers_success`
restricts to reach three activations. Its invariant `MqttInv` rests on three
observations. A handler is suspended only where it waits (`Places`), so of all handlers
on the stack only the innermost can stand anywhere else. What a handler is still going to
do follows from its place: it will try to open (`Tries`), will report (`Tells`), or will
look at the network again (`Looks`); so "has not given up" and "reported what it
believes", which fail in the middle of a handler, hold at every moment with the
alternative that some handler on the stack will make up for it (`Trying`,
`TellsConnection`, `TellsNetwork`), and at an idle moment there is none. And a handler
that suspends itself, or is resumed, keeps what it is still going to do, which the
lemmas `HandlerInv`, `WaitsInv` and `InnermostStep` say once for all handlers
(`Kept`). Before the client is created no handler waits and only the application's
handlers and main's timer are called (`Started`). Of the loop only `Inv` and its lemmas are used. `MqttKeepsPromise` says that
what the loop promises its other clients it still does with this one, which runs it again
in its handlers: all steps but the initialisation are steps of `EventLoop`, or leave it
alone. The assumption `MqttNodes`
says that the client's nodes and flags are its own (`sys_mqtt.h:15`), so no other
handler consumes its flags.

`SuccessHeard` needs that a wait begins with an empty bitmap and that a step that puts an
answer into it is the handler of that answer (`BitmapSteps`). `BelievesSession` needs
more (`BelievesInv`): who waits for a close alone does not believe in a connection
(`CloseForgets`); as long as an open can be answered its session is there or the end of
it still owed, and an answer that has come is read before any other wait begins above
it (`OpenNotices`). Both exclude only the steps that `misled` names.

### Only model-checked

- Liveness (`FlagDelivered`, `OverdueServed`, `SampleCompletes`, `Settles`,
  `StateIsTold`, `BytesDelivered`, `ExampleStarts`): it rests on fairness, that is on
  `ENABLED`, which this TLAPS does not prove.

Every safety property of a passing run is proved for all values of its constants.

## Disagreements found

1. `a_eventloop_deregister_event` removes the node from the timer list
   (`eventloop.c:128`), so it stays in the event list and is still called.
2. `a_eventloop_disable_event` enables and `a_eventloop_enable_event` disables
   (`eventloop.h:62` and `:67`).
3. A request can be answered and still fail (`sys_mqtt.c:37`): the break that its answer
   asks for takes effect at the end of the pass; a later handler of the same pass that
   makes a request of its own clears the bitmap and consumes the break.
4. `a_upgrade_try` returns `WICED_FALSE` when the network is down (`upgrade.c:345`); that
   is 0, and 0 is `OTA_SUCCESS`.

Others are not failures of a promise the repository makes, and the passing properties
are stated around them. An activation with a time limit waits as long again as it has
run, and not as long as is left (`eventloop.c:153`): `SleepBounded` says twice the limit.
When the comparison with the flash fails, `upgrade.c:278` jumps past the closing of the
slot's handle, and when there is no path, `upgrade.c:140` jumps past the release of the
stream: `Released` names these two exits.

The client loses sight of its session in three ways (`misled` in `SysMqttAnswers`): the
flag of a disconnection that is handled while a request waits only ends that wait
(`sys_mqtt.c:246`), and nobody else hears of it; an open in an activation nested in a
waiting one opens once more, so the one may take the other's answer for its own; and the
status that `CONNECT_REQ_STATUS` carries is not looked at (`sys_mqtt.c:71`), so a
connection that the broker refuses counts as one. `BelievesSession` says that there is no
fourth way.

A worker can get two jobs for one timer: `a_sys_worker_trigger` on the MQTT library's
thread (`main.c:166`) finds the timer registered, the loop's thread calls the timer's
handler, which takes it, and the trigger goes on to send a second job (`sys_worker.c:39`
and `:24`). The worker thread may then write a sample that `finish_fn` is reading. Two
registrations of callbacks on different threads can take the same entry
(`network.c:115`), and a client that finds none free gets an error that it does not look at.
`OneBaton` and `ClientsKnow` say that nothing else goes wrong.

In the example, updates of the lights from both threads that overlap may leave an
emergency that does not blink, or a light that blinks without one (`main.c:166`);
`AloneShowsState` says that the next update alone repairs the modes of the LEDs,
`timer_node` and the level. It does not repair `num_blink_led`: two calls of
`a_sys_led_set` that both pass line 49 count one LED twice, or a timer is registered after
it was taken away, and the count stays wrong for good (`sys_led.c:49` to `:61`).
A fault report in the
first 3.5 seconds takes `timer_node` from the start-up's blinking (`main.c:161`): the MQTT client is
then never initialised, and samples are published through an object of zeros; `ExampleStarts`
is stated of runs without such a report. `led_fault_det` has two entries and is read for
four ports (`main.c:279`), so the model lets each reading be anything.

## Modelling assumptions

- Workers are initialised before the loop runs, as `example/main.c` does, and the MQTT
  library triggers them only after `main` has entered it: the library has no session
  before.
- Each operation on a list of the loop - a look, an insertion, a removal - is one step,
  also where two threads make it (`main.c:156`, `:161` and `:166`): a torn list is not
  modelled, in no module. `EventLoopTimed` has registrations from the loop's thread only:
  one from another thread does not shorten a wait that has begun.
- `EventLoopTimed` has no timer with the interval 0, which no caller registers and with
  which the scan of `eventloop.c:50` would not end.
- `a_eventloop_register_timer` with `WICED_WAIT_FOREVER` (an interval no timer of
  `EventLoopTimed` has) is a deregistration.
- `Network`: WICED calls the link callbacks on the networking worker thread, and the
  address callback on a thread of its own, some time after the change; after a link
  comes back it reports the
  address anew. A call of a callback whose `arg` is not yet written tells nobody. All
  clients register `_net_event` of the MQTT client, the only callback there is.
- `SysMqtt`: topics, payloads and the set-up of TLS are data and left out; the
  application's handlers make one request each time they are called. The client
  is created where the example does it, in the handler of main's timer, which takes the
  timer away in the same step (`main.c:250` to `:252`); how often that timer blinks before
  is in `Example`.
- `SysUart`: the worker thread's queue has room for its one job.
- `Upgrade`: memory is not exhausted; two different images do not have the same hash; a hash that is not 32
  hexadecimal digits is not noticed (`upgrade.c:348` compares an enumeration with `< 0`)
  and matches no image. Erasing is one step. An upgrade without reboot followed by
  another erases the slot that is already selected; what the boot loader then does is
  not in the repository, so `BootsVerified` speaks of slots not erased since.
- `Example`: a sample is taken every 10 seconds and the start-up lasts
  3.5, so `sample_due` is not enabled while it blinks; the front LEDs are one variable. A call
  of `a_sys_led_set` reads when it begins and writes when it ends, or anything in between
  if it meets another: then the mode is that of the call that ends last, and count and
  timer are unknown.
- `JsonParser`: buffer and message are the same memory, as in `main.c:178`. The parser
  refuses arrays, an empty object and the escapes written with a letter (`\n`), so
  documents contain none. An empty message leaves the object as it was in memory
  (`json_parser.c:18`, ignored by `main.c:178`). A look-up of a name that is not in the
  message compares free entries, which point before the buffer, and goes on behind the
  table (`json_parser.c:166`): it finds nothing, or something outside of both. A member's
  name is not empty (the parser refuses it), a word has none of the characters that end
  it, and no text contains the separator.
- Flag bits, packet contents and levels of the log are abstracted; each flag stands for
  one bit of the 32-bit event word.

## Not modelled

- `maxim_ssi.c`: third-party code of Maxim Integrated that nothing in the repository
  calls.
- `console.c`, `util.c`, `assert_macros.h`: parsing, printing and macros without state
  that interacts; `device*.c`: sensor and ADC input and output; the DCT files: constants.
- In what is modelled, five hazards have no property: an answer that comes after its
  request was given up and is taken for the next one's (`sys_mqtt.c:246`: nothing in the
  code tells them apart); the depth to which network changes nest activations
  (`sys_mqtt.c:33`: the code has no bound to check); one button object for two buttons
  (`main.c:307`: the model has it, and no promise of the code says what it should do); a stop while a join is queued or running
  (`network.c:143`, a FIXME in the code); and bytes that arrive faster than the UART's handler
  takes them into a buffer of the ring's size (`sys_uart.c:53`: needs the speeds).

## Plan

Done: the loop with its abstract specification, its clock, its requests and its proofs,
those about the clock included; the worker, the MQTT client, the network, the four
peripherals, the upgrade, the example and the JSON parser, with proofs of every safety
property that a run checks of them; that the MQTT client, composed with the loop, keeps
its promise.

Left: liveness of the MQTT client (a network that stays up and a broker that answers
lead to a connection).

New components join existing runs where they share no state, as those of `MCComponents` do.
