# A TLA+ model of DDE Linux 2.6

This repository runs Linux 2.6.20 drivers as user-level programs on Genode.
Its own code is the *device driver environment* (DDE): the part of the Linux
kernel that drivers rely on, written anew on top of DDE Kit
(`src/lib/dde_linux26/arch/dde_kit`), pieces of the Linux kernel adapted to it
(`src/lib/dde_linux26/kernel`, `block`, `net`), and the Genode front ends of
the drivers (`src/drivers`). This directory models that code in TLA+, checks the
models with TLC, and proves with TLAPS what is checked, save liveness.

One fact shapes every model: **each thread of a driver is a CPU of its own**.
`local_irq_save()` only counts, it excludes nobody; `local_bh_disable()` is empty.
Kernel code that is correct because interrupts are off has to be correct here
for another reason, or is not.

## Inventory

| Part | Source (below `arch/dde_kit` unless given) | State | Module |
|---|---|---|---|
| Softirqs, tasklets | `softirq.c`, `linux/interrupt.h` | pending word, two tasklet lists with locks, SCHED/RUN bits, disable count, semaphore of the softirq thread | `Softirq`, `TaskletService` |
| Sleeping and waking | `sched.c` | task state, sleep lock | `Sched` |
| Completions, `schedule_timeout()` | `kernel/sched.c`, `sched.c`, `timer.c` | `done`, wait queue and its lock, timers | `Completion` |
| Spin locks, interrupt flags | `linux/spinlock.h`, `cli_sti.c` | lazily initialised lock, one counter | `Spinlock` |
| Interrupt handlers | `irq.c` | list of descriptors, handlers of each, IRQ threads | `Irq` |
| Work queues, delayed work | `kernel/workqueue.c`, `kernel/wait.c`, `timer.c` | work list, sequence counters, pending bits, two wait queues, timers | `Workqueue` |
| USB storage | `usb_storage.c`, `scsi.c`, `drivers/usb/storage_component.cc`, usb-storage's `usb.c` and `scsiglue.c` | device table, session, packets, the command in `us->srb` | `UsbStorage` |
| Audio output | `drivers/audio_out/main.cc` | channel semaphore, packet queues | `AudioOut` |
| Everything else | | | see "Not modelled" |

DDE Kit and the Genode framework (semaphores, locks, timers, threads,
interrupts, packet streams) are outside the repository. They are modelled by how
the code uses them.

The parts meet at few places. IRQ threads call handlers (`Irq`) and, on the
way out, wake the softirq thread (`Softirq`, action `irq_handler_exit`).
Handlers schedule tasklets; tasklet functions run in the softirq thread, or in
a thread that calls `do_softirq()` itself (`netif_rx_ni()`). Tasklet functions,
handlers and timers wake tasks through completions and wait queues; `Completion`
and `Workqueue` both extend `Sched`, so they sleep and wake with the same operators.
`UsbStorage` uses completions as one-shot flags, relying on what `Completion` shows
of them, and `UsbStorage` and `AudioOut` each compose the threads of a whole service.

## Modules

Each module has one action per step that another thread can observe: an access to
shared memory without a lock, or a section under a lock that sleeps and wakes
nobody. Control points are strings in `pc`. Actions have the names of the
functions they are part of. Definitions whose comment begins with "Faulty:" are not
part of the specifications. They are plausible mistakes, used to see that the
properties notice them.

### Softirq, TaskletService

Threads are drivers (IRQ, timer and kernel threads that call the tasklet interface)
and runners (the softirq thread and the callers of `do_softirq()`). Tasklet
functions may schedule tasklets. `pending |= bit` is the two steps `raise_load` and
`raise_store`; `raise_up` is the `dde_kit_sem_up()`. `__do_softirq()` is `load`,
`clear`, `dispatch` and `again`; `tasklet_action()` and `tasklet_hi_action()`
are the same actions with another vector. The disable count is the set of those who
have disabled the tasklet, which supposes that a driver does not disable a
tasklet twice. `BUG()` is a control point.

`TaskletService` is what `linux/interrupt.h` promises a driver: a request made
before the execution starts is served once, execution is serialized,
`tasklet_disable()` and `tasklet_kill()` mean what they say. `Softirq` is shown to
implement it under the mapping at its end: a tasklet counts as scheduled when
SCHED is set and no `tasklet_kill()` holds it, as running when a runner is in
its function.

### Sched, Completion

`Sched` has the task state and the sleep locks. The state is an unlocked variable,
so `try_to_wake_up()` is two steps, and so is `schedule()`: read the state, go down
on the sleep lock. `Completion` adds waiters with and without timeout, completers,
the queue and its lock, the timers of `schedule_timeout()` and DDE Kit's timer
thread. What a waiter does with the lock held is one step; `complete()` wakes
the queue task by task, since the woken tasks run meanwhile.

### Spinlock

A lock that is defined statically is initialised by its first user
(`COND_INIT_LOCK`): a test of `need_init`, the initialisation of the DDE Kit lock
and the clearing of `need_init` are three steps. The ghost variable `reinit`
records that a lock was initialised a second time. The counter behind
`local_irq_save()` and friends is shared by all threads; `local_irq_restore()`
decrements it, one at a time, as often as the value it has read says.

### Irq

The registration of handlers by one thread, with the allocations and the attach that
may fail, and the IRQ threads that walk the handlers meanwhile. Memory that was freed
keeps its contents there.

### Workqueue

One `cpu_workqueue_struct`, its worker, clients that queue, flush, cancel
and run work, and the timer thread that queues delayed work. A section under
`cwq->lock` is one step unless it wakes somebody. A work function may queue works and may
flush its own queue, which runs the queue by hand one level deeper. `del_timer()`
is the two DDE Kit calls that it makes. Each list entry carries the sequence number it
was queued with, which the code does not store. Further ghosts: `early` (a flush
returned before a work it should wait for had ended), `overtaken` (a work ended before
one queued earlier), `raced` (a timer changed between the two calls of a `del_timer()`),
`bug` (a `BUG_ON()` fired; the model stops then).

### UsbStorage

The chain from a block session's packet to the transfer: `Tx_thread` takes packets
and splits them into one SCSI command per block, `queuecommand()` stores the command
in `us->srb` in two steps, because the DDE calls it without the host lock, the control
thread takes it, carries it out and signals its completion before it clears `us->srb`.
Meanwhile the scan thread may still ask for the capacity of the device, the plugin callback
may open the barrier at which a session waits, and khubd may disconnect the device
at any point. What a device answers is a choice. The host lock is left out: whatever
else it guards is also guarded by `dev_mutex`.

### AudioOut

The entrypoint opens, flushes and closes the two sessions, one request at a time; the
Root thread takes a packet of each channel, plays them, and acknowledges them. They meet
at a semaphore with a token for each open channel. An `up()` hands its token to a thread
that is blocked, as Genode's semaphore does.

## Runs

| Run | Module, config | What it checks | States |
|---|---|---|---|
| softirq | `Softirq`, `MCSoftirq` | `ScheduledOnce`, `NoBug`, `Serialized`, `DisabledNotRunning`, `NoLostWakeup`, `KilledIsGone`, and that `TaskletService` is implemented | 1.2 million |
| softirq_live | `Softirq`, `MCSoftirqLive` | a raised softirq is collected, also while a disabled tasklet raises its softirq again and again; with one tasklet softirq, a scheduled tasklet is executed | 222,000 |
| softirq_lost | `Softirq`, `MCSoftirqLost` | with both, a scheduled tasklet may never be executed: **violated** | |
| completion | `Completion`, `MCCompletion` | no wake-up is lost, no queue entry outlives its wait; a completion is taken; a wait with a timeout returns | 23,900 |
| spinlock | `Spinlock`, `MCSpinlock` | the lock excludes until it is initialised a second time; interrupts do not stay disabled | 254,000 |
| irq | `Irq`, `MCIrq` | `request_irq()` returns 0 exactly for handlers that will be called, if attaching works; an exclusive handler is alone | 440,000 |
| irq_attach | `Irq`, `MCIrqAttach` | the same when attaching may fail: **violated** | |
| workqueue | `Workqueue`, `MCWorkqueue` | no `BUG_ON()` without a timer race, counters that agree with the works, complete flushes unless a work is overtaken, no lost wake-up, no stale queue entry; pending works are released, a flush returns | 162,000 |
| workqueue_cancel | `Workqueue`, `MCWorkqueueCancel` | a work has its pending bit when it is queued: **violated** | |
| usb_storage | `MCUsbStorage` | commands are live while they are worked on, nothing is used after its release, a session knows its device's size, requests stay in range, a read returns what was transferred; a read is acknowledged, a disconnect returns | 206,000 |
| usb_storage_write | `MCUsbStorage`, `MCUsbStorageWrite` | a write that succeeds was transferred: **violated** | |
| audio_out | `AudioOut`, `MCAudioOut` | Root uses sessions that exist, packets are accounted for; a close during a round returns, packets are played | 9,500 |

What the four violated runs show, in short:

- *A softirq can be lost.* `__do_softirq()` reads the pending word and then sets it
  to 0; a raise by another thread in between disappears. If it was for the
  softirq being collected, no harm is done, since the list is taken later. If it was
  for the other tasklet softirq, the tasklet stays on its list with SCHED set, and
  `tasklet_schedule()` ignores it from then on.
- *A failed attach poisons the interrupt.* `claim_irq()` frees the descriptor
  without unlinking it; the next request for that interrupt succeeds and its
  handler is never called.
- *A cancelled work can be queued without its pending bit.* `del_timer()` asks DDE Kit
  whether the timer is pending and then deletes it. If it expires in between,
  `cancel_delayed_work()` clears the pending bit while the timer function is on its way
  into `__queue_work()`, which "must only be called if the pending flag is set".
- *A write reports success for a block that was not written.* `block_write()` fails
  when the host still has the previous command in `us->srb`; the read path of
  `Tx_thread` tries again, the write path ignores the result.

Things the models have in common with the code, without a run of their own:

- `try_to_wake_up()` always returns 0, so an exclusive wake-up wakes all waiters, not
  one as the comment of `__wake_up_common()` says. `NoLostWakeup` of `Completion`
  depends on that.
- A wake-up of a task that does not sleep leaves a count in its sleep lock, and
  its next sleep ends at once. Loops tolerate this, single sleeps do not.
- The interrupt counter can become negative, since two threads may both decrement it by
  the value that they have read, and `irqs_disabled()` may be false inside a section.
- Two first users of a static spin lock may both hold it.
- Closing the only open audio channel while Root holds its token blocks the entrypoint for
  good, and a flush may block in `get_packet()` when Root was faster.
- A block packet that is out of range is dropped without an acknowledgement.

### Bounds

- `MaxSem`, `MaxSleep`: semaphore counts saturate. The maximum stands for "that many
  or more", and a down from the maximum may leave it there. Nothing in the
  code depends on the exact count.
- `MaxRetries` is 2 instead of 10: enough to go round and to give up. It is 1 in *softirq_live*, where
  `__do_softirq()` gives up whenever it finds more to do; going round again is the easier case for liveness,
  since the softirq thread need not be woken for it.
- *softirq*: a driver, a caller, one tasklet and both vectors, so that two runners meet at a
  tasklet. *softirq_live*: two drivers, two tasklets, one vector, no callers.
- *completion*: two waiters, one of them with a timeout, and a completer; `MaxDone` 2
  is more than one waiter takes. A third waiter makes the check of the liveness properties too
  long; the invariants are proved for any number.
- `MaxNest` 2: an inner interrupt section can end while an outer one is open. Two
  threads are enough for a second initialisation and for two decrements at a time.
- *workqueue*: a plain and a delayed work, a client that submits and one that flushes,
  cancels and runs. `MaxInsert` 2 works are queued in a run, which is enough for
  one to overtake the other; `MaxDepth` 2 lets the worker flush its own queue once.
  The model stops when the works are used up, so deadlock is not checked.
- *usb_storage*: one device of 2 blocks, requests for 0 to 2 blocks at block 0 or 1, so some
  have two commands, some none and some are out of range; a queue of one
  packet, since `Tx_thread` handles one at a time; a result buffer that holds 0 or 2
  if the device did not fill it. A second device would find no host (`scsi.c` has one). The
  system may stop when the device is gone, so deadlock is not checked. Block
  numbers stay below the word size: the wrap of the range check is out of the model.
- *audio_out*: two packets in each queue, so that a round and a flush compete. The entrypoint
  may block for good, see above, so deadlock is not checked.
- `Irq` has finitely many handlers, each requested once, so it may stop:
  deadlock is not checked there.

### Fairness

Threads are scheduled by the kernel, so every module has weak fairness of each
thread that is in the middle of the code, and of the timer thread. Nobody has to
call anything. Beyond that:

- `Softirq`: strong fairness of `tasklet_enqueue`, because the list locks of DDE Kit queue their
  applicants.
- `Completion`: strong fairness of a waiter that wants the lock, for the same reason, and
  of the passing of time, because a saturated sleep lock would let a task wake and
  sleep forever before its timeout.
- `Workqueue`: strong fairness of the end of a work function in the worker: a function
  returns, however often it flushes its own queue before. Timers expire.
- `UsbStorage`: the device ends each transfer, and the client collects its
  acknowledgements. `AudioOut`: the same.

## Proofs

TLAPS proves, for all sets of threads, tasklets, works, handlers and requests and for all
values of the bounds:

| Module | Theorems, each `Spec => []...` of the property of that name unless said otherwise |
|---|---|
| `SoftirqProofs` | `TypeCorrect`, `ScheduledOnceHolds`, `NoBugHolds`, `SerializedHolds`, `DisabledNotRunningHolds`, `NoLostWakeupHolds`, the action property `KilledIsGoneHolds`, and `Refinement` (`Spec => ServiceSpec`) |
| `CompletionProofs` | `TypeCorrect`, `NoLostWakeupHolds`, `QueuedWhileWaitingHolds` |
| `SpinlockProofs` | `TypeCorrect`, `ExclusiveHolds`, `QuietEnabledHolds` |
| `IrqProofs` | `TypeCorrect`; `ExclusiveAloneHolds` and `GrantedIsCalledHolds` (`~ AttachFails /\ Spec => []...`) |
| `WorkqueueProofs` | `TypeCorrect`, `NoBugHolds`, `AccountedHolds`, `FlushCompleteHolds`, `NoLostWakeupHolds`, `WaitersQueuedHolds` |
| `UsbStorageProofs` | `TypeCorrect`, `CommandLiveHolds`, `ReleasedUnusedHolds`, `SessionSizedHolds`, `InRangeHolds`, `ReadMovedHolds` |
| `AudioOutProofs` | `BothOpenHolds`, `PacketsAccountedHolds` |

They assume what the modules' ASSUMEs say: the threads that play different parts are different,
`NULL` is none of the values it is compared with, and the bounds are natural
numbers (positive where a count of zero would make no sense). `UsbStorage` also
assumes that the device has a block, and `Spinlock` that there are finitely many threads, because
its type invariant multiplies by their number. TLC evaluates these assumptions in the runs.

Every invariant that a passing run checks is a theorem, and so are the action property and the
refinement.

The type invariants of `Completion` and `AudioOut` are in the proofs only (that of `AudioOut` as
part of its inductive invariant); their runs spend their time on the rest.

### Softirq

All theorems rest on one inductive invariant, `IInv`, of seven parts:

- `TypeOK`, `Control`: which thread can be where, and which locals are live there.
- `ScheduledOnce` is inductive together with `Control`. It is the heart of the
  matter: a tasklet with SCHED set is on one list, in one detached list, or in one
  thread's hands. `BUG()` is unreachable because the thread in `tasklet_action()`
  has the tasklet in its hands, so SCHED is set and nobody else can clear it.
- `RunLock`: RUN is a lock. `Serialized` says so for the execution only, which is
  not inductive: the lock is held from `trylock` to `unlock`.
- `Quiet`: who is told that the tasklet is disabled is counted, and a runner that has
  seen the count 0 runs no tasklet for which somebody was told. `tasklet_disable()`
  waits for RUN to be clear, and a runner sets RUN before it reads the count.
- `Killing`: between the wait and the clear of `tasklet_kill()` RUN stays clear, since
  SCHED belongs to the killer and no runner can have the tasklet.
- `Wakeup`: `NoLostWakeup` also for the time when the softirq thread is awake.

The actions fall in four groups (raising and scheduling, the driver's calls,
the loop of `__do_softirq()`, `tasklet_action()`), and each part but
`ScheduledOnce` is proved for each group. `ScheduledOnce` follows from lemmas on what
taking, dropping and linking a tasklet do to the places and from frame lemmas for the
actions that move none. The refinement maps each action to a step of `TaskletService` or to
a stutter.

### Completion and Workqueue

`NoLostWakeup` speaks of tasks that are down on their sleep locks. It is not inductive,
since a waker may come while the task is on its way there. `Noticed` says the same from the moment the
task has announced its sleep and looked for the last time. It needs that a
waker finds every such task on the queue (`QueuedWhileWaiting`, `WaitersQueued`, and `MoreWork` for
the worker) and that whoever wakes has the lock (`Locked`, `LockInv`).

The invariant of `Workqueue` has five parts that are proved one on top of the other, the first
four in `WorkqueueInv`, the last in `WorkqueueProofs`:

- `TypeInv`: types, and the locals live at a control point;
- `WakeInv`: the above;
- `PendingInv`: unless a `del_timer()` raced, a work with its pending bit is at one place (the list,
  its timer, or the hands of one thread) and one without it at none. This is
  why no `BUG_ON()` fires;
- `SequenceInv`: the numbers of queued and running works are distinct and at most
  `insert_sequence`; and unless a work was overtaken, all of them are above
  `remove_sequence`, so a flush that compares counters compares works;
- `AccountInv`: the counters differ by the number of works that are queued or running
  (`Accounted`), and these are finitely many. Queueing adds one entry with a number that no other has,
  taking it off moves it into the hands of a thread, and its end removes it from there; that each
  is one entry and not two is what `SequenceInv` says.

### Spinlock

While `need_init` is set nobody has the lock or is about to take it, so the first
initialisation does no harm; afterwards, and until a second one, whoever is inside holds
the lock of DDE Kit.

The counter of disabled interrupts is not the number of open sections: decrements race, and it
may be lower, even negative. `IrqInv` says that it is never higher, where the section that a thread
is leaving counts as open until the last decrement of its loop. Raising the counter opens
one section, and a section closes with a decrement or when the counter was read as zero or less. The sections
are a finite set of pairs of a thread and a level, so one more section is one more element, and
no sum over the threads is needed. `QuietEnabled` is the case of no open section.

### Irq

`RegisterInv` holds whatever fails: the list has one descriptor of an interrupt, and the request
under way has one of its own interrupt on it. `CalledInv` needs that attaching works: a descriptor
on the list has its thread unless it is being attached just now, one without handlers is
that of the request under way, and the flag of a descriptor is that of all its handlers. It
follows that the handlers are those granted. When attaching may fail, TLC refutes not only
`GrantedIsCalled` but also `ExclusiveAlone`: the descriptor that stays on the list
keeps the shared flag of the request that failed, so a shared handler may later join an exclusive
one.

### UsbStorage

Five parts: `TypeOK`; `MutexInv`, who holds `dev_mutex` and how far a disconnect is;
`SessionInv`, the scan thread has ended before a session begins, so only one of
the two requesters is active; `CommandInv`, `us->sema` counts one for a command in
`us->srb` that the control thread has not met, and a command in `us->srb` that is not being
cleared has a thread waiting for it; `PacketInv`, a read in progress has
transferred exactly the blocks before the current one. `CommandLive` needs the fourth,
because a waiter may go on and queue its next command between the signal and the clear.

### AudioOut

Tokens are counted: those in the semaphore, those Root holds and the one that a destructor
has taken are as many as the channels whose constructor has ended. Root plays with two,
so none is left for a destructor.

### Only model-checked

The liveness properties, and with them the fairness: the prover does neither fairness nor
ENABLED. The properties of the violated runs are false.

## Not modelled

The repository has some 644,000 lines, nearly all of them Linux, madwifi, ALSA, DRM and
uIP code taken over unchanged. The models cover a small part of that number, and are not meant to
cover more: a faithful model of the contributed drivers would be a model of
their hardware. What is modelled is where the DDE's own code, or its replacement of
what the contributed code relies on, has threads that interleave. Of usb-storage, which the
block service drives directly, the command path is modelled.

Left out of the DDE's own code:

- *Memory, pages* (`kmalloc.c`, `kmem_cache.c`, `page_alloc.c`): wrappers of DDE Kit's services and a
  hash table, used by one thread at a time or under one lock.
- *I/O regions, PCI* (`res.c`, `pci.c`): a list that only grows during initialisation.
- *Input* (`evdev.c`, `input_component.cc`): a translation table, and a ring that is Genode's.
- *Virtual USB host controller* (`usb_vhcd.c`, `usb_vdev.c`): a prototype without its server.
- *Network* (`net.c`, `madwifi/main.cc`): no state but a callback; `netif_rx_ni()` is in `Softirq`.
  Network softirqs are raised like the tasklet softirqs, and their handlers are contributed.
- *Processes, kernel threads* (`process.c`, `kthread.c`): the pid list and the start and stop
  handshakes; the modelled threads exist from the start.
- *GPU front end* (`drivers/gpu/i915`), *files, tables and stubs*: what they do is decided by
  the contributed code that calls them, or is constant.

Left out of the modelled parts:

- `open_softirq()`, `tasklet_init()`, the creation of work queues: part of `Init`.
- `destroy_workqueue()`, which ends the worker through `kthread_stop()`, and
  `cancel_rearming_delayed_work()`, a loop over calls that are modelled. The mutex
  of multi-threaded work queues, which only serializes flushes.
- `mod_timer()`, exclusive wait-queue entries and bit wait queues: no user in the modelled parts.
- `disable_irq()` and `enable_irq()`, which only call DDE Kit; reuse of freed memory in `Irq`,
  and two threads that register handlers at a time: the code does not support that
  and says so ("FIXME list locking").
- The transports of usb-storage, the failures of `storage_probe()`, and the abort of commands:
  there is no SCSI error handler, so `US_FLIDX_TIMED_OUT` is never set. Closing a block
  session is Genode's. The conversion of audio samples.
- Weak memory: a step is a sequentially consistent access.
