# Verification of Aero's concurrent core

Aero runs a PC in the browser: a CPU with a tiering JIT, devices, a GPU, disks, USB
and network, spread over web workers that share memory and exchange messages.  This
directory holds TLA+ models of the parts whose correctness depends on interleavings,
failures and long histories, the TLC runs that check them on small instances, and
TLAPS proofs for every instance.  `PROJECT.json` ties each definition to the lines it
models, each property to a run and to a mutant of the code that breaks it, and lists
the hazards.

    tlc -workers 2 -config MCIpcRing.cfg MCIpcRing      # any run of PROJECT.json
    tlapm ScanoutStateProofs.tla                        # the proofs of a module

## Inventory

| Part | State | Operations | What is hard | What makes it correct |
|---|---|---|---|---|
| IPC ring, `crates/aero-ipc/src/ring.rs` | `head`, `tail_reserve`, `tail_commit`, the byte region | `try_push`, `try_pop`, `try_pop_capped` | several producers reserve at once and commit in order; cursors wrap at 2^32, indices at `cap` | records are never torn, lost, duplicated or reordered; the Corrupt returns are unreachable |
| Blocking on the ring, `wasm.rs`, `web/src/ipc/ring_buffer.ts` | the above and the wait lists of `Atomics.wait` | `push_blocking`, `pop_blocking`, `wait_for_data` | check-then-wait races; one `notify` for several sleepers | nobody sleeps while its event has happened |
| JIT runtime, `crates/aero-cpu-core/src/jit` | page versions and their generation, LRU code cache, hotness profile | `prepare_block`, `install_handle`, `install_block`, `invalidate_block`, `on_guest_write`, `reset`, `snapshot_meta` | the guest writes code while it is compiled; late and reordered results; bounded tables | a block that validates was compiled from current bytes; a hot block gets compiled |
| Tier-1 pipeline, `crates/aero-jit-x86/src/tier1_pipeline.rs`; tiered VM, `crates/aero-wasm/src/tiered_vm.rs` | a de-duplicating queue, jobs in flight | request, compile, install, `reset_real_mode` | jobs run in another worker; compilation fails; a reset while jobs are in flight | requests are neither lost nor stuck; nothing compiled before a reset survives it |
| Scanout and cursor state, `crates/aero-shared/src/scanout_state.rs`, `cursor_state.rs` | `generation` with a busy bit, the descriptor words | `try_publish`, `try_snapshot` | seqlock with several writers, one of which may die | a snapshot is one published update, whole; no call spins for ever |
| Shared framebuffer, `shared_framebuffer.rs`, `frame_source.rs`, `shared_layout_presenter.ts` | two slots, `active_index`, `frame_seq`, `frame_dirty` | `try_write_frame`, `poll_frame`, `ack_frame`, `presentLatestFrame` | the consumer's slot becomes the next back slot; acknowledgement races publication | nobody writes what is being read; frames appear in order; the producer is released |
| Presentation, `frameScheduler.ts`, `gpu-worker.ts` | frame status, ticks, scanout owner, device lost, snapshot pause | tick, `handleTick`, `presentOnce`, recovery, pause, resume | the output changes within a pass; presents are awaited; pause and resume overtake each other | the newest frame is shown; a paused worker touches no guest memory |
| Interrupts, `crates/aero-interrupts`, `crates/platform/src/interrupts` | PIC, IOAPIC, LAPIC registers, assertion counts, line levels | raise, lower, acknowledge, EOI, mode switch, reset, restore | level-triggered lines, masking, Remote-IRR | no asserted level interrupt is lost |
| Interrupt lines, `crates/devices`, `crates/aero-machine` | per device: condition, last driven level, generation | poll, MMIO service, reset, snapshot restore | shared lines; each device restores its own share of a line | a line is the OR of what its devices assert |
| WebUSB, `aero-usb/src/passthrough.rs`, `webusb_passthrough_runtime.ts`, `usb_broker.ts` | transfers in flight, action and completion queues, rings, the selected device | guest transfers, polling, ring and port delivery, adopt, disconnect, forget | two channels reorder; rings fail; devices are replaced in mid-transfer; cancellation | every transfer ends, with its own answer; an action runs once, on the device it was meant for |
| Disks, `aero-storage/src/{sparse,cow,cache}.rs` | image file, in-memory tables, LRU cache of dirty lines | read, write, flush, discard, open | a crash or an error between two backend calls; slots used again | reads see writes; what was flushed is there; the image opens |
| SMP, `crates/aero-smp` | virtual CPUs, LAPICs | INIT, SIPI, IPIs | start-up order | every IPI is delivered once |
| Virtio queue, audio ring | wrapping 16- and 32-bit indices | pop, push used, notify suppression | index wrap, missed notification | each descriptor chain is completed once |
| Snapshot format, storage and USB controllers, CPU interpreter, GPU and Direct3D, network stack, drivers, tools | – | – | mostly sequential or pure data transformation | – |

How they interact.  Workers exchange commands and events through IPC rings in one
`SharedArrayBuffer`.  The CPU worker runs the tiered VM; the runtime's
`prepare_block` decides between a compiled block and the interpreter and puts hot
addresses in the compile queue; the worker sends them to a JIT worker, which reads
guest memory, and installs what comes back.  Device models publish the scanout state
and frames; the main thread's scheduler ticks the GPU worker, which reads the
scanout descriptor and then the framebuffer.  The machine polls its devices' lines
into the interrupt router between slices of guest execution.  USB transfers of the
guest become host actions that the I/O worker sends to the main thread, where the
broker executes them on the real device.

## Modules

| Module | Models |
|---|---|
| `IpcRing` | `ring.rs`: each atomic access and each plain access to the data region is an action |
| `IpcQueue` | the abstract bounded FIFO queue that the ring promises |
| `IpcRingProofs` | type correctness of the ring, its safety invariants and its refinement of `IpcQueue` |
| `IpcWait` | who sleeps and who wakes whom: `wasm.rs` on top of the ring |
| `IpcWaitProofs` | no wake-up for data is lost |
| `JitRuntime` | `runtime.rs`, `cache.rs`, `profile.rs`, and the compile jobs of the pipeline |
| `JitRuntimeProofs` | type correctness and freshness of the code cache, limits of cache and profile, accounting of requests |
| `ScanoutState` | `scanout_state.rs`: each atomic access is an action |
| `ScanoutStateProofs` | type correctness, coherence of snapshots, mutual exclusion |
| `SharedFramebuffer` | the framebuffer header, its producer and the consumers that poll it |
| `FramePresent` | extends it by the scheduler, the GPU worker's passes, device loss, snapshot pause |
| `FramePresentProofs` | no torn frame, the pause barrier, frames in order |
| `PlatformInterrupts` | router, PIC, IOAPIC and LAPICs as operators on one record |
| `IrqMachine` | extends it by devices, run loop, guest, reset and restore |
| `IrqMachineProofs` | types, the wired OR, no lost level interrupt, what a poll leaves |
| `UsbPassthrough` | the device model the guest sees |
| `UsbProxy` | extends it by runtime, rings, port and broker |
| `UsbProxyProofs` | answers belong to their transfers, single execution, loadable snapshots |
| `SparseDisk` | the image file and `AeroSparseDisk`/`AeroCowDisk` on it, one backend call per step |
| `DiskStack` | extends it by the block cache, the controller's calls, crashes and errors |
| `DiskStackProofs` | types, valid images, slots, what reads and crashes return |
| `MC...` | instances for TLC |

### IpcRing

Variables keep the names of the code; `pc`, `lhead`, `ltail` and `msg` are the
locals of `try_push` in each producer, `cpc`, `chead`, `ctail`, `cmax`, `cnext`
and `cout` those of the consumer.  A push is `StartPush`, `LoadHead`, `LoadTail`
(retry, Full or go on), `Cas`, `WriteMarker`, `WriteLength`, `WriteBody`,
`AwaitCommit`, `StoreCommit`; a pop is `StartPop`, `PopLoad`, `PopInspect`,
`PopCopy`, `PopStore`.  A word that is neither length nor marker reads as any
length, so a misplaced read cannot go unnoticed.  `log`, `published` and `taken`
are history variables for the refinement of `IpcQueue`.

Sizes are in words of 4 bytes: `new` rejects other capacities and records are
rounded up, so all quantities are multiples of 4 and the code's branch
`remaining < 4` is dead.  Atomics are sequentially consistent here; the code uses
acquire and release, and `NoDataRace` is what makes the weaker order enough for
the plain accesses.

### IpcWait

`Atomics.wait` compares and sleeps in one step; `Atomics.notify(…, 1)` wakes the
longest sleeper.  A reservation is one step (its steps are `IpcRing`'s), cursors
do not wrap, and the ring is the sequence of reserved segments, padding included,
because the consumer stores `head` and notifies for each.  The corruption branches
of `try_pop` are left out: `NeverCorrupt` shows that they are not reached.
`Contexts` says which producers may block: the browser's main thread may not, and
spins.  `Full` is the refusal of `try_push` seen from one moment; `IpcRing` has the two
loads it is made of, between which the ring may have been emptied, so that a single
Full promises nothing.  What a caller can rely on is that a push it repeats gets in:
`SpinningPushReturns`.

### JitRuntime

A call of the runtime is one step: it runs on the CPU thread.  A compile job is
`StartCompile` (snapshot of the versions), `ReadPage` for each page, and `Install`
or `CompileError`, interleaved with everything else.  `mem` gives each page a new
content at each write; `blocks[r].code` and `meta.at` record what was read and when,
so that freshness can be stated.  The cache and the profile are pure operators on
records, one for each method; the LRU list and the `last_hit` order are sequences.
Byte lengths are counted in pages.  `rejected` is a history variable, the addresses
that Tier-1 rejected since they were last put into the queue: the code keeps no trace of
a rejection, and `RequestsAccounted` says that these are the only requests nobody works
on.  `LoopSpec` adds fairness; `VmSpec` replaces
`Reset` by `reset_real_mode` as `WasmTieredVm` does it.

### ScanoutState

`StartPublish`, `Lock`, `SpinLock`, `LockTimeout`, `StoreField`, `Commit` are
`try_publish`; `StartSnapshot`, `LoadGen0`, `LoadField`, `LoadGen1`,
`SnapshotTimeout` are `try_snapshot`; `Die` is a worker that panics or is
terminated while it holds the busy bit.  An update is one name, which each field
it has stored holds.  `cursor_state.rs` is the same protocol with 11 words.

### SharedFramebuffer and FramePresent

A publish is `BeginFrame` (the throttle of `try_write_frame`), `EndPixels`,
`StoreActive`, `StoreSeq`, `StoreDirty`, and `StoreStatus` for the frame state the
scheduler watches.  One consumer is attached: the canvas presenter or a
`FrameSource`, which poll `frame_seq` (`PollSeq`, `PollActive`, `EndRead`,
`LoadAckSeq`, `ClearDirty`), or the GPU worker.  Its pass is `HandleTick`,
`ReadOwner` and `ReadActive`/`ReadSeq` (`getCurrentFrameInfo`), `ChooseOutput` (the
second descriptor snapshot in `presentOnce`), `FinishPresent` or `PresentThrows`,
`AckSeq`, `AckClear`, `FinishPass`.  JavaScript runs to completion, so a message
handler runs only when no pass is at work or when the pass awaits an external
module's `present()` (`InLoop`).  Frames are numbers; a slot holds the number of the
frame whose pixels it has.  The owner of the output is one of `text`, `vbe`, `wddm`,
`placeholder` (WDDM with base address 0) and `off`; a descriptor snapshot is one
step, which `ScanoutState` justifies.

A presenter may show the frame or drop it (`outcome`: `present()` returns false on a
surface that is outdated or timed out); either way the pass acknowledges it.  When the
descriptor cannot be read in time, `getCurrentFrameInfo` looks at its words one by one
and returns a black pixel or nothing for an output that a scanout owns (`FrameKinds`).

`missed` is a history variable: it names what became of the current frame when it was
not both shown and acknowledged: the pass failed (`fault`), presented something else
(`owner`), the presenter dropped the frame (`dropped`), a poller cleared the flag before
the producer had set it (`early`), or a `FrameSource` attached behind the frame
(`skipped`).  `ProducerResumes` excepts `fault`, `early` and `skipped`, but neither
`owner` nor `dropped`: the producer of such a frame must be released.  `LatestShown`
excepts all but `early`: nothing shows a dropped frame before the next publish.

### PlatformInterrupts and IrqMachine

`ints` is the router with its controllers: `count` and `level` per GSI, `baseline`
during a restore, the redirection entries with Remote-IRR, `irr`/`isr` of each LAPIC
and of the PIC.  The emulator's calls are synchronous, so each is an operator that
takes and returns that record and an action is one call from outside.  Where the code
goes through the lines one by one (a mode switch, a restore), the operator takes the
set of them: each call touches its own line only, so the order does not matter.  A
wiring is the sequence of the devices, and `EachOf` drives those of one kind in this
order; here it matters, since several may share a line.  Each device
has a condition (`cond`: it wants an interrupt) and what it remembers of the line it
drives (`drv`), and there is one operator for each way the code has of driving one:
`IntxSet`, `LineSet` (`PlatformIrqLine`), `CachedSet` (RTC and ACPI in front of a
line), `HpetSet`, and COM1's plain `Pull`.  PCI functions, IDE and COM1 are driven by
the poll; HPET, RTC and ACPI when their condition changes.  `RestoreSnapshot` is
the machine's restore in the code's order: controllers, INTx router, RTC, ACPI,
HPET, a sync of the polled devices, `finalize_restore`.  `adopted` remembers which
lines that call asserted on behalf of nobody.  A vector is its GSI; priorities,
polarity and broadcast destinations are left out.

### UsbPassthrough and UsbProxy

The device holds `inflight` per pipe, queued `actions`, `completions` and `next_id`.
`serial` is a history number for each transfer, so that an answer can be told from
another with the same id.  The worker's runtime keeps `pending` (the promises of the
poll it awaits) and `backlog`; `Poll` is `pollOnce` up to its await.  Actions go
through the ring while it has room and otherwise through the port; completions come
back the way their actions came.  In the broker, `queue` and `current` are
`drainQueue`; `ResetSelectedDevice` fails what is queued and, through the disconnect
signal, what is being executed; `ForgetDevice` and `ForgetDone` are the two sides of
the awaits in `forgetSelectedDevice`, which leave a running action that no longer
hears the signal (`deaf`).  Either side may find a ring corrupt at any time.
Promise reactions run before the next message, so the completions of failed actions
follow the broadcast in the same step.

### SparseDisk and DiskStack

The unit is the sector; its contents are a pair of its number and a version, so data
in the wrong place is noticed.  `file` is the backend: header count, table, data,
length.  `mem` is what `AeroSparseDisk` keeps.  A call of the controller is expanded
into the sequence `todo` of its remaining backend calls and cache operations; each is
a step, and `Crash` or `Fail` may come between any two.  After a crash the file is as
the calls left it (`Reopen` is `AeroCowDisk::open` with its checks); the backend's
own write cache is not modelled.  `vol`, `stable` and `unsure` are history: what each
sector was last given, what it may hold after a crash, and which sectors a call that
failed or is in progress leaves undetermined.

The read that fills a cache line comes before the eviction and the insert; when it
fails, the call returns and nothing has changed, so this is no step.  After a failed
allocation a mapped slot can lie beyond the end of the file: the code's read of it is
an error until the next write makes the file long enough, the model's is zero at once.
`BlockCachedDisk` over `AeroCowDisk` is the stack that the storage documents recommend; in
the repository only tests and a benchmark put the cache on top.

`CrashConfined` excepts the block that is being filled at the time of the crash: until
its last write the sectors beside the new data, which came from the base, may read as
zero or as what a former block left in the slot.  `ImageOpens` excepts the window between
the header write and `set_len` of an allocation (Known limits).  Outside these windows,
a crash between any two calls is covered.

## Runs

| Run | Instance | Shows |
|---|---|---|
| `ring` | 2 producers, 2 pushes each, 5 words, cursors modulo 10 starting at 0 and at 8 | ring invariants, refinement of `IpcQueue`, delivery |
| `wait` | 2 producers, all spinning or all blocking, 3 words; 255,414 states | wake-ups for data, liveness where one notify suffices, a push that is repeated gets in |
| `wait_mpsc` | 2 blocking producers | **violated** `CommitReturns` |
| `jit` | 2 blocks on the same 2 pages, one uncompilable, 2 jobs, 2 writes, 1 reset, versions modulo 2, snapshots clamped to 1 page, 1 cache entry (3 pages of code), 1 profile entry; 729,245 states | `ValidMeansFresh`, cache and profile stay consistent, requests are accounted for |
| `jit_live` | 2 hot blocks, one of which Tier-1 rejects and a caller may install, room for 1, with a reset and a write | a hot block gets compiled, again after each eviction |
| `scanout` | 2 writers (one mortal), 1 reader, 3 fields, generation of one bit | coherence, mutual exclusion, termination |
| `usb` | 1 control request, 1 bulk IN endpoint, 3 transfers, rings of 1 record, 1 action per poll of at most 2 drained, queue of 2, 3 selection changes; 334,000 states | ids, answers, single execution, completion |
| `present` | each kind of consumer and of presenter, 2 frames, owners `text`, `vbe`, `placeholder`, `off` with 1 change, 1 tick in flight, 1 failure, 1 pause; 529,766 states | no torn or older frame, the pause barrier, release of the producer, the newest frame shown |
| `irq` | INTx+HPET and INTx+INTx on one GSI, RTC, IDE, ACPI and COM1 alone, 1 CPU, 2 mode switches, 1 reset, 1 restore; 580,603 states | wired OR, no lost level interrupt, a poll in any state settles the lines |
| `irq_serial` | COM1 alone | **violated** `LineFollowsDevices` |
| `disk` | 3 sectors, blocks of 2, lines of 1 or 2, 1 or 2 lines, a crash or a failed call; 1,403,210 states | reads see writes, crashes are confined, the image opens, no slot is lost |
| `disk_errors` | the same with a failing backend | **violated** `OverlayHoldsBase` |

Bounds and why they are enough.  Two producers suffice for each race of the ring,
since a third only repeats the role of the second; the capacity lets records of 2
and 3 words end before, at and after the end of the region, with one and with two
words left over; starting at 8 makes the cursor wrap within two pushes.  Versions of
one bit wrap while a snapshot of them is held.  A generation of one bit makes it wrap
at the second commit.  In `usb`, three transfers are an old one that was cancelled, the
one that takes its pipe and one on the other pipe; rings and queue are as small as
they can be, so that each fills up; three changes are adopt, replace or forget, and
adopt again.  Two frames let a publish overlap the presentation of the frame before;
one change, failure and pause can each fall into any step of a pass.  Two devices on
one line, of the same and of different kinds, are what sharing needs; the run was
also done once with two CPUs (2,338,969 states).  Three sectors give a block that is
half outside the disk and a line that is half a block.  `MaxPushes`, `MaxWrites`,
`MaxResets`, `MaxPublishes`, `MaxTransfers`, `MaxSelections`, `MaxFrames`, `MaxTicks`,
`MaxChanges`, `MaxLosses`, `MaxPauses`, `MaxSwitches`, `MaxRestores`, `MaxFaults`,
`MaxVersion` and `MaxSlots` bound calls and values, in the guards of the actions;
`MaxCount` is where the assertion count saturates (2^32 - 1 in the code).  `NoLap`,
`NoVersionLap` and `NoGenerationLap` are not bounds of the instance but the timing
assumptions the code makes: a counter does not go round completely (2^32 bytes, 2^32
writes to a page, 2^31 updates) while one thread stands between two accesses.

`TypeOK` of `UsbProxy`, `FramePresent` and `IrqMachine` holds on the same instances
and is left out of the runs, which check what says more.

`SpinningPushReturns` holds for records of at most half the ring, rounded up, as
the instance has them.  A longer record can be refused by an empty ring for ever:
padding and record together must fit in `cap`, and nothing moves the tail.

Fairness.  `FairSpec` of the ring and of the scanout state, and `Spec` of
`IpcWait`, give weak fairness to the steps of each thread that is inside a call:
workers are threads of the operating system, scheduled fairly unless they sleep or
die.  Nothing obliges a producer to start a push.  The ring's consumer is also
assumed to keep polling, as the workers' loops do.  `LoopSpec` assumes a guest
that keeps executing its blocks and a JIT worker that keeps working: the property
is about such a guest.  `UsbProxy` assumes that interval timers fire, messages are
delivered, the guest's controller keeps retrying a transfer that was answered NAK,
`close()` and `forget()` return, and the USB device answers what it is given: WebUSB
has no timeout, so without the last one transfer would hold up all others.  Nothing
obliges a device to be selected or a ring to fail.  `FramePresent` assumes that
threads run, animation frames and messages arrive, and a present that does not throw
ends; not that a lost device comes back, a pause ends or the guest publishes again.
`IrqMachine` states fairness of the poll only, since the run loop polls before every
slice; its properties are safety properties.  `DiskStack` has none.  No strong fairness is used.
Deadlock is not checked in `IpcWait` (everybody may be asleep; the liveness
properties say when not), `UsbProxy` and `FramePresent` (all work may be done) and
`DiskStack` (an image that `open` rejects ends the run; `ImageOpens` says when not).

### What the violated runs show

* `wait_mpsc`: the consumer and the producers behind the first sleep on one word,
  and a commit wakes the longest sleeper.  With two producers that is the consumer,
  while the producer whose turn it is sleeps for ever.
* `irq_serial`: COM1 raises its line again at every poll, and the router counts
  assertions: after n polls with the condition, n polls are needed to release it.
  The other polled devices go through `PlatformIrqLine` or the INTx router, which
  drive transitions only.
* `disk_errors`: `ensure_block_allocated` updates memory first.  When a backend call
  then fails, the block counts as existing although it was never filled from the
  base.  The trace ends there; the write that is retried writes only its own sectors,
  and from then on the others read as zero.

## Known limits

Facts met while modelling that no run repeats; each was reproduced with TLC by the
constants given.

| Code | What happens | Reproduce |
|---|---|---|
| `ring.rs:102` | `new` accepts capacities that do not divide 2^32; when a cursor wraps, its index jumps and `try_pop` reports corruption | `NeverCorrupt` with `Cap = 3`, `CursorMod = 7` |
| `wasm.rs:263` | `push_blocking` loads `head` after the failed `try_push`; the wake-up may be over | `PushReturns`, one blocking producer, ring of 2 records |
| `ring.rs:114` | a record longer than half the ring, rounded up, can be refused for ever by a ring that is empty, depending on where the tail stands | `SpinningPushReturns` with `Cap = 3`, `Sizes = {1, 3}` |
| `profile.rs:92` | a block that Tier-1 rejects stays requested for ever and keeps its place in the profile; when such blocks fill it, no further block is counted | `RequestsAccounted` without `\cup rejected`, in the instance of `jit` |
| `tiered_vm.rs:1339` | `reset_real_mode` starts generations at 0 again; a job in flight is taken for one of the new runtime | `ValidMeansFresh` under `VmSpec`, 1 block, 2 jobs |
| `passthrough.rs:1098` | a restore takes `next_id` back while the broker still works on later ids; `docs/webusb-passthrough.md` says ids are not used again | `OwnCompletion` under `UsbProxy!RestoreSpec` |
| `usb_broker.ts:406` | a device adopted during the awaits of `forgetSelectedDevice` is announced as gone | `SelectionAgrees` in the instance of `usb` |
| `gpu-worker.ts:3053` | a lost device or a present that throws leaves `frame_dirty` set, and no further tick comes for that frame, although the comment at 3131 wants dropped frames acknowledged too | `ProducerNeverStalls` in the instance of `present` |
| `gpu-worker.ts:3131` | a frame that the presenter drops is acknowledged and not tried again: if the guest publishes no other, the screen keeps the older one | `LatestShown` without its exception of `dropped` |
| `router.rs:633` | a snapshot between the end of a condition and the next poll restores an assertion that nobody lowers | `PollSettlesLine` without `\ adopted` |
| `acpi_pm.rs:793` | `load_state` ends in `update_sci`, which drives the line only when the level is not the one in memory: a restore into a running machine whose SCI is pending claims no assertion for it.  On a line of its own `finalize_restore` adopts the saved level; when the guest has routed an HPET timer to that line and it claims it, nothing is adopted, and the line falls when the timer deasserts although the SCI is pending | `PollSettlesLine` with `Two("acpi", "hpet", 9)` |
| `sparse.rs:673` | a crash between the header write and `set_len` of an allocation leaves a header that counts a slot beyond the end of the file, which `open` rejects | `ImageOpens` without its `grow` conjunct |
| `sparse.rs:677` | after a failed table write, data that was flushed later is not found when the image is opened again | `CrashConfined` without `~Failed` |

## Proofs

| Theorem | Says | Rests on |
|---|---|---|
| `IpcRingProofs!TypeCorrect` | `Spec => []TypeOK` | `TypeInv`: a producer that reserves asked for at most `Cap` words, so one subtraction brings a cursor back in range |
| `IpcRingProofs!RecordsContiguous`, `WritersNeverMeet`, `PopNeverCorrupt` | `Divides /\ Spec => []RecordContiguous`, `[]NoDataRace`, `[]NeverCorrupt` | `RingInv` |
| `IpcRingProofs!HeadNeverPassesCommit` | `Divides /\ Spec => HeadStaysBehindCommit` | `RingInv` |
| `IpcRingProofs!RingImplementsQueue` | `Divides /\ Spec => ImplementsQueue` | `RingInv` |
| `IpcWaitProofs!NoDataWakeupIsLost` | `Spec => []NoLostDataWakeup` | `WaitInv` |
| `JitRuntimeProofs!JitTypeCorrect`, `CacheIsFresh` | `Spec => []TypeOK`, `[]ValidMeansFresh` | `Fresh` |
| `JitRuntimeProofs!CacheKeepsLimits` | `Spec => []CacheWithinLimits` | `CacheInv` |
| `JitRuntimeProofs!ProfileKeepsCapacity` | `Spec => []ProfileConsistent` | `ProfileOK` |
| `JitRuntimeProofs!RequestsStayAccounted` | `Spec => []RequestsAccounted` | `Sound(profile, Places)`: a consistent profile that requests only addresses of queue, jobs, cache or `rejected` |
| `ScanoutStateProofs!ScanoutTypeCorrect`, `SnapshotsCoherent` | `Spec => []TypeOK`, `[]SnapshotCurrent` | `Inv` |
| `ScanoutStateProofs!BusyBitExcludes` | `Spec => []BusyBitLocks` | `Inv` and `CountInv` |
| `FramePresentProofs!NoFrameIsTorn`, `PauseIsBarrier` | `Spec => []NoTornRead`, `[]PauseBarrier` | `Inv` |
| `FramePresentProofs!FramesGoForward` | `Spec => ShownForward` | `Inv` |
| `IrqMachineProofs!IrqTypeCorrect`, `IrqNotLost`, `IrqWiredOr` | `Spec => []TypeOK`, `[]NoLostLevelInterrupt`, `[]LineIsWiredOr` | `IInv` |
| `IrqMachineProofs!IrqPollSettles` | `SciAlone` implies `Spec => []PollSettlesLine` | `SInv` |
| `UsbProxyProofs!BrokerServesQueue` | `Spec => []QueueServed` | `TypeOK` |
| `UsbProxyProofs!SnapshotAlwaysLoadable`, `CompletionIsOwn`, `SuccessIsTrue` | `IdsLast /\ Spec => []SnapshotLoadable`, `[]OwnCompletion`, `[]SuccessMeansExecuted` | `UsbInv` |
| `UsbProxyProofs!RunsAtMostOnce` | `IdsLast /\ Spec => ExecutedOnce` | `UsbInv` |
| `DiskStackProofs!DiskTypeCorrect` | `Spec => []TypeOK` | `BaseInv` |
| `DiskStackProofs!DiskImageOpens`, `DiskSlotsMirrored` | `Spec => []ImageOpens`, `[]SlotsMirrored` | `BaseInv` and `SlotsOK` |
| `DiskStackProofs!DiskReadsSeeWrites` | `Spec => []ReadsSeeWrites` | `DiskInv` |
| `DiskStackProofs!DiskCrashConfined` | `Spec => []CrashConfined` | `DiskInv` and `CrashOK` |

Assumptions.  Those on the constants (`CapAssumption`, `JitAssumption`,
`ScanoutAssumption`, `FramebufferAssumption`, `PresentAssumption`, `UsbAssumption`,
`ProxyAssumption`, `NoneAssumption`, `DiskAssumption`, `StackAssumption`,
`FabricAssumption`, `MachineAssumption`), which TLC evaluates on every run, and the
timing bounds stated in the actions.  `MachineAssumption` asks that devices on one line
agree on its trigger mode, which is a property of the line in the firmware's tables,
and that there are fewer devices than a `u32` counts.  Some theorems have a hypothesis of their own:

* `Divides`: the capacity divides the cursor range.  `ring.rs` does not ask for it, but
  every ring of the system is created with a power of two (`shared_layout.ts`: 32 KiB,
  512 KiB, 1 MiB).  Without it `NeverCorrupt` is false, see the first known limit.
* `IdsLast`: the guest starts at most as many transfers as there are ids, 2^32 - 1 in
  the code.  The actions of a transfer that was given up are not taken back from the
  broker, so nothing in the code bounds how late its completion comes; what keeps it
  from answering another transfer is that its id has not come round again.
* `SciAlone`: no other device is on the line of the SCI.  The machine wires ISA
  interrupt 9 to ACPI PM alone (`aero-machine/src/lib.rs:11116`) and PCI to GSIs 10 to
  13, but the route mask of an HPET timer (`hpet.rs:260`) lets a guest choose GSI 9; a
  known limit above says what happens then.

Arguments.

`CacheIsFresh`.  `ValidMeansFresh` says nothing of jobs in flight or of stale
blocks that might become valid again, so it is not inductive.  `Fresh` speaks of
every snapshot of the current generation, in the cache or in a job: the version
has advanced, modulo the width, by the number of writes since the snapshot, which
is below the width, and the code of the page was read since the snapshot.  When
the version is back where it was there was no write (`AdvanceZero`), so what was
read is what is there.  A reset makes all snapshots of older generations; an
install moves a snapshot from a job to the cache; a write is `WriteKeepsSnap`.

`SnapshotsCoherent`.  `LockInv`: while the busy bit is clear, nobody holds it and
the words are the current update; while it is set, exactly one writer holds it and
has stored the fields before its `wfield`.  `ReadInv`: the published generation is
the reader's `gen0` advanced by the commits since, fewer than 2^31; if there were
none and the bit is clear, what was read so far is current.  Equal generations at
the second load give no commit since and a clear bit, hence a coherent buffer.
`CountInv` adds that the generation counts the commits, for `BusyBitExcludes`.

The ring.  `RingInv` says that there is an unbounded stream of words of which the data
region is a window: each reservation begins where the one before ends (`Layout`), the
three cursors are places of this stream modulo the cursor range (`Cursors`), a producer
between its loads and its compare-exchange holds a place of the consumer that is less
than one turn old (`Loaders`), each writing producer owns one uncommitted reservation
(`Owners`), what lies between the consumer and the commit cursor is written and
nobody's (`Written`), and the consumer has read what is there (`Reading`).  The window
is at most `Cap` words long and `Cap` divides the cursor range, so that different
places of the window are different words: from this all five theorems follow.
For the refinement the queue's contents are the reservations behind those taken.

`NoDataWakeupIsLost`.  `WaitInv`: each wait list holds exactly the threads that sleep
on its word, once, and a consumer about to sleep holds the value of the commit cursor
at which the ring was empty; so a commit in between makes `Atomics.wait` return at once,
and a commit after it has a producer that has not notified yet.

Cache and profile.  The recency lists hold each key once (`Once`), so that a touch,
an eviction or a removal takes out one entry and no other; `SumsOf` gives the bytes of the cache
as a sum along its list, and eviction removes from its end until the limits hold.

`NoFrameIsTorn`.  `SlotInv`: the producer writes pixels only while the frame is
acknowledged, and a consumer that chose a slot which is no longer active has a
publish after its choice that is not acknowledged.  `SeqInv` gives each slot its
frame number, from which `FramesGoForward` follows; `PauseInv` and `PassInv` say in
which states of a pass a pause may have been answered.

Interrupts.  `IInv` has one part about the controllers and one about the devices.

* `FabricOK`, of every line: its level is what is counted, or the baseline of a restore
  in progress, and Remote-IRR is set only for a request that waits or is served
  (`Counted`); in APIC mode the pin has the level, and a level-triggered, unmasked, high
  pin has Remote-IRR set (`Seen`); an entry has the trigger mode of its line or was never
  written (`Programmed`), so that no EOI misses a Remote-IRR.  `Counted` and `Seen` give
  `NoLostLevelInterrupt`.
* `Wired`: the count of a line is the number of its devices that hold it, plus one for
  an adopted line.  A `PlatformIrqLine` counts only in its own generation, and every
  reset and restore begins one (`LinesOK`), so that memories of before hold nothing.
  Within a restore the HPET's flags are stale until `load_state` reaches them: `Wired`
  has the set X of these timers.

A poll goes through the devices in a recursive function.  Its values are shown to exist
and to satisfy the recursion by `IntervalInduction`, with a set for the predicate, and
`Wired` is carried along them.  For `IrqPollSettles`, `SInv` adds that what HPET, RTC
and ACPI PM remember is their condition, except that the SCI may be an adopted
assertion (`SettledOK`), and that a snapshot with a pending SCI has its line high
(`SavedLevels`): the restore then adopts that line, as nobody else claims it.

USB.  `Ledger` is the bookkeeping: every action that is anywhere (in the device's queue,
the worker's backlog, the ring, the port, the broker's queue, being executed, or in
flight at a pipe) is known by a serial number that is also its id; what waits was not
started, what runs was not answered, and each completion that is anywhere tells what
became of its serial number, with the direction of its action.  `PlacesApart` says that
a waiting action is in one place, once; without it the broker could start an action
that is also still queued.  `DeviceOwns` ties the device's queue and its
results to the transfers in flight, and `Numbered` keeps the next id equal to the next
serial number, which `IdsLast` makes possible: `alloc_id` then never has to skip.
Each step of each thread moves actions from place to place (`LedgerLess`), starts
(`LedgerStart`), answers (`LedgerAnswer`) or both (`LedgerNext`).

Disks.  Between calls the properties of the disk nearly say it all; what makes them
inductive is what holds between two backend calls of one call, as a relation between
the steps that are left (`Work`, the set of `todo`) and the state.  `Before` says which
step may stand before which (`Ordered`), so that a call is always in one phase.

* `BaseInv`, which failures do not break: types; different blocks have different slots
  and a mapped slot is in use (`MemInv`); a slot in use is mapped, about to be cleared
  on file, or lost to one of the failures so far, so that a free one is found below
  `MaxSlots`; a line is inserted when there is room and it is not cached (`CacheInv`).
* `SlotInv`, while no call has failed: file and memory differ only in what a pending
  `header`, `entry` or `clear` step will write, and the file is long enough for its
  header unless a `grow` is pending.
* `DropInv`: a modified line that a discard will drop, or that a flush must have
  written, still has its `sync` or `clean` step before that.
* `DataInv`: each sector that is not being changed is right in the cache and, unless
  its line is modified, right on the disk once the pending puts are done; a line in
  the middle of its eviction or write-back will be on the disk by then, and what a
  pending write-back stores is in a modified line of the cache, which a failure keeps.
  After a failure this is said only of sectors whose value is not the base's, since
  `ensure_block_allocated` loses the others (`disk_errors`).
* `CrashInv`, while no call has failed: everything that can still reach a sector (its
  line, a pending insert, put or write-back) is a value it may have after a crash, and
  so is what memory's table gives for it, except where the block is being filled; the
  slot of a pending `clear` still holds the old data of its block.

`DiskCrashConfined` then follows with `SlotInv`: the file's entry of a block is
memory's, or it is that of a block being filled, or that of a pending `clear`.  That
`MaxSlots` exceeds the number of sectors and failures (`StackAssumption`) is no demand on the
code, whose image grows as needed; it keeps the model's slots from running out.

Induction over data is out of the prover's reach.  Facts about sequences that need it
are stated about functions on indexes and proved by a least counterexample (`LeastNat`,
`SmallestNat`),
and the models state the filters of the USB code and of the cache by the indexes they
keep (`Picked`).

Only model-checked: every liveness property, since TLAPS does not do fairness.  What
the theorems state is checked by TLC as well; `IdsLast`, `Divides` and `SciAlone`
hold in the instances.

## Not modelled

The repository has more than half a million lines, most of them graphics
translation, device register models, parsers and tools; the models here are of the
protocols between threads, messages and storage.  SMP start-up, virtio queues and the
audio ring are candidates for the same treatment.  `src/workers/cpu-worker.ts` is a
smoke harness that awaits each compile before the next, so that its call table meets
no interleaving.  The snapshot format, controllers, interpreter, graphics and the
network stack are sequential or pure data; `PROJECT.json` gives the reason for each.
Within modelled parts: statistics, metrics, logging, raw-pointer views, code
generation, the wrapping page spans of 16- and 32-bit code, timeouts of the
TypeScript ring; dirty rectangles, cursor and AeroGPU submissions; INIT, disabled
LAPICs, priorities, polarity and MSI; the device chooser, byte budgets and several
USB ports; `AeroSparseDisk` without an overlay and the other disk formats.

## Plan

1. *Done:* ring, wait lists, JIT runtime, scanout state, with the theorems above.
2. *Done:* framebuffer and presentation, interrupts and their lines, WebUSB, disks.
3. *Done:* proofs of the safety properties of the ring, the wait lists, the JIT runtime,
   the scanout state, presentation, interrupts, WebUSB and the disks.
4. `VirtioQueue` (wrapping indices, notification suppression), SMP start-up and IPIs on
   top of `PlatformInterrupts`, the audio ring.
