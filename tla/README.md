# A verification of djmt1-bridge and its plugin

TLA+ models of the DJM-T1 macOS driver: a user-space daemon (`djmt1-bridge`)
that streams isochronous USB transfers, a Core Audio HAL plugin that plays and
records through it, and the shared memory the two processes talk through. The
modules are model-checked with TLC on small instances, and theorems about them
are proved with TLAPS for every value of the constants.

Paths below are relative to the repository (`src/` stands for its root).

## 1. Inventory

### The system

```
 DJM-T1 --USB--> libusb --callbacks--> IsoEngine --IN ring--> IO handler --> Core Audio
        <------- libusb <--submit----- IsoEngine <-OUT ring-- IO handler <-- (HAL threads)
                       (djmt1-bridge, one thread)       (coreaudiod, plugin)
        launchd starts and restarts the bridge; djmt1-latency is a second client of both rings
```

| Component | State | Operations | Interacts with |
| --- | --- | --- | --- |
| Shared-memory rings, `bridge/shm_protocol.h` | two byte rings, four 64-bit positions, flags, heartbeat, sample count | `shm_init`, `shm_validate`, `shm_ring_write`, `shm_ring_read`, `shm_ring_available` | one producer and one consumer per ring, in different processes, without a lock |
| USB device object, `bridge/usb_device.*` | `m_ctx`, `m_dev`, `m_interface_claimed`, `m_kernel_detached` | `Open`, `Close`, vendor requests, destructor | libusb, the kernel driver of the interface, unplugging |
| Isochronous engine, `bridge/iso_engine.*` | `m_running`, transfers and buffers per direction, error counters | `Start`, `Stop`, `SubmitIn`, `SubmitOut`, the two completion handlers, destructor | libusb (the callbacks run inside `libusb_handle_events_timeout_completed`), both rings |
| Bridge daemon, `bridge/main.cpp` | `g_running`, the segment and its name, flags, heartbeat, exit status | create, open, start, event loop, shutdown, signal handler | device, engine, launchd (exit status), plugin (name, flags) |
| Plugin IO handler, `plugin/djmt1_io_handler.*` | `m_shm` (mapped segment) | `ConnectToShm`, `DisconnectFromShm`, `OnReadClientInput`, `OnWriteMixedOutput` | both rings, the name of the segment, Core Audio's IO threads |
| Plugin factory and control, `plugin/plugin_entry.cpp` | device and stream tables | `OnStartIO`, `OnStopIO`, factory | IO handler; libASPL (third party, not in the repository) |
| Latency tool, `tools/djmt1-latency.cpp` | a mapping of the segment, measurement state | loopback test, reports | both rings, next to the plugin |
| Isochronous test, `tools/djmt1-iso-test.c` | transfers of its own | standalone streaming | libusb |
| launchd job, install and package scripts, Makefiles, CI | - | restart policy, copying files | the bridge's exit status |

### What is hard, and what makes each component correct

* **Rings.** Two processes without a lock. The producer never looks at the
  consumer's position, so it may lap it between any two steps of a read; the
  consumer tests for that once, before it copies. Correct means: the positions
  never cross and never go back (the code subtracts unsigned 64-bit values), a
  read returns the data of the positions it consumes unless the producer
  overtook it, and a consumer that fell behind catches up.
* **Device object.** `Open` is a chain of six libusb calls, each of which can
  fail, with the device unplugged between any two. Correct means: no path leaks
  a context, handle or interface, or strands the kernel driver.
* **Engine.** Up to eight transfers complete in any order with any status;
  callbacks run only inside event handling; the retry of a submission can fail
  in the middle of `Start` or of a callback. Correct means: while it runs no
  transfer falls out of the cycle (the device needs both directions active),
  once stopped nothing is submitted and everything comes back, an OUT buffer
  never carries audio that was already played, and sample accounting never runs
  ahead of the data.
* **Daemon.** Signals, disconnects and completions arrive between any two steps
  of a run with three early returns. Correct means: every path out gives back
  everything, nothing is used after it was released, every signal or disconnect
  ends the process, and others see a sane sequence of flags.
* **Several runs together.** A bridge can be killed anywhere, two can start at the
  same time, each takes the name away from whoever has it, and the plugin stays
  mapped to the segment it found first. Correct means: no segment is ever
  initialised or written by two bridges, or reset while somebody has it mapped;
  a plugin that connects in the middle of an initialisation is none the worse; a
  plugin without a segment gets the bridge that streams; flags do not outlive
  what they announce.
* **Two clients on one ring.** The latency tool reads the IN ring and writes the
  OUT ring beside the plugin, with helpers made for one of each, and can ask for
  IO buffers longer than the ring. Correct means: the damage is not lasting.
* **Isochronous test.** Like the engine, but with one try per submission, a signal
  handler that interferes with callbacks, and `goto`s to three labels. Correct
  means: both directions stay active while it captures, nothing is submitted
  after the cancellation, all it holds is given back, and it ends.
* **Time** (4 ms bursts against IO buffers and a ring of 256 frames): see section 6.

`PROJECT.json` lists the hazards one by one, at their lines, with the properties
that cover them.

## 2. Modules

| Module | Models | State and actions |
| --- | --- | --- |
| `ShmRing` | one ring of `shm_protocol.h` with its producer and its consumer | each atomic load or store, and each unit moved by `memcpy`, is a step: `BeginWrite`, `CopyIn`, `EndWrite`; `BeginRead`, `DetectOverflow`, `SkipToWriter`, `ReturnEmpty`, `BeginCopy`, `CopyOut`, `EndRead`; `BeginResync`, `EndResync` for the jump to the write position in `ConnectToShm`. `wr` and `rd` hold the locals of the call in progress |
| `RingStream` | what a ring promises: a lossy stream | claim, publish, deliver, lose more than a ring, resynchronise; no slots, no buffers |
| `UsbDevice` | `Open`, `Close`, destructor | the four members (what the object believes), and beside them what libusb and the kernel really hold; one action per libusb call; the device may go at any time, and come back while no handle is open (to libusb it is then another device, and an old handle stays dead) |
| `IsoEngine` | the engine, and the part of libusb that drives it | `Start` transfer by transfer, `Submit` (with its retry), `Callback`, `Stop`, `Destroy`; `HostCompletes` and the rounds of event handling are the environment, among them the call that fails at once (`EventsFail`) |
| `Bridge` | one run of `main()` | `INSTANCE`s of `UsbDevice` and `IsoEngine` over shared variables (the bus is common), a program counter for `main()`, signals, disconnects; `main()` is the client that `IsoEngine` assumes (`UsesEngine`) |
| `BridgeStatus` | what the rest of the system sees of a run | name, flags, claim, exit |
| `Lifecycle` | several bridges one after the other and beside each other, launchd, the plugin, coreaudiod | the name and the segments as separate things (`name`, `sized`, `valid`, positions and flags per segment); the calls of `create_shared_memory` and the three phases of `shm_init` are steps (`ftruncate` and `mmap` succeed in one), and so are `shm_open`, then `mmap` with `shm_validate` and the load of `in_write_pos`, then the store of `in_read_pos` in `ConnectToShm`; of the rest of `main()` what others see, the claim of the interface and the flags that follow it in one step; `Kill` and `RestartCoreaudiod` at any point |
| `IsoTest` | `djmt1-iso-test`, all of it | a program counter with the three labels; callbacks in two steps, the decision to resubmit and the submission, with signals in between |
| `LatencyTool` | `djmt1-latency` amid the traffic of bridge and plugin | both rings with positions only, modulo `Word` (2^64); three clients, each with the locals of its call; `run_loopback_test` step by step |
| `ShmRing_proofs`, `UsbDevice_proofs`, `IsoEngine_proofs`, `Lifecycle_proofs`, `Bridge_proofs`, `IsoTest_proofs`, `LatencyTool_proofs` | theorems | section 5 |

How the data is abstracted:

* A unit of a ring stands for one byte and is named by the position it was
  written for. A slot that holds `u` holds the byte of position `u`, which is
  what the properties need to tell "the right data" from "data of another lap".
* `ring_bytes`, lengths and numbers of transfers are constants. Positions are
  natural numbers: 64-bit positions do not wrap within the life of a machine
  (at 768 kB/s that takes 760 000 years). Their *difference* could wrap if the
  consumer ever got ahead: that it cannot is `ConsumerBehindProducer`.
* Loads and stores are sequentially consistent steps. The acquire/release pairs
  of the code give that order for a position and the data below it. The copies
  themselves have no order: units are copied in any order.
* The engine's accesses to the rings are abstracted to the number of bytes they
  give or take; `ShmRing` models the accesses.
* `heartbeat` is a bit: only that it changes matters.
* `Lifecycle` has one ring per segment: the plugin connects to a segment as a
  whole, and resynchronises the IN ring only. A segment is named by the run that
  created it; there are never two with the same name.
* `LatencyTool` leaves the data out: whether what the tool reads is its impulse is
  a free choice. There the difference of two positions does wrap, so `Distance`
  is modulo `Word`; the bounds on `MaxPos` keep a wrapped difference larger than
  a ring, as 2^64 does.

In each module a section of *faulty variants* follows `Init`. They are not part
of the specification: each is one plausible slip, and is paired in
`PROJECT.json` with the property it breaks, as evidence that the property says
something about the code.

## 3. Runs

| Run | Bounds | Shows |
| --- | --- | --- |
| `ring` | capacity 3; writes of 1 to 3 units, reads of 2 or 4; 8 positions | all ring properties, with resynchronisation, and `RingStream` as its abstraction |
| `ring_torn` | capacity 3, 7 positions | finding 1 |
| `usb_device` | replugged up to 3 times | nothing leaks, the kernel driver is given back |
| `engine` | 2 transfers per direction, 2 packets each, packet lengths 0, 1 and 1.5 frames, 6 bytes in all | all engine properties |
| `bridge_safety` | 2 transfers per direction, every failure | release on every path, no use after release, nothing resubmitted while it drains, `BridgeStatus` as its abstraction, `main()` as a client of `IsoEngine` |
| `bridge_live` | 1 transfer per direction | termination and heartbeat |
| `bridge_drained` | 2 transfers per direction | finding 2 |
| `bridge_restart` | 1 transfer per direction; under `FairSpec` | finding 3 |
| `lifecycle` | 2 bridges, launchd's and another, 2 runs in all, 2 writes per run, coreaudiod restarted once | all properties of `Lifecycle` |
| `lifecycle_startio` | launchd's bridge only, the same bounds | finding 4 |
| `iso_test` | 2 transfers per direction, every failure | all properties of `IsoTest` |
| `latency` | capacity 2, packets of 1, IO buffers of 1 or 3, impulse and tool buffer of 1, one sleep, 3 positions | all properties of `LatencyTool` |

Why the bounds are enough. *Ring*: 8 positions over 3 slots let the producer lap
the consumer more than twice, within one read and between two, with transfers
that wrap and that do not; a read longer than the ring, a ring that is exactly
full and one that overflowed by a unit all occur. What the proofs of section 5
cover holds for every capacity anyway. *Engine*: two transfers per direction give
every order of two completions of one direction and of different directions, and
a `Start` that fails between two submissions; more transfers only add more of the
same, since no step looks at more than one transfer except `Stop` and the
destructor, which treat all alike. A packet of 3 bytes over frames of 2 makes a
packet end within a frame, and two such packets in one transfer are two rests
that must not be added up to a frame. `MaxBytes` only bounds the counters: at the
bound packets of length 0 still complete. *Bridge*: one run of `main()`; the bus
changes once (`MaxReplugs = 0`), as a device that comes back is not noticed by a
running bridge. `MaxPos` stops the producer; no property of the consumer relies
on the producer going on. *Lifecycle*: two runs are two that overlap, or one
after the other; a third adds a bridge that starts while two others are there,
which meets the name as the second did. Section 5 has the safety properties for
any number of runs and bridges. *IsoTest*: as for the engine. *LatencyTool*: a
ring of two frames overflows by a single IO buffer of 3, packets and impulse
wrap, and the tool's one impulse can be stored over any position of the plugin.

`CHECK_DEADLOCK FALSE` is used for the engine, the bridge and the test program,
which end (destroyed, exited), and for the latency tool, where the producers stop
at `MaxPos`.

### Fairness

* `ShmRing!FairSpec`: weak fairness of starting a read and of the steps of a
  read in progress. Core Audio calls the plugin once per IO cycle, and the
  engine reads for each OUT transfer it resubmits. No fairness of the producer
  and none of resynchronisation.
* `IsoEngine!FairSpec`: the host controller finishes each transfer it was given
  (a USB frame is 1 ms; an unplugged or cancelled transfer is returned with an
  error status), and the client keeps handling events, also after the engine
  stopped. `Drains` speaks of such a client. `main()` is one only as long as its
  loop runs: once `m_running` or `g_running` is clear it leaves the loop and runs
  two rounds more, which need not be enough (finding 2). Event handling may fail
  any number of times, but not each time that a completion waits for it (strong
  fairness of `Wake`): `main()` gives up at the first failure, in `Bridge`. Nobody
  has to stop the engine and the device may stay for ever.
* `Bridge!FairSpec`: the single thread of `main()` is scheduled, and the same
  assumption on the host controller. Signals and disconnects may never come.
* `Lifecycle!FairSpec`: a call of `ConnectToShm` goes on until it returns. Nothing
  is assumed of the bridges or of Core Audio's clients, which may never start IO
  and, once it runs, never stop it. `Connects` is therefore about a plugin whose
  IO is stopped while a bridge streams: either the next start of IO connects it,
  or IO is never started again, or the bridge stops or loses its name first.
* `IsoTest!FairSpec`: the only thread is scheduled and time passes. The host
  controller may keep every transfer for ever, as it may for a device that hangs:
  `Terminates` does not need it.
* `LatencyTool!FairSpec`: the bridge and the plugin finish the calls they are in
  (weak fairness) and keep reading, the bridge for each OUT transfer and the
  plugin for each IO cycle (strong fairness, since each is one thread that may
  be busy writing). Nothing is assumed of the tool: it may stop anywhere.

## 4. Where the code disagrees with its documentation

1. **A read can be torn** (`ring_torn`, `NeverTorn`). `shm_ring_read` tests for
   overflow before it copies, on a position loaded earlier. A write that begins
   after the test overwrites the slots being copied, and the caller gets data of
   a later lap with a non-zero count. The comment there promises silence.
   `IntactUnlessOverwritten` and `RingStream` say exactly what is left of the
   promise: a replaced byte comes from a later lap of the same slot.
2. **Two rounds do not drain** (`bridge_drained`, `DrainedBeforeClose`). After
   `Stop`, which says that events must be drained, `main()` handles events
   twice. Each call returns after the completions it woke up for.
3. **A disconnect is not restarted** (`bridge_restart`,
   `DisconnectExitsNonZero`). The launchd job says that it restarts on
   disconnect because the exit status is then non-zero; a disconnect while
   streaming makes `main()` return 0. The property starts from a device that is
   gone while the engine runs, and allows for a signal, which asks for the end as
   well; under `FairSpec` the run ends, and with 0.
4. **IO starts on an orphaned segment** (`lifecycle_startio`,
   `StartsOnLiveBridge`). The control handler says that it connects and
   disconnects shared memory on IO start and stop. `OnStopIO` keeps the mapping,
   and `OnStartIO` does not look again while it has one. After a restart of the
   bridge the plugin stays on the segment of the bridge before, whose name is
   gone, until coreaudiod is restarted. `Connects` says what is left: a plugin
   that has no segment finds the bridge at the next start of IO.

Further behaviours of the models that are worth knowing:

* A plugin whose IO already ran when the bridge came plays silence
  (`plugin/djmt1_io_handler.cpp:106`) for as long as its clients keep IO running:
  only `OnStartIO` and the factory call `ConnectToShm`.
* A bridge that starts, shuts down or fails to start unlinks the name whatever it
  stands for (`bridge/main.cpp:43` and `:81`; the comment at line 42 speaks of a
  stale segment). A bridge started by hand while launchd's streams takes its name
  away: the first goes on streaming and has the device, the second fails to claim
  it and removes its own name in turn, and no plugin finds the first any more.
  `LoneBridgeHasName` says what is left: without a rival a bridge keeps its name.
* When two rounds have not drained the engine (finding 2), `~IsoEngine` frees
  transfers that libusb has not returned, after `Close` has called `libusb_exit`.
  `EngineRunsOnLiveResources` is about submissions and callbacks, which need an
  event round or `Start`, and does not speak of the destructor.
* A transfer that comes back cancelled is dropped by both handlers, running or not.
  The models assume, as libusb's API states, that this status only answers a
  cancellation (`HostCompletes` of `IsoEngine` and `IsoTest`). `NoTransferDropped`,
  `BothDirectionsActive` and `EndsWhenAsked` rest on it: if a host returned
  every transfer as cancelled on its own, `main()` would not notice.
* The ring holds 256 frames, and the latency tool offers IO buffers of up to 4096.
  A write longer than the ring does not fit and publishes more than a ring, so the
  consumer skips all of it. `LatencyTool` has such buffers (`BufferSizes`), and
  `InputConsumed` and `OutputRecovers` say that the positions survive it; the
  audio does not.
* `djmt1-iso-test` drains with two rounds, too, and frees its transfers then, or
  after a submission that failed, wherever they are: no property says otherwise.
* A failed claim in `djmt1-iso-test` leaves by the label `cleanup`, which does not
  give back the kernel driver it detached: `GivenBackAtExit` speaks of a program
  that got the interface. `USBDevice::Open` does give it back (`DriverGivenBack`).

## 5. Proofs

`ShmRing_proofs` proves, for every capacity, all lengths and every number of
positions:

* `TypeCorrect`: `Spec => []TypeOK`.
* `PositionsInvariant`: `Spec => []PositionsInv`. `ConsumerBehindProducer` alone
  is not inductive: that the position stored by a skip, a read or a
  resynchronisation does not pass the producer depends on what the consumer
  loaded some steps before. `PositionsInv` adds what the locals of both calls
  in progress say about the shared positions: a writer's `wp` is still the
  published position (it is the only one to store it), a reader's `rp` is still
  its own position, a reader that is about to skip is more than a ring behind,
  and one that copies stays within what it loaded.
* `ConsumerNeverAhead` (`ConsumerBehindProducer`) and `PositionsNeverDecrease`
  (`PositionsMonotonic`) follow from it.
* `SlotsInvariant` and `CopiesIntact` (`IntactUnlessOverwritten`), for a
  producer whose writes are not longer than the ring (`WritesFit`, an
  assumption of the theorem that the module's constants need not satisfy: see
  the end of section 4). The invariant `SlotsInv` says that each position ever written is
  still in its slot, or replaced by one of a later lap, congruent modulo the
  capacity (`RingInv`), and the same of each unit already copied to the caller
  (`DstInv`). A unit that stands for position `q` lies between `q` and the end
  of what the producer claimed; if that end is at most a ring past `q`,
  congruence leaves only `q` itself.

The modular arithmetic is in lemmas of its own (`ModInSlots`, `ModUnique`,
`SameSlotDifference`, `SameSlotApart`, `SlotOfPosition`). `OffsetsAreSlots`
relates the code's split into two chunks to `(pos + i) % Cap`.

* `RingIsLossyStream` (`ImplementsStream`), under `WritesFit` too: the initial
  states and every step of `ShmRing` map to `RingStream`. A position is claimed
  when the write that covers it begins, published and consumed as the shared
  positions say, and the stream is connecting while a resynchronisation is
  between its load and its store. Loads and single copies are stutters. The one
  hard step is `EndRead`: that what it returns is a batch the stream may deliver
  is `DstInv`.

`UsbDevice_proofs` proves, for every number of replugs, `DeviceInvariant` and
from it `DeviceTypeCorrect`, `DeviceNothingLeaks` and `DeviceDriverGivenBack`.
That an idle object holds nothing is not inductive: what a failure of `Open`
must release depends on how far it came. `DeviceInv` says that the members
mirror what is held (`MembersMirrorHeld`), that nothing is held of a device that
is not open (`HeldOnlyWhileOpen`), and what each point of `Open` has acquired
(`OpenProgress`).

`IsoEngine_proofs` proves, for every number of transfers, packets and bytes:

* `EngineTypeCorrect` (`TypeOK`) and `SamplesNeverAhead` (`SamplesInStep`), whose
  counters grow by sums over the packets of a transfer. Induction is out of reach,
  so the lemmas on such sums (`Total`) go by a least counterexample. A nonempty
  set of naturals has a least element (`LeastElement`, from the library's theorem
  on well-founded relations); hence no number of packets is the first without a
  table of partial sums (`PartialSums`), the recursive function is the end of one
  (`TotalIsSum`), sums of naturals are naturals (`TotalType`), and what holds
  packet by packet holds of the sums (`TotalScales`, `TotalScalesExactly`).
* `WholeFramesCountedExactly`: if no packet ends in the middle of a frame,
  `sample_count` is exactly the number of frames written. So `SamplesInStep` is
  not just a safe bound: the code reaches it whenever it can.
* `TransfersStayInCycle` (`NoTransferDropped`), by `CycleInv` and `RoundInv`: the
  property speaks of an engine that is running, and holds there only because
  `Start` submits every transfer before any callback can run (`RoundInv`), and
  because no transfer is cancelled while `m_running` is set, not even between two
  submissions of `Start` (`CycleInv`, with `Submitted` for the progress of the
  loop).
* `StoppedForGood` (`StaysStopped`) and `SilenceWhereNothingCame`
  (`NothingPlayedTwice`), from the types and from lemmas on what a submission, a
  callback and a stop change (`SubmitResult`, `SubmitOutResult`,
  `CallbackResult`, `StoppedResult`).

`Lifecycle_proofs` proves, for any number of bridges, runs, positions and restarts
of coreaudiod, `LifecycleInvariant` (`Spec => []IInv`) and from it
`LifecycleTypeCorrect`, `SegmentsHaveOneProducer` (`OneProducer`),
`ConnectionsAreSound` (`ConnectedIsSound`), `StreamersHaveDevice`
(`StreamingHasDevice`), `LoneBridgesHaveNames` (`LoneBridgeHasName`),
`SegmentsNeverReset` (`NeverReset`) and `NoFlagsAreLeft` (`NoFlagsLeft`). `IInv`
adds to the properties:

* `SizedInv`: whoever is past `ftruncate` has a segment with a size, and a segment
  without one is as `shm_open` left it. Since a second `ftruncate` fails on macOS,
  the first to give the size is the only producer. This is what carries
  `OneProducer`: the missing `O_EXCL` alone would not exclude a second one.
* `StageInv`: how far the segment of each bridge is initialised (positions 0, no
  flags, no valid header before `WriteHeader`), and which flags it may carry. So
  the counters `shm_init` resets after the header is valid are 0 already, and a
  plugin that connects in between loses nothing (`NeverReset`).
* `SyncInv`: no read is in progress while `ConnectToShm` is between its load and
  its store, so the store does not move the position back.
* `AloneInv`: without a rival nobody else creates or removes the name.

Each part has a lemma (`SizedStep`, `StageStep`, ...) that says which other parts
it rests on, with one step per action.

`Bridge_proofs` proves, for any number of replugs, transfers and packets,
`BridgeInvariant` (`Spec => []IInv`) and from it `BridgeReleasesAll`
(`ReleasedAtExit`), `EngineRunsSafely` (`EngineRunsOnLiveResources`) and
`BridgeImplementsStatus` (`ImplementsStatus`). None of the three is inductive: that
nothing is held at exit depends on which of `main()`'s returns was taken and on
what had been acquired by then. `IInv` says it place by place:

* `MirrorInv`, `OpenInv`: the members of the device object mirror what is held of
  the device, and what `Open` has acquired at each of its steps; `Open` is in
  progress only while `main()` is in it.
* `DevicePhase`: at which places the device is not open (before `Open`, at the
  end) and at which it is (from `SetBoostLevel` to `Close`).
* `EnginePhase`: how far `Start` has come at each place, in particular that it
  succeeded wherever events are handled; that a round of event handling is under
  way only in the loop and the two draining calls; and that no transfer exists
  before the engine and after its destructor.
* `SegmentPhase`: from `create_shared_memory` to `destroy_shared_memory` the
  segment is mapped, and its flags say what the device is doing.

The steps are grouped by what they touch (`PlainStep`, `EngineStep`, `DeviceStep`,
`CreateStep` and `Outside`), so that a part of `IInv` needs one case for each group
that can disturb it. The refinement goes through the same groups: an engine step
is a stutter of `BridgeStatus`, and each step of `main()` that sets or clears a
flag, opens or closes the device is one step of it.

The same module composes. `BridgeUsesEngine` (`UsesEngine`) and `BridgeUsesDevice`
say that every step of the bridge is a step of `IsoEngine`, and of `UsbDevice`, or
leaves their variables alone: `main()` handles events only after `Start` succeeded
and stops and destroys the engine only outside a round (`EnginePhase`). So what
is proved of the parts holds of the whole: `EngineCorrectInBridge`,
`EngineStaysStopped` and `DeviceCorrectInBridge` instantiate the theorems of
`IsoEngine_proofs` and `UsbDevice_proofs`, and with them `BridgeTypeCorrect`
(`TypeOK`) needs only the types of `main()`'s own variables.

`ShutdownSubmitsNothing` (`DrainsWithoutResubmitting`) needs both levels. That
nothing is submitted past `Stop` follows if `m_running` is clear there
(`StoppedInv`). `Stop` clears it; but the early return after a failed `Start` does
not call `Stop`, and there `m_running` is clear because an engine that is new or
failed does not run, which is part of the engine's `CycleInv`, carried over by
`EngineCycleInBridge`.

`IsoTest_proofs` proves, for any number of transfers, `IsoTestInvariant`
(`Spec => []IInv`) and from it `IsoTestTypeCorrect`, `CaptureKeepsBothDirections`
(`BothDirectionsActive`), `DrainSubmitsNothing` (`NothingFliesOn`) and
`IsoTestGivesBack` (`GivenBackAtExit`). `CycleInv` adds how far the two submissions
of each index have come, and that nothing is cancelled before `StopCapture`: without
it a completion could come back cancelled in the loop and drop out. `RoundInv` says
that a callback runs only in a round and that one runs at a time, so that none is
between its test of `g_running` and its submission when `StopCapture` clears it.
`HeldInv` says which labels a failure may jump to with what in hand.

`LatencyTool_proofs` proves, for all capacities, lengths and numbers of positions,
`LatencyInvariant` (`Spec => []IInv`), `LatencyTypeCorrect` and
`ConsumersStayBehindInput` (`NeverAheadOfInput`). `CallsInv` bounds what a call in
progress will store by what it has loaded. The argument turns on `DistanceWraps`: a
difference of positions that wraps is larger than any ring, so the read that meets
it skips to the position it loaded and copies nothing.

The proofs assume what the modules' `ASSUME`s say of the constants: positive
sizes and numbers, natural bounds.

Only model-checked: the eight liveness properties (`EverythingConsumed`, `Drains`,
`EndsWhenAsked`, `HeartbeatGoesOn`, `Connects`, `Terminates`, `OutputRecovers`,
`InputConsumed`), since liveness under fairness is out of the prover's reach, and
the four claims of the documentation that the code does not keep. Every invariant
and every action property of a run is proved, and both refinements.

## 6. Not modelled

* Time: how full a ring of 256 frames gets between bursts of 192 frames and IO
  buffers of up to 256, and the drift of the two clocks. The code has no logic
  for either; what it does when a ring runs over or empty is in `ShmRing`.
* The latency report and the statistics of the segment that the latency tool
  prints: they load and print. (The loads are not a snapshot: a printed fill may
  wrap. Nothing depends on it.)
* Vendor requests: `SetBoostLevel` is a step of `Bridge` whose result is ignored;
  the others have no caller.
* 24-bit sample conversion and report formatting: what the impulse looks like and
  whether a sample exceeds the threshold is a free choice in `LatencyTool`.
* The life cycle with more than one plugin: coreaudiod loads one.
* Memory ordering weaker than sequential consistency (see section 2).
* libASPL is an empty submodule: Core Audio's calls are the environment.
* Shell scripts, Makefiles, CI, property tables: sequential or static.

## 7. Plan

1. *Done*: `ShmRing` with `RingStream`; `UsbDevice`; `IsoEngine`; `Bridge` with
   `BridgeStatus`; `Lifecycle`; `IsoTest`; `LatencyTool`; the proofs above.
2. Next for the proofs: that a run of `Bridge` is what `Lifecycle` takes one run to
   be, so that the two views of `main()` are one; that `ShmRing` delivers the stream
   without a gap to a reader that is never more than a ring behind.
3. `Pacing`, the fill of a ring in discrete time, if a later version of the code
   gets logic that depends on it.
