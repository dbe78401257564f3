------------------------------- MODULE Bridge -------------------------------
(***************************************************************************)
(* djmt1-bridge, one run of bridge/main.cpp: create the segment, open the  *)
(* device, start the engine, loop over libusb events, shut down.  It is    *)
(* composed of UsbDevice and IsoEngine, which share the bus.               *)
(*                                                                         *)
(* One thread runs main().  Between any two of its steps a signal can      *)
(* arrive, the device can be unplugged and the host controller can         *)
(* complete transfers.  A kill of the process is not part of this module.  *)
(***************************************************************************)
EXTENDS Naturals

CONSTANTS
  NumXfers, NumPackets, PacketSize, InLens, FrameSize, MaxBytes,  \* of IsoEngine
  MaxReplugs,   \* of UsbDevice
  EventErrors   \* may handling libusb events fail?

ASSUME SizeAssumption ==
  /\ NumXfers \in Nat \ {0}
  /\ NumPackets \in Nat \ {0}
  /\ PacketSize \in Nat \ {0}
  /\ InLens \subseteq Nat \ {0}
  /\ FrameSize \in Nat \ {0}
  /\ MaxBytes \in Nat
  /\ MaxReplugs \in Nat

ASSUME EventErrorsAssumption == EventErrors \in BOOLEAN

VARIABLES
  pc,         \* where main() is
  g_running,  \* static volatile sig_atomic_t g_running
  segment,    \* what the shared-memory name stands for
  mapped,     \* is the segment mapped?
  flags,      \* shm->flags
  heartbeat,  \* shm->heartbeat, one bit of it
  exit_code,  \* the value main() is going to return
  \* of UsbDevice
  open_pc, m_ctx, m_dev, m_interface_claimed, m_kernel_detached,
  contexts, handles, claims, driver, plugged, replugs,
  \* of IsoEngine
  m_running, start_pc, start_idx, xfer, stale, in_write_pos, sample_count,
  round, batch

Usb == INSTANCE UsbDevice
Engine == INSTANCE IsoEngine

shmVars == <<segment, mapped, flags, heartbeat>>
mainVars == <<pc, g_running, shmVars, exit_code>>
usbOwn == <<open_pc, m_ctx, m_dev, m_interface_claimed, m_kernel_detached,
            contexts, handles, claims, driver, replugs>>
engineOwn == <<m_running, start_pc, start_idx, xfer, stale, in_write_pos, sample_count,
               round, batch>>
vars == <<mainVars, usbOwn, plugged, engineOwn>>

Xfers == Engine!Xfers
NothingInFlight == \A x \in Xfers : xfer[x] \notin Engine!InFlight

Init ==
  /\ pc = "create"
  /\ g_running = TRUE
  /\ segment \in {"none", "stale"}
  /\ mapped = FALSE
  /\ flags = {}
  /\ heartbeat = 0
  /\ exit_code = 0
  /\ Usb!Init
  /\ Engine!Init

-----------------------------------------------------------------------------
(***************************************************************************)
(* Faulty variants of the steps below, one plausible slip each.            *)
(***************************************************************************)
\* Leaves STREAMING set on the way out.
ShutdownKeepsFlag ==
  /\ pc = "shutdown"
  /\ pc' = "stop"
  /\ UNCHANGED <<g_running, shmVars, exit_code, usbOwn, plugged, engineOwn>>

\* Closes the device first, then drains.
StopThenClose ==
  /\ pc = "stop"
  /\ Engine!Stop
  /\ Usb!Closed
  /\ pc' = "drain1"
  /\ UNCHANGED <<g_running, shmVars, exit_code, open_pc, replugs>>

\* Returns when the engine does not start, without removing the segment.
StartFailsKeepsSegment ==
  /\ pc = "starting" /\ start_pc = "failed"
  /\ exit_code' = 1
  /\ pc' = "unwind"
  /\ UNCHANGED <<g_running, shmVars, usbOwn, plugged, engineOwn>>

\* Enters the loop whatever Start() returns.
StreamsUnchecked ==
  /\ pc = "starting" /\ start_pc \in {"done", "failed"}
  /\ flags' = flags \cup {"STREAMING"}
  /\ pc' = "loop"
  /\ UNCHANGED <<g_running, segment, mapped, heartbeat, exit_code, usbOwn, plugged, engineOwn>>

\* Beats once, before the loop.
EnterRoundSilently ==
  /\ pc = "loop" /\ g_running /\ m_running
  /\ Engine!BeginRound
  /\ pc' = "events"
  /\ UNCHANGED <<g_running, shmVars, exit_code, usbOwn>>

-----------------------------------------------------------------------------
(***************************************************************************)
(* Steps 1 and 2: the segment and the device.                              *)
(***************************************************************************)

\* create_shared_memory unlinks whatever has the name, then creates it anew.
CreateSharedMemory ==
  /\ pc = "create"
  /\ segment' = "ours"
  /\ mapped' = TRUE
  /\ flags' = {}
  /\ heartbeat' = 0
  /\ pc' = "open"
  /\ UNCHANGED <<g_running, exit_code, usbOwn, plugged, engineOwn>>

\* shm_open, ftruncate or mmap fails: the name is gone all the same.
CreateFails ==
  /\ pc = "create"
  /\ segment' = "none"
  /\ exit_code' = 1
  /\ pc' = "exited"
  /\ UNCHANGED <<g_running, mapped, flags, heartbeat, usbOwn, plugged, engineOwn>>

BeginOpen ==
  /\ pc = "open"
  /\ Usb!InitLibusb
  /\ pc' = "opening"
  /\ UNCHANGED <<g_running, shmVars, exit_code, engineOwn>>

Opening ==
  /\ pc = "opening"
  /\ Usb!OpenStep
  /\ UNCHANGED <<mainVars, engineOwn>>

OpenFailed ==
  /\ pc = "opening" /\ open_pc = "idle" /\ ~m_dev
  /\ exit_code' = 1
  /\ pc' = "destroy"
  /\ UNCHANGED <<g_running, shmVars, usbOwn, plugged, engineOwn>>

AnnounceDevice ==
  /\ pc = "opening" /\ open_pc = "idle" /\ m_dev
  /\ flags' = flags \cup {"RUNNING", "DEVICE_OK"}
  /\ pc' = "boost"
  /\ UNCHANGED <<g_running, segment, mapped, heartbeat, exit_code, usbOwn, plugged, engineOwn>>

-----------------------------------------------------------------------------
(***************************************************************************)
(* Steps 3 and 4: boost level and engine.                                  *)
(***************************************************************************)

\* The result of SetBoostLevel is ignored; then Start() is called.
SetBoostLevel ==
  /\ pc = "boost"
  /\ Engine!BeginStart
  /\ pc' = "starting"
  /\ UNCHANGED <<g_running, shmVars, exit_code, usbOwn>>

Starting ==
  /\ pc = "starting"
  /\ Engine!StartStep
  /\ UNCHANGED <<mainVars, usbOwn>>

StartFailed ==
  /\ pc = "starting" /\ start_pc = "failed"
  /\ exit_code' = 1
  /\ pc' = "destroy"
  /\ UNCHANGED <<g_running, shmVars, usbOwn, plugged, engineOwn>>

AnnounceStreaming ==
  /\ pc = "starting" /\ start_pc = "done"
  /\ flags' = flags \cup {"STREAMING"}
  /\ pc' = "loop"
  /\ UNCHANGED <<g_running, segment, mapped, heartbeat, exit_code, usbOwn, plugged, engineOwn>>

-----------------------------------------------------------------------------
(***************************************************************************)
(* Step 5: the event loop.                                                 *)
(***************************************************************************)
EnterRound ==
  /\ pc = "loop" /\ g_running /\ m_running
  /\ heartbeat' = 1 - heartbeat
  /\ Engine!BeginRound
  /\ pc' = "events"
  /\ UNCHANGED <<g_running, segment, mapped, flags, exit_code, usbOwn>>

InRound ==
  /\ pc = "events"
  /\ Engine!RoundStep
  /\ UNCHANGED <<mainVars, usbOwn>>

RoundOver ==
  /\ pc = "events" /\ round = "none"
  /\ pc' = "loop"
  /\ UNCHANGED <<g_running, shmVars, exit_code, usbOwn, plugged, engineOwn>>

EventsFail ==
  /\ EventErrors
  /\ pc = "events"
  /\ Engine!EventsFail
  /\ pc' = "shutdown"
  /\ UNCHANGED <<g_running, shmVars, exit_code, usbOwn>>

LeaveLoop ==
  /\ pc = "loop" /\ ~(g_running /\ m_running)
  /\ pc' = "shutdown"
  /\ UNCHANGED <<g_running, shmVars, exit_code, usbOwn, plugged, engineOwn>>

-----------------------------------------------------------------------------
(***************************************************************************)
(* Step 6: shutdown.                                                       *)
(***************************************************************************)
Shutdown ==
  /\ pc = "shutdown"
  /\ flags' = flags \ {"STREAMING"}
  /\ pc' = "stop"
  /\ UNCHANGED <<g_running, segment, mapped, heartbeat, exit_code, usbOwn, plugged, engineOwn>>

StopEngine ==
  /\ pc = "stop"
  /\ Engine!Stop
  /\ pc' = "drain1"
  /\ UNCHANGED <<g_running, shmVars, exit_code, usbOwn>>

\* Two rounds, with timeouts of 1 s and 200 ms.  A transfer lasts 4 ms: either
\* round times out only if nothing is in flight.
BeginDrain ==
  /\ pc \in {"drain1", "drain2"}
  /\ Engine!BeginRound
  /\ pc' = IF pc = "drain1" THEN "draining1" ELSE "draining2"
  /\ UNCHANGED <<g_running, shmVars, exit_code, usbOwn>>

Draining ==
  /\ pc \in {"draining1", "draining2"}
  /\ Engine!RoundStep
  /\ Engine!TimeOut => NothingInFlight
  /\ UNCHANGED <<mainVars, usbOwn>>

DrainFails ==
  /\ EventErrors
  /\ pc \in {"draining1", "draining2"}
  /\ Engine!EventsFail
  /\ UNCHANGED <<mainVars, usbOwn>>

EndDrain ==
  /\ pc \in {"draining1", "draining2"} /\ round = "none"
  /\ pc' = IF pc = "draining1" THEN "drain2" ELSE "close"
  /\ UNCHANGED <<g_running, shmVars, exit_code, usbOwn, plugged, engineOwn>>

CloseDevice ==
  /\ pc = "close"
  /\ Usb!Close
  /\ pc' = "destroy"
  /\ UNCHANGED <<g_running, shmVars, exit_code, engineOwn>>

\* destroy_shared_memory.
DestroySharedMemory ==
  /\ pc = "destroy"
  /\ flags' = {}
  /\ mapped' = FALSE
  /\ segment' = "none"
  /\ pc' = "unwind"
  /\ UNCHANGED <<g_running, heartbeat, exit_code, usbOwn, plugged, engineOwn>>

\* main() returns: ~IsoEngine, if there is one, then ~USBDevice.
DestroyEngine ==
  /\ pc = "unwind"
  /\ Engine!Destroy
  /\ pc' = "unwound"
  /\ UNCHANGED <<g_running, shmVars, exit_code, usbOwn>>

DestroyDevice ==
  /\ pc = "unwound"
  /\ Usb!Close
  /\ pc' = "return"
  /\ UNCHANGED <<g_running, shmVars, exit_code, engineOwn>>

Return ==
  /\ pc = "return"
  /\ pc' = "exited"
  /\ UNCHANGED <<g_running, shmVars, exit_code, usbOwn, plugged, engineOwn>>

MainStep ==
  \/ CreateSharedMemory \/ CreateFails
  \/ BeginOpen \/ Opening \/ OpenFailed \/ AnnounceDevice
  \/ SetBoostLevel \/ Starting \/ StartFailed \/ AnnounceStreaming
  \/ EnterRound \/ InRound \/ RoundOver \/ EventsFail \/ LeaveLoop
  \/ Shutdown \/ StopEngine
  \/ BeginDrain \/ Draining \/ DrainFails \/ EndDrain
  \/ CloseDevice \/ DestroySharedMemory
  \/ DestroyEngine \/ DestroyDevice \/ Return

-----------------------------------------------------------------------------
(***************************************************************************)
(* The environment.                                                        *)
(***************************************************************************)

\* SIGINT or SIGTERM: signal_handler clears g_running.
Signal ==
  /\ g_running
  /\ pc # "exited"
  /\ g_running' = FALSE
  /\ UNCHANGED <<pc, shmVars, exit_code, usbOwn, plugged, engineOwn>>

Unplug ==
  /\ pc # "exited"
  /\ Engine!Unplug
  /\ UNCHANGED <<mainVars, usbOwn>>

HostCompletes(x) ==
  /\ Engine!HostCompletes(x)
  /\ UNCHANGED <<mainVars, usbOwn>>

Next == MainStep \/ Signal \/ Unplug \/ \E x \in Xfers : HostCompletes(x)

Spec == Init /\ [][Next]_vars

\* The thread of main() is scheduled, and the host controller completes what was
\* submitted.  Nothing forces a signal or an unplug.
FairSpec ==
  /\ Spec
  /\ WF_vars(MainStep)
  /\ \A x \in Xfers : WF_vars(HostCompletes(x))

-----------------------------------------------------------------------------
(***************************************************************************)
(* Properties.                                                             *)
(***************************************************************************)
\* The state of main() and of the two objects it drives has its types.
TypeOK ==
  /\ pc \in {"create", "open", "opening", "boost", "starting", "loop", "events",
             "shutdown", "stop", "drain1", "draining1", "drain2", "draining2",
             "close", "destroy", "unwind", "unwound", "return", "exited"}
  /\ g_running \in BOOLEAN
  /\ segment \in {"none", "stale", "ours"}
  /\ mapped \in BOOLEAN
  /\ flags \subseteq {"RUNNING", "DEVICE_OK", "STREAMING"}
  /\ heartbeat \in {0, 1}
  /\ exit_code \in {0, 1}
  /\ Usb!TypeOK
  /\ Engine!TypeOK

\* On every path out of main(), the early returns included, the process has
\* given back the device, its context, its interface and its kernel driver, has
\* freed every transfer, and has removed the segment.
ReleasedAtExit ==
  pc = "exited" =>
    /\ contexts = 0 /\ handles = 0 /\ claims = 0
    /\ driver # "detached"
    /\ \A x \in Xfers : xfer[x] = "null"
    /\ segment = "none" /\ ~mapped /\ flags = {}

\* The engine submits transfers and runs callbacks only on an open and claimed
\* device and a mapped segment: no handle, context or mapping is used after the
\* shutdown has released it.
EngineRunsOnLiveResources ==
  round # "none" \/ start_pc \in {"in", "out"} =>
    /\ m_ctx /\ m_dev /\ m_interface_claimed
    /\ mapped

\* The places of main() after Stop(), or past the need of it.
Stopped == {"drain1", "draining1", "drain2", "draining2", "close", "destroy",
            "unwind", "unwound", "return", "exited"}

\* From Stop() on nothing is submitted any more: what completes while main()
\* drains is called back and not resubmitted, so that no new transfer can be in
\* flight when the device is closed.
DrainsWithoutResubmitting ==
  [][(pc \in Stopped) =>
       \A x \in Xfers : xfer'[x] \in Engine!InFlight => xfer[x] \in Engine!InFlight]_vars

\* A signal or a disconnect, at whatever point of the run, ends the process.
EndsWhenAsked == ~g_running \/ ~plugged ~> pc = "exited"

\* While the loop runs the heartbeat changes again and again, even if no
\* transfer ever completes.
HeartbeatGoesOn ==
  \A beat \in {0, 1} :
    pc \in {"loop", "events"} /\ heartbeat = beat
      ~> heartbeat # beat \/ pc \notin {"loop", "events"}

\* The bridge shows the rest of the system the lifecycle it promises.
Status == INSTANCE BridgeStatus WITH
            claimed <- claims > 0,
            exit <- IF pc # "exited" THEN "alive"
                    ELSE IF exit_code = 0 THEN "success" ELSE "failure"
ImplementsStatus == Status!Spec

\* main() is a client of the engine as IsoEngine assumes it: it starts the engine
\* once, handles events only after Start() succeeded and in no other place of
\* its run, and neither stops nor destroys the engine inside a round.
UsesEngine == Engine!Spec

-----------------------------------------------------------------------------
(***************************************************************************)
(* The inductive strengthening of the safety properties.                   *)
(***************************************************************************)
Count(b) == IF b THEN 1 ELSE 0

\* The members of the device object mirror what libusb and the kernel hold, and
\* nothing is held of a device that is not open.
MirrorInv ==
  /\ contexts = Count(m_ctx) /\ handles = Count(m_dev) /\ claims = Count(m_interface_claimed)
  /\ driver = "detached" => m_kernel_detached
  /\ m_interface_claimed => m_dev
  /\ m_kernel_detached => m_dev

\* How far Open() has come.
OpenInv ==
  /\ open_pc \in {"idle", "find", "kernel", "claim", "alt"}
  /\ open_pc # "idle" => pc = "opening" /\ m_ctx
  /\ open_pc = "idle" => (m_ctx <=> m_dev) /\ (m_interface_claimed <=> m_dev)
  /\ open_pc = "find" => ~m_dev
  /\ open_pc \in {"kernel", "claim", "alt"} => m_dev
  /\ open_pc \in {"kernel", "claim"} => ~m_interface_claimed
  /\ open_pc = "alt" => m_interface_claimed

\* The phases of main(): before the device, with the device, with an engine that
\* was started, and after the segment is removed.
Before == {"create", "open"}
Streams == {"loop", "events", "shutdown", "stop", "drain1", "draining1", "drain2", "draining2",
            "close"}
Removed == {"unwind", "unwound", "return", "exited"}

\* When the device is open.
DevicePhase ==
  /\ pc \in Before \cup {"return", "exited"} => ~m_dev
  /\ pc \in Streams \cup {"boost", "starting"} => m_dev

\* What the engine is doing.
EnginePhase ==
  /\ pc \in Before \cup {"opening", "boost"} => start_pc = "new"
  /\ pc = "starting" => start_pc \in {"alloc", "in", "out", "done", "failed"}
  /\ start_pc \in {"alloc", "in", "out"} => pc = "starting"
  /\ pc \in Streams => start_pc = "done"
  /\ pc \in {"destroy", "unwind"} => start_pc \in {"new", "done", "failed"}
  /\ pc \in {"unwound", "return"} => start_pc = "destroyed"
  /\ pc = "exited" => start_pc \in {"new", "destroyed"}
  /\ round # "none" => pc \in {"events", "draining1", "draining2"}
  /\ pc \in {"create", "unwound", "return", "exited"} => \A x \in Xfers : xfer[x] = "null"

\* Whether the segment is there, and what its flags say.
SegmentPhase ==
  /\ mapped <=> pc \notin Removed \cup {"create"}
  /\ pc = "create" => segment \in {"none", "stale"}
  /\ mapped => segment = "ours"
  /\ pc \in Removed => segment = "none"
  /\ pc \in Before \cup {"opening"} \cup Removed => flags = {}
  /\ pc \in {"boost", "starting"} => flags = Status!Online
  /\ pc \in {"loop", "events", "shutdown"} => flags = Status!Streaming
  /\ pc \in Streams \ {"loop", "events", "shutdown"} => flags = Status!Online
  /\ pc = "destroy" => flags \in {{}, Status!Online}

IInv == MirrorInv /\ OpenInv /\ DevicePhase /\ EnginePhase /\ SegmentPhase

-----------------------------------------------------------------------------
(***************************************************************************)
(* Claims of the documentation that the code does not keep.                *)
(***************************************************************************)
\* "Stop streaming (cancel all transfers, must drain events after)": when the
\* device is closed no transfer is in flight or waiting for its callback.
DrainedBeforeClose ==
  pc = "close" => \A x \in Xfers : xfer[x] \in {"null", "idle"}

\* "restart on non-zero exit (device not found / disconnect)": a bridge whose
\* device is unplugged while it streams ends with a status that makes launchd
\* restart it, unless a signal asks it to end as well.
Streaming == pc \in {"loop", "events"} /\ m_running

DisconnectExitsNonZero ==
  Streaming /\ g_running /\ ~plugged ~> (pc = "exited" /\ exit_code # 0) \/ ~g_running

=============================================================================
