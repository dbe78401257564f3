--------------------------- MODULE Bridge_proofs ---------------------------
(***************************************************************************)
(* Proofs about Bridge, for any number of transfers and any packets: main  *)
(* gives everything back on every path, nothing is used after its release, *)
(* and what others see of a run is BridgeStatus.  The invariant relates    *)
(* the place main() is at with the state of the device, of the engine and  *)
(* of the segment; each of these parts has a lemma of its own.  The last   *)
(* part shows that main() uses the two objects as their modules assume,    *)
(* which carries the theorems about them over to the bridge.               *)
(***************************************************************************)
EXTENDS Bridge, TLAPS

\* The steps of main() that leave the device object alone, by what they change.
PlainStep ==
  \/ OpenFailed \/ AnnounceDevice \/ StartFailed \/ AnnounceStreaming
  \/ RoundOver \/ LeaveLoop \/ Shutdown \/ EndDrain \/ DestroySharedMemory \/ Return
EngineStep ==
  \/ SetBoostLevel \/ Starting \/ EnterRound \/ InRound \/ EventsFail
  \/ StopEngine \/ BeginDrain \/ Draining \/ DrainFails \/ DestroyEngine
DeviceStep == BeginOpen \/ Opening \/ CloseDevice \/ DestroyDevice
CreateStep == CreateSharedMemory \/ CreateFails
Outside == Signal \/ Unplug \/ \E x \in Xfers : HostCompletes(x)

\* There are no other steps.
LEMMA NextIsOfAKind ==
  Next <=> PlainStep \/ EngineStep \/ DeviceStep \/ CreateStep \/ Outside
  BY DEF Next, MainStep, PlainStep, EngineStep, DeviceStep, CreateStep, Outside

\* Initially nothing is held and main() is about to begin.
LEMMA InvInit == Init => IInv
  <1> SUFFICES ASSUME Init PROVE IInv
    OBVIOUS
  <1>1. MirrorInv /\ OpenInv
    BY DEF Init, Usb!Init, MirrorInv, OpenInv, Count
  <1>2. DevicePhase /\ EnginePhase
    BY DEF Init, Usb!Init, Engine!Init, DevicePhase, EnginePhase, Before, Streams, Xfers,
         Engine!Xfers
  <1>3. SegmentPhase
    BY DEF Init, SegmentPhase, Before, Streams, Removed
  <1>4. QED
    BY <1>1, <1>2, <1>3 DEF IInv

-----------------------------------------------------------------------------
(***************************************************************************)
(* The device.                                                             *)
(***************************************************************************)
\* Only Open() and Close() touch the device object.
LEMMA OthersLeaveDevice ==
  ASSUME PlainStep \/ EngineStep \/ CreateStep \/ Outside
  PROVE  UNCHANGED usbOwn
  <1>1. CASE PlainStep
    BY <1>1 DEF PlainStep, OpenFailed, AnnounceDevice, StartFailed, AnnounceStreaming,
         RoundOver, LeaveLoop, Shutdown, EndDrain, DestroySharedMemory, Return
  <1>2. CASE EngineStep
    BY <1>2 DEF EngineStep, SetBoostLevel, Starting, EnterRound, InRound, EventsFail,
         StopEngine, BeginDrain, Draining, DrainFails, DestroyEngine
  <1>3. CASE CreateStep
    BY <1>3 DEF CreateStep, CreateSharedMemory, CreateFails
  <1>4. CASE Outside
    BY <1>4 DEF Outside, Signal, Unplug, HostCompletes
  <1>5. QED
    BY <1>1, <1>2, <1>3, <1>4

\* Close() releases all that is held, from every point of Open().
LEMMA ClosedReleasesAll ==
  ASSUME MirrorInv, Usb!Closed
  PROVE  /\ contexts' = 0 /\ handles' = 0 /\ claims' = 0 /\ driver' # "detached"
         /\ ~m_ctx' /\ ~m_dev' /\ ~m_interface_claimed' /\ ~m_kernel_detached'
  <1>1. contexts' = 0 /\ handles' = 0 /\ ~m_ctx' /\ ~m_dev'
    BY DEF MirrorInv, Count, Usb!Closed
  <1>2. claims' = 0
    BY DEF MirrorInv, Count, Usb!Closed
  <1>3. driver' # "detached"
    BY DEF MirrorInv, Usb!Closed
  <1>4. ~m_interface_claimed' /\ ~m_kernel_detached'
    BY DEF MirrorInv, Usb!Closed
  <1>5. QED
    BY <1>1, <1>2, <1>3, <1>4

\* Every step of the object keeps its members in agreement with what is held.
LEMMA MirrorStep ==
  ASSUME MirrorInv, OpenInv, [Next]_vars
  PROVE  MirrorInv'
  <1>1. CASE UNCHANGED usbOwn
    BY <1>1 DEF MirrorInv, Count, usbOwn
  <1>2. CASE Usb!Closed
    BY <1>2, ClosedReleasesAll DEF MirrorInv, Count
  <1>3. CASE Usb!InitLibusb
    BY <1>3 DEF Usb!InitLibusb, MirrorInv, OpenInv, Count
  <1>4. CASE Usb!Find
    BY <1>4 DEF Usb!Find, MirrorInv, OpenInv, Count
  <1>5. CASE Usb!NotFound
    BY <1>5 DEF Usb!NotFound, MirrorInv, OpenInv, Count
  <1>6. CASE Usb!NoKernelDriver
    BY <1>6 DEF Usb!NoKernelDriver, Usb!members, Usb!held, MirrorInv, Count
  <1>7. CASE Usb!DetachKernelDriver
    BY <1>7 DEF Usb!DetachKernelDriver, MirrorInv, OpenInv, Count
  <1>8. CASE Usb!Claim
    BY <1>8 DEF Usb!Claim, MirrorInv, OpenInv, Count
  <1>9. CASE Usb!SetAltSetting
    BY <1>9 DEF Usb!SetAltSetting, Usb!members, Usb!held, MirrorInv, Count
  <1>10. CASE UNCHANGED vars
    BY <1>10, <1>1 DEF vars
  <1>11. QED
    BY <1>1, <1>2, <1>3, <1>4, <1>5, <1>6, <1>7, <1>8, <1>9, <1>10, OthersLeaveDevice,
       NextIsOfAKind
       DEF DeviceStep, BeginOpen, Opening, CloseDevice, DestroyDevice, Usb!OpenStep,
       Usb!OpenFails, Usb!Close

\* Open() runs only where main() calls it, and acquires in order.
LEMMA OpenStep ==
  ASSUME MirrorInv, OpenInv, [Next]_vars
  PROVE  OpenInv'
  <1>1. CASE UNCHANGED <<pc, usbOwn>>
    BY <1>1 DEF OpenInv, usbOwn
  <1>2. CASE PlainStep \/ EngineStep \/ CreateStep \/ Outside
    <2>1. pc = "opening" /\ open_pc # "idle" => pc' = "opening"
      BY <1>2 DEF PlainStep, OpenFailed, AnnounceDevice, StartFailed, AnnounceStreaming,
           RoundOver, LeaveLoop, Shutdown, EndDrain, DestroySharedMemory, Return,
           EngineStep, SetBoostLevel, Starting, EnterRound, InRound, EventsFail,
           StopEngine, BeginDrain, Draining, DrainFails, DestroyEngine,
           CreateStep, CreateSharedMemory, CreateFails,
           Outside, Signal, Unplug, HostCompletes, mainVars
    <2>2. QED
      BY <1>2, <2>1, OthersLeaveDevice DEF OpenInv, usbOwn
  <1>3. CASE BeginOpen
    BY <1>3 DEF BeginOpen, Usb!InitLibusb, OpenInv, MirrorInv
  <1>4. CASE Opening /\ Usb!Find
    BY <1>4 DEF Opening, Usb!Find, OpenInv, MirrorInv, mainVars
  <1>5. CASE Opening /\ Usb!NotFound
    BY <1>5 DEF Opening, Usb!NotFound, OpenInv, MirrorInv, mainVars
  <1>6. CASE Opening /\ Usb!NoKernelDriver
    BY <1>6 DEF Opening, Usb!NoKernelDriver, Usb!members, OpenInv, mainVars
  <1>7. CASE Opening /\ Usb!DetachKernelDriver
    BY <1>7 DEF Opening, Usb!DetachKernelDriver, OpenInv, mainVars
  <1>8. CASE Opening /\ Usb!Claim
    BY <1>8 DEF Opening, Usb!Claim, OpenInv, mainVars
  <1>9. CASE Opening /\ Usb!SetAltSetting
    BY <1>9 DEF Opening, Usb!SetAltSetting, Usb!members, OpenInv, mainVars
  <1>10. CASE Usb!Closed /\ open_pc' = "idle"
    BY <1>10, ClosedReleasesAll DEF OpenInv
  <1>11. CASE UNCHANGED vars
    BY <1>11, <1>1 DEF vars, mainVars
  <1>12. QED
    BY <1>2, <1>3, <1>4, <1>5, <1>6, <1>7, <1>8, <1>9, <1>10, <1>11, NextIsOfAKind
       DEF DeviceStep, Opening, CloseDevice, DestroyDevice, Usb!OpenStep, Usb!OpenFails,
       Usb!Close, OpenInv

\* main() passes the open only with a device, and returns without one.
LEMMA DevicePhaseStep ==
  ASSUME MirrorInv, OpenInv, DevicePhase, [Next]_vars
  PROVE  DevicePhase'
  <1> USE DEF DevicePhase, Before, Streams
  <1>1. CASE PlainStep
    <2>1. m_dev' = m_dev
      BY <1>1, OthersLeaveDevice DEF usbOwn
    <2>2. QED
      BY <1>1, <2>1 DEF PlainStep, OpenFailed, AnnounceDevice, StartFailed, AnnounceStreaming,
         RoundOver, LeaveLoop, Shutdown, EndDrain, DestroySharedMemory, Return
  <1>2. CASE EngineStep
    <2>1. m_dev' = m_dev
      BY <1>2, OthersLeaveDevice DEF usbOwn
    <2>2. QED
      BY <1>2, <2>1 DEF EngineStep, SetBoostLevel, Starting, EnterRound, InRound, EventsFail,
         StopEngine, BeginDrain, Draining, DrainFails, DestroyEngine, mainVars
  <1>3. CASE CreateStep
    BY <1>3 DEF CreateStep, CreateSharedMemory, CreateFails, usbOwn
  <1>4. CASE Outside
    BY <1>4 DEF Outside, Signal, Unplug, HostCompletes, usbOwn, mainVars
  <1>5. CASE BeginOpen
    BY <1>5 DEF BeginOpen
  <1>6. CASE Opening
    BY <1>6 DEF Opening, mainVars
  <1>7. CASE CloseDevice
    BY <1>7 DEF CloseDevice
  <1>8. CASE DestroyDevice
    BY <1>8, ClosedReleasesAll DEF DestroyDevice, Usb!Close
  <1>9. CASE UNCHANGED vars
    BY <1>9 DEF vars, mainVars, usbOwn
  <1>10. QED
    BY <1>1, <1>2, <1>3, <1>4, <1>5, <1>6, <1>7, <1>8, <1>9, NextIsOfAKind DEF DeviceStep

-----------------------------------------------------------------------------
(***************************************************************************)
(* The engine.                                                             *)
(***************************************************************************)
\* Only the engine's own steps and the host touch it.
LEMMA OthersLeaveEngine ==
  ASSUME PlainStep \/ DeviceStep \/ CreateStep
  PROVE  UNCHANGED engineOwn
  BY DEF PlainStep, OpenFailed, AnnounceDevice, StartFailed, AnnounceStreaming,
     RoundOver, LeaveLoop, Shutdown, EndDrain, DestroySharedMemory, Return,
     DeviceStep, BeginOpen, Opening, CloseDevice, DestroyDevice,
     CreateStep, CreateSharedMemory, CreateFails

\* Start() is at work only in its place, a round is only in a loop that handles
\* events, and nothing is allocated before and after.
LEMMA EnginePhaseStep ==
  ASSUME EnginePhase, [Next]_vars
  PROVE  EnginePhase'
  <1> USE DEF EnginePhase, Before, Streams
  <1>1. CASE PlainStep
    <2>1. UNCHANGED <<start_pc, round, xfer>>
      BY <1>1, OthersLeaveEngine DEF engineOwn
    <2>2. QED
      BY <1>1, <2>1 DEF PlainStep, OpenFailed, AnnounceDevice, StartFailed, AnnounceStreaming,
         RoundOver, LeaveLoop, Shutdown, EndDrain, DestroySharedMemory, Return, Xfers, Engine!Xfers
  <1>2. CASE DeviceStep
    <2>1. UNCHANGED <<start_pc, round, xfer>>
      BY <1>2, OthersLeaveEngine DEF engineOwn
    <2>2. QED
      BY <1>2, <2>1 DEF DeviceStep, BeginOpen, Opening, CloseDevice, DestroyDevice, mainVars
  <1>3. CASE CreateStep
    BY <1>3 DEF CreateStep, CreateSharedMemory, CreateFails, engineOwn
  <1>4. CASE SetBoostLevel
    BY <1>4 DEF SetBoostLevel, Engine!BeginStart, Engine!eventVars
  <1>5. CASE Starting
    BY <1>5 DEF Starting, Engine!StartStep, Engine!Allocate, Engine!AllocateFails,
       Engine!StartIn, Engine!StartOut, Engine!eventVars, mainVars
  <1>6. CASE EnterRound
    BY <1>6 DEF EnterRound, Engine!BeginRound, Engine!engineVars
  <1>7. CASE InRound \/ Draining
    <2>1. UNCHANGED <<pc, start_pc>>
      BY <1>7 DEF InRound, Draining, mainVars, Engine!RoundStep, Engine!Wake, Engine!TimeOut,
         Engine!EndRound, Engine!Callback, Engine!engineVars
    <2>2. pc \in {"events", "draining1", "draining2"}
      BY <1>7 DEF InRound, Draining
    <2>3. QED
      BY <2>1, <2>2
  <1>8. CASE EventsFail \/ DrainFails
    BY <1>8 DEF EventsFail, DrainFails, Engine!EventsFail, Engine!engineVars, mainVars
  <1>9. CASE StopEngine
    BY <1>9 DEF StopEngine, Engine!Stop, Engine!eventVars
  <1>10. CASE BeginDrain
    BY <1>10 DEF BeginDrain, Engine!BeginRound, Engine!engineVars
  <1>11. CASE DestroyEngine
    BY <1>11 DEF DestroyEngine, Engine!Destroy, Engine!eventVars, Xfers
  <1>12. CASE Signal
    BY <1>12 DEF Signal, engineOwn
  <1>13. CASE Unplug
    BY <1>13 DEF Unplug, Engine!Unplug, Engine!engineVars, Engine!eventVars, mainVars
  <1>14. ASSUME NEW x \in Xfers, HostCompletes(x) PROVE EnginePhase'
    <2>1. xfer[x] # "null"
      BY <1>14 DEF HostCompletes, Engine!HostCompletes, Engine!InFlight
    <2>2. UNCHANGED <<pc, start_pc, round>>
      BY <1>14 DEF HostCompletes, Engine!HostCompletes, Engine!eventVars, mainVars
    <2>3. QED
      BY <2>1, <2>2
  <1>15. CASE UNCHANGED vars
    BY <1>15 DEF vars, mainVars, engineOwn
  <1>16. QED
    BY <1>1, <1>2, <1>3, <1>4, <1>5, <1>6, <1>7, <1>8, <1>9, <1>10, <1>11, <1>12, <1>13,
       <1>14, <1>15, NextIsOfAKind DEF EngineStep, Outside

-----------------------------------------------------------------------------
(***************************************************************************)
(* The segment.                                                            *)
(***************************************************************************)
\* The flags follow the device and the engine, and go before the name does.
LEMMA SegmentPhaseStep ==
  ASSUME SegmentPhase, [Next]_vars
  PROVE  SegmentPhase'
  <1> USE DEF SegmentPhase, Before, Streams, Removed, shmVars, mainVars, Status!Online,
          Status!Streaming
  <1>1. CASE OpenFailed \/ AnnounceDevice \/ StartFailed \/ AnnounceStreaming
    BY <1>1 DEF OpenFailed, AnnounceDevice, StartFailed, AnnounceStreaming
  <1>2. CASE RoundOver \/ LeaveLoop \/ Shutdown
    BY <1>2 DEF RoundOver, LeaveLoop, Shutdown
  <1>3. CASE EndDrain \/ DestroySharedMemory \/ Return
    BY <1>3 DEF EndDrain, DestroySharedMemory, Return
  <1>4. CASE SetBoostLevel \/ Starting \/ EnterRound \/ InRound \/ EventsFail
    BY <1>4 DEF SetBoostLevel, Starting, EnterRound, InRound, EventsFail
  <1>5. CASE StopEngine \/ BeginDrain \/ Draining \/ DrainFails \/ DestroyEngine
    BY <1>5 DEF StopEngine, BeginDrain, Draining, DrainFails, DestroyEngine
  <1>6. CASE DeviceStep
    BY <1>6 DEF DeviceStep, BeginOpen, Opening, CloseDevice, DestroyDevice
  <1>7. CASE CreateStep
    BY <1>7 DEF CreateStep, CreateSharedMemory, CreateFails
  <1>8. CASE Outside
    BY <1>8 DEF Outside, Signal, Unplug, HostCompletes
  <1>9. CASE UNCHANGED vars
    BY <1>9 DEF vars
  <1>10. QED
    BY <1>1, <1>2, <1>3, <1>4, <1>5, <1>6, <1>7, <1>8, <1>9, NextIsOfAKind
       DEF PlainStep, EngineStep

-----------------------------------------------------------------------------
(***************************************************************************)
(* The theorems.                                                           *)
(***************************************************************************)
\* What each place of main() implies for the device, the engine and the segment
\* is an invariant of every run.
THEOREM BridgeInvariant == Spec => []IInv
  <1>1. IInv /\ [Next]_vars => IInv'
    BY MirrorStep, OpenStep, DevicePhaseStep, EnginePhaseStep, SegmentPhaseStep DEF IInv
  <1>2. QED
    BY <1>1, InvInit, PTL DEF Spec

\* On every path out of main() the process has given back the device, its
\* context, its interface and its kernel driver, its transfers and the segment.
THEOREM BridgeReleasesAll == Spec => []ReleasedAtExit
  <1>1. IInv => ReleasedAtExit
    <2> SUFFICES ASSUME IInv, pc = "exited" PROVE ReleasedAtExit
      BY DEF ReleasedAtExit
    <2>1. ~m_dev /\ open_pc = "idle"
      BY DEF IInv, DevicePhase, OpenInv
    <2>2. ~m_ctx /\ ~m_interface_claimed /\ ~m_kernel_detached
      BY <2>1 DEF IInv, OpenInv, MirrorInv
    <2>3. contexts = 0 /\ handles = 0 /\ claims = 0 /\ driver # "detached"
      BY <2>1, <2>2 DEF IInv, MirrorInv, Count
    <2>4. \A x \in Xfers : xfer[x] = "null"
      BY DEF IInv, EnginePhase
    <2>5. segment = "none" /\ ~mapped /\ flags = {}
      BY DEF IInv, SegmentPhase, Removed
    <2>6. QED
      BY <2>3, <2>4, <2>5 DEF ReleasedAtExit
  <1>2. QED
    BY <1>1, BridgeInvariant, PTL

\* The engine submits and calls back only on an open and claimed device and a
\* mapped segment.
THEOREM EngineRunsSafely == Spec => []EngineRunsOnLiveResources
  <1>1. IInv => EngineRunsOnLiveResources
    <2> SUFFICES ASSUME IInv, round # "none" \/ start_pc \in {"in", "out"}
                 PROVE  m_ctx /\ m_dev /\ m_interface_claimed /\ mapped
      BY DEF EngineRunsOnLiveResources
    <2>1. pc \in {"starting", "events", "draining1", "draining2"}
      BY DEF IInv, EnginePhase, Before, Streams, Removed, DevicePhase, SegmentPhase
    <2>2. m_dev /\ open_pc = "idle"
      BY <2>1 DEF IInv, DevicePhase, OpenInv, Streams
    <2>3. m_ctx /\ m_interface_claimed
      BY <2>2 DEF IInv, OpenInv
    <2>4. mapped
      BY <2>1 DEF IInv, SegmentPhase, Removed
    <2>5. QED
      BY <2>2, <2>3, <2>4
  <1>2. QED
    BY <1>1, BridgeInvariant, PTL

-----------------------------------------------------------------------------
(***************************************************************************)
(* The refinement of BridgeStatus.                                         *)
(***************************************************************************)
\* What launchd sees, as Bridge maps it to BridgeStatus.
Exit == IF pc # "exited" THEN "alive" ELSE IF exit_code = 0 THEN "success" ELSE "failure"

\* A step others see nothing of.
LEMMA Unseen ==
  ASSUME UNCHANGED <<segment, flags, claims>>, Exit' = Exit
  PROVE  UNCHANGED Status!statusVars
  BY DEF Status!statusVars, Exit

\* Every step of the bridge is a step of its status, or none.
LEMMA StatusStep ==
  ASSUME IInv, IInv', [Next]_vars
  PROVE  [Status!Next]_(Status!statusVars)
  <1> USE DEF Status!Next, IInv, SegmentPhase, Before, Streams, Removed, Status!Online,
          Status!Streaming
  <1>1. CASE OpenFailed \/ StartFailed \/ RoundOver \/ LeaveLoop \/ EndDrain
    <2>1. UNCHANGED <<segment, flags, claims>>
      BY <1>1 DEF OpenFailed, StartFailed, RoundOver, LeaveLoop, EndDrain, shmVars, usbOwn
    <2>2. Exit = "alive" /\ Exit' = "alive"
      BY <1>1 DEF OpenFailed, StartFailed, RoundOver, LeaveLoop, EndDrain, Exit
    <2>3. QED
      BY <2>1, <2>2, Unseen
  <1>2. CASE EngineStep
    <2>1. UNCHANGED <<segment, flags, claims>>
      BY <1>2, OthersLeaveDevice DEF EngineStep, SetBoostLevel, Starting, EnterRound, InRound,
         EventsFail, StopEngine, BeginDrain, Draining, DrainFails, DestroyEngine, shmVars,
         mainVars, usbOwn
    <2>2. Exit = "alive" /\ Exit' = "alive"
      BY <1>2 DEF EngineStep, SetBoostLevel, Starting, EnterRound, InRound, EventsFail,
         StopEngine, BeginDrain, Draining, DrainFails, DestroyEngine, mainVars, Exit
    <2>3. QED
      BY <2>1, <2>2, Unseen
  <1>3. CASE Outside
    <2>1. UNCHANGED <<segment, flags, claims, pc, exit_code>>
      BY <1>3 DEF Outside, Signal, Unplug, HostCompletes, shmVars, mainVars, usbOwn
    <2>2. QED
      BY <2>1, Unseen DEF Exit
  <1>4. CASE AnnounceDevice
    <2>1. claims = 1
      BY <1>4 DEF AnnounceDevice, OpenInv, MirrorInv, Count
    <2>2. flags = {} /\ flags' = Status!Online /\ segment = "ours"
      BY <1>4 DEF AnnounceDevice
    <2>3. UNCHANGED <<segment, claims>> /\ Exit = "alive" /\ Exit' = "alive"
      BY <1>4 DEF AnnounceDevice, usbOwn, Exit
    <2>4. Status!Announce
      BY <2>1, <2>2, <2>3 DEF Status!Announce, Exit
    <2>5. QED
      BY <2>4
  <1>5. CASE AnnounceStreaming \/ Shutdown
    <2>1. m_dev /\ open_pc = "idle"
      BY <1>5 DEF AnnounceStreaming, Shutdown, DevicePhase, OpenInv
    <2>2. claims = 1
      BY <2>1 DEF OpenInv, MirrorInv, Count
    <2>3. \/ flags = Status!Online /\ flags' = Status!Streaming
          \/ flags = Status!Streaming /\ flags' = Status!Online
      BY <1>5 DEF AnnounceStreaming, Shutdown
    <2>4. segment = "ours" /\ UNCHANGED <<segment, claims>> /\ Exit = "alive" /\ Exit' = "alive"
      BY <1>5 DEF AnnounceStreaming, Shutdown, usbOwn, Exit
    <2>5. Status!Announce
      BY <2>2, <2>3, <2>4 DEF Status!Announce, Exit
    <2>6. QED
      BY <2>5
  <1>6. CASE DestroySharedMemory
    <2>1. segment = "ours" /\ flags # Status!Streaming /\ segment' = "none" /\ flags' = {}
      BY <1>6 DEF DestroySharedMemory
    <2>2. UNCHANGED claims /\ Exit = "alive" /\ Exit' = "alive"
      BY <1>6 DEF DestroySharedMemory, usbOwn, Exit
    <2>3. Status!Withdraw
      BY <2>1, <2>2 DEF Status!Withdraw, Exit
    <2>4. QED
      BY <2>3
  <1>7. CASE Return
    <2>1. claims = 0 /\ UNCHANGED claims
      BY <1>7 DEF Return, DevicePhase, MirrorInv, Count, usbOwn
    <2>2. segment = "none" /\ flags = {} /\ UNCHANGED <<segment, flags>>
      BY <1>7 DEF Return, shmVars
    <2>3. Exit = "alive" /\ Exit' \in {"success", "failure"}
      BY <1>7 DEF Return, Exit
    <2>4. Status!Exit
      BY <2>1, <2>2, <2>3 DEF Status!Exit, Exit
    <2>5. QED
      BY <2>4
  <1>8. CASE CreateSharedMemory
    <2>1. claims = 0 /\ UNCHANGED claims
      BY <1>8 DEF CreateSharedMemory, DevicePhase, MirrorInv, Count, usbOwn
    <2>2. segment \in {"none", "stale"} /\ segment' = "ours" /\ flags = {} /\ flags' = {}
      BY <1>8 DEF CreateSharedMemory
    <2>3. Exit = "alive" /\ Exit' = "alive"
      BY <1>8 DEF CreateSharedMemory, Exit
    <2>4. Status!Publish
      BY <2>1, <2>2, <2>3 DEF Status!Publish, Exit
    <2>5. QED
      BY <2>4
  <1>9. CASE CreateFails
    <2>1. claims = 0 /\ UNCHANGED claims
      BY <1>9 DEF CreateFails, DevicePhase, MirrorInv, Count, usbOwn
    <2>2. segment \in {"none", "stale"} /\ segment' = "none" /\ flags = {} /\ flags' = {}
      BY <1>9 DEF CreateFails
    <2>3. Exit = "alive" /\ Exit' = "failure"
      BY <1>9 DEF CreateFails, Exit
    <2>4. Status!Exit
      BY <2>1, <2>2, <2>3 DEF Status!Exit, Exit
    <2>5. QED
      BY <2>4
  <1>10. CASE DeviceStep
    <2>1. UNCHANGED <<segment, flags>> /\ Exit = "alive" /\ Exit' = "alive"
      BY <1>10 DEF DeviceStep, BeginOpen, Opening, CloseDevice, DestroyDevice, shmVars,
         mainVars, Exit
    <2>2. claims \in {0, 1} /\ claims' \in {0, 1}
      BY DEF MirrorInv, Count
    <2>3. CASE claims' = claims
      BY <2>1, <2>3, Unseen
    <2>4. CASE claims = 0 /\ claims' = 1
      <3>1. Opening
        BY <1>10, <2>4, ClosedReleasesAll DEF DeviceStep, BeginOpen, Usb!InitLibusb,
           CloseDevice, DestroyDevice, Usb!Close
      <3>2. segment = "ours" /\ flags = {}
        BY <3>1 DEF Opening
      <3>3. Status!ClaimInterface
        BY <2>1, <2>4, <3>2 DEF Status!ClaimInterface, Exit
      <3>4. QED
        BY <3>3
    <2>5. CASE claims = 1 /\ claims' = 0
      <3>1. flags # Status!Streaming
        BY <1>10 DEF DeviceStep, BeginOpen, Opening, CloseDevice, DestroyDevice
      <3>2. Status!ReleaseInterface
        BY <2>1, <2>5, <3>1 DEF Status!ReleaseInterface, Exit
      <3>3. QED
        BY <3>2
    <2>6. QED
      BY <2>2, <2>3, <2>4, <2>5
  <1>11. CASE UNCHANGED vars
    <2>1. UNCHANGED <<segment, flags, claims, pc, exit_code>>
      BY <1>11 DEF vars, mainVars, shmVars, usbOwn
    <2>2. QED
      BY <2>1, Unseen DEF Exit
  <1>12. QED
    BY <1>1, <1>2, <1>3, <1>4, <1>5, <1>6, <1>7, <1>8, <1>9, <1>10, <1>11, NextIsOfAKind
       DEF PlainStep, CreateStep

\* A run of the bridge is a run of BridgeStatus: the flags speak of a claimed
\* device only, and nothing is left at exit.
THEOREM BridgeImplementsStatus == Spec => ImplementsStatus
  <1>1. Init => Status!Init
    BY DEF Init, Usb!Init, Status!Init
  <1>2. IInv /\ IInv' /\ [Next]_vars => [Status!Next]_(Status!statusVars)
    BY StatusStep
  <1>3. QED
    BY <1>1, <1>2, BridgeInvariant, PTL DEF Spec, ImplementsStatus, Status!Spec

-----------------------------------------------------------------------------
(***************************************************************************)
(* main() is a client of the engine and of the device object as their      *)
(* modules assume it.                                                      *)
(***************************************************************************)
\* The theorems about the two objects, for the bridge's constants and variables.
EngineProofs == INSTANCE IsoEngine_proofs
DeviceProofs == INSTANCE UsbDevice_proofs

\* Only the steps of the device object, and the environment, touch the bus.
LEMMA OthersLeaveBus ==
  ASSUME PlainStep \/ DeviceStep \/ CreateStep \/ Signal
  PROVE  UNCHANGED plugged
  <1>1. CASE PlainStep
    BY <1>1 DEF PlainStep, OpenFailed, AnnounceDevice, StartFailed, AnnounceStreaming,
       RoundOver, LeaveLoop, Shutdown, EndDrain, DestroySharedMemory, Return
  <1>2. CASE DeviceStep
    BY <1>2 DEF DeviceStep, BeginOpen, Opening, CloseDevice, DestroyDevice, Usb!bus,
       Usb!InitLibusb, Usb!Close, Usb!OpenStep, Usb!Find, Usb!NotFound, Usb!NoKernelDriver,
       Usb!DetachKernelDriver, Usb!Claim, Usb!SetAltSetting, Usb!OpenFails
  <1>3. CASE CreateStep \/ Signal
    BY <1>3 DEF CreateStep, CreateSharedMemory, CreateFails, Signal
  <1>4. QED
    BY <1>1, <1>2, <1>3

\* Every step of the bridge is a step of the engine and its client, or none.
LEMMA EngineStepOfBridge ==
  ASSUME EnginePhase, [Next]_vars
  PROVE  [Engine!Next]_(Engine!isoVars)
  <1>1. CASE PlainStep \/ DeviceStep \/ CreateStep \/ Signal
    <2>1. UNCHANGED engineOwn
      BY <1>1, OthersLeaveEngine DEF Signal
    <2>2. UNCHANGED plugged
      BY <1>1, OthersLeaveBus
    <2>3. QED
      BY <2>1, <2>2 DEF engineOwn, Engine!isoVars, Engine!engineVars, Engine!eventVars
  <1>2. CASE EnterRound \/ BeginDrain
    <2>1. Engine!BeginRound /\ start_pc = "done"
      BY <1>2 DEF EnterRound, BeginDrain, EnginePhase, Streams
    <2>2. QED
      BY <2>1 DEF Engine!Next, Engine!ClientRound, Engine!Started
  <1>3. CASE SetBoostLevel \/ Starting \/ StopEngine \/ DestroyEngine
    BY <1>3 DEF SetBoostLevel, Starting, StopEngine, DestroyEngine, Engine!Next
  <1>4. CASE InRound \/ Draining \/ EventsFail \/ DrainFails
    BY <1>4 DEF InRound, Draining, EventsFail, DrainFails, Engine!Next
  <1>5. CASE Unplug
    BY <1>5 DEF Unplug, Engine!Next
  <1>6. ASSUME NEW x \in Xfers, HostCompletes(x) PROVE Engine!Next
    BY <1>6 DEF HostCompletes, Engine!Next, Xfers
  <1>7. CASE UNCHANGED vars
    BY <1>7 DEF vars, engineOwn, Engine!isoVars, Engine!engineVars, Engine!eventVars
  <1>8. QED
    BY <1>1, <1>2, <1>3, <1>4, <1>5, <1>6, <1>7, NextIsOfAKind DEF EngineStep, Outside

\* A run of the bridge is a run of the engine with a client that starts it once,
\* handles events only after Start() succeeded, and stops and destroys it only
\* outside a round.
THEOREM BridgeUsesEngine == Spec => UsesEngine
  <1>1. Init => Engine!Init
    BY DEF Init
  <1>2. IInv /\ [Next]_vars => [Engine!Next]_(Engine!isoVars)
    BY EngineStepOfBridge DEF IInv
  <1>3. QED
    BY <1>1, <1>2, BridgeInvariant, PTL DEF Spec, UsesEngine, Engine!Spec

\* Every step of the bridge is a step of the device object and the bus, or none.
LEMMA DeviceStepOfBridge ==
  ASSUME [Next]_vars
  PROVE  [Usb!Next]_(Usb!usbVars)
  <1> USE DEF Usb!usbVars, Usb!members, Usb!held, Usb!bus
  <1>1. CASE DeviceStep
    BY <1>1 DEF DeviceStep, BeginOpen, Opening, CloseDevice, DestroyDevice, Usb!Next
  <1>2. CASE PlainStep \/ CreateStep \/ Signal
    <2>1. UNCHANGED usbOwn
      BY <1>2, OthersLeaveDevice DEF Outside
    <2>2. UNCHANGED plugged
      BY <1>2, OthersLeaveBus
    <2>3. QED
      BY <2>1, <2>2 DEF usbOwn
  <1>3. CASE Unplug
    BY <1>3 DEF Unplug, Engine!Unplug, Usb!Unplug, Usb!Next, usbOwn
  <1>4. CASE EngineStep \/ \E x \in Xfers : HostCompletes(x)
    <2>1. UNCHANGED usbOwn
      BY <1>4, OthersLeaveDevice DEF Outside
    <2>2. UNCHANGED plugged
      BY <1>4 DEF EngineStep, SetBoostLevel, Starting, EnterRound, InRound, EventsFail,
         StopEngine, BeginDrain, Draining, DrainFails, DestroyEngine, HostCompletes,
         Engine!BeginStart, Engine!StartStep, Engine!Allocate, Engine!AllocateFails,
         Engine!StartIn, Engine!StartOut, Engine!BeginRound, Engine!RoundStep, Engine!Wake,
         Engine!TimeOut, Engine!EndRound, Engine!Callback, Engine!EventsFail, Engine!Stop,
         Engine!Destroy, Engine!HostCompletes
    <2>3. QED
      BY <2>1, <2>2 DEF usbOwn
  <1>5. CASE UNCHANGED vars
    BY <1>5 DEF vars, usbOwn
  <1>6. QED
    BY <1>1, <1>2, <1>3, <1>4, <1>5, NextIsOfAKind DEF Outside

\* A run of the bridge is a run of the device object with a client that opens and
\* closes it.
THEOREM BridgeUsesDevice == Spec => Usb!Spec
  <1>1. Init => Usb!Init
    BY DEF Init
  <1>2. QED
    BY <1>1, DeviceStepOfBridge, PTL DEF Spec, Usb!Spec

\* The bridge's instance of the engine is the one the proofs speak of.
LEMMA SameEngine == Engine!Spec <=> EngineProofs!Spec
  <1>1. Engine!Init <=> EngineProofs!Init
    BY DEF Engine!Init, EngineProofs!Init, Engine!Xfers, EngineProofs!Xfers, Engine!Idx,
           EngineProofs!Idx
  <1>2. [Engine!Next]_(Engine!isoVars) <=> [EngineProofs!Next]_(EngineProofs!isoVars)
    BY DEF Engine!Init, EngineProofs!Init, Engine!Next, EngineProofs!Next,
           Engine!StartStep, EngineProofs!StartStep, Engine!BeginStart,
           EngineProofs!BeginStart, Engine!Allocate, EngineProofs!Allocate,
           Engine!AllocateFails, EngineProofs!AllocateFails, Engine!StartIn,
           EngineProofs!StartIn, Engine!StartOut, EngineProofs!StartOut,
           Engine!SubmitIn, EngineProofs!SubmitIn, Engine!SubmitOut,
           EngineProofs!SubmitOut, Engine!Submit, EngineProofs!Submit, Engine!Padding,
           EngineProofs!Padding, Engine!ClientRound, EngineProofs!ClientRound,
           Engine!Started, EngineProofs!Started, Engine!BeginRound,
           EngineProofs!BeginRound, Engine!RoundStep, EngineProofs!RoundStep,
           Engine!Wake, EngineProofs!Wake, Engine!TimeOut, EngineProofs!TimeOut,
           Engine!EndRound, EngineProofs!EndRound, Engine!Callback,
           EngineProofs!Callback, Engine!Resubmits, EngineProofs!Resubmits,
           Engine!RunsOn, EngineProofs!RunsOn, Engine!Deliver, EngineProofs!Deliver,
           Engine!Bytes, EngineProofs!Bytes, Engine!Frames, EngineProofs!Frames,
           Engine!Total, EngineProofs!Total, Engine!Stop, EngineProofs!Stop,
           Engine!Stopped, EngineProofs!Stopped, Engine!Destroy, EngineProofs!Destroy,
           Engine!Unplug, EngineProofs!Unplug, Engine!HostCompletes,
           EngineProofs!HostCompletes, Engine!EventsFail, EngineProofs!EventsFail,
           Engine!Pending, EngineProofs!Pending, Engine!InFlight, EngineProofs!InFlight,
           Engine!Statuses, EngineProofs!Statuses, Engine!XferStates,
           EngineProofs!XferStates, Engine!Xfers, EngineProofs!Xfers, Engine!Idx,
           EngineProofs!Idx, Engine!Packets, EngineProofs!Packets, Engine!isoVars,
           EngineProofs!isoVars, Engine!engineVars, EngineProofs!engineVars,
           Engine!eventVars, EngineProofs!eventVars
  <1>3. QED
    BY <1>1, <1>2, PTL DEF Engine!Spec, EngineProofs!Spec

\* The assumptions of the two modules hold of the bridge's constants.
LEMMA SizesFit == EngineProofs!SizeAssumption /\ DeviceProofs!MaxReplugsAssumption
  BY SizeAssumption DEF EngineProofs!SizeAssumption, DeviceProofs!MaxReplugsAssumption

\* What is proved of the engine holds in the bridge: its state keeps its types,
\* no transfer is dropped while it runs, nothing is played twice and the sample
\* count stays behind the bytes, wherever a signal, a disconnect or a failure
\* interrupts main().
THEOREM EngineCorrectInBridge ==
  Spec => [](/\ Engine!TypeOK
             /\ Engine!NoTransferDropped
             /\ Engine!NothingPlayedTwice
             /\ Engine!SamplesInStep)
  <1>1. /\ EngineProofs!Spec => []EngineProofs!TypeOK
        /\ EngineProofs!Spec => []EngineProofs!NoTransferDropped
        /\ EngineProofs!Spec => []EngineProofs!NothingPlayedTwice
        /\ EngineProofs!Spec => []EngineProofs!SamplesInStep
    BY SizesFit, EngineProofs!EngineTypeCorrect, EngineProofs!TransfersStayInCycle,
       EngineProofs!SilenceWhereNothingCame, EngineProofs!SamplesNeverAhead
  <1>2. EngineProofs!TypeOK => Engine!TypeOK
    BY DEF Engine!TypeOK, EngineProofs!TypeOK, Engine!ControlTypeOK, EngineProofs!ControlTypeOK,
           Engine!Idx, EngineProofs!Idx, Engine!Packets, EngineProofs!Packets, Engine!Xfers,
           EngineProofs!Xfers, Engine!XferStates, EngineProofs!XferStates, Engine!InFlight,
           EngineProofs!InFlight, Engine!Statuses, EngineProofs!Statuses
  <1>3. EngineProofs!NoTransferDropped => Engine!NoTransferDropped
    BY DEF Engine!NoTransferDropped, EngineProofs!NoTransferDropped, Engine!Started,
           EngineProofs!Started, Engine!Xfers, EngineProofs!Xfers, Engine!Idx, EngineProofs!Idx,
           Engine!InFlight, EngineProofs!InFlight, Engine!Statuses, EngineProofs!Statuses
  <1>4. EngineProofs!NothingPlayedTwice => Engine!NothingPlayedTwice
    BY DEF Engine!NothingPlayedTwice, EngineProofs!NothingPlayedTwice, Engine!Idx,
           EngineProofs!Idx, Engine!InFlight, EngineProofs!InFlight
  <1>5. EngineProofs!SamplesInStep => Engine!SamplesInStep
    BY DEF Engine!SamplesInStep, EngineProofs!SamplesInStep
  <1>6. QED
    BY <1>1, <1>2, <1>3, <1>4, <1>5, BridgeUsesEngine, SameEngine, PTL DEF UsesEngine

\* An engine that has stopped does not start again during the run, and submits
\* nothing: not in the loop, not while main() drains it.
THEOREM EngineStaysStopped == Spec => Engine!StaysStopped
  <1>1. EngineProofs!Spec => EngineProofs!StaysStopped
    BY SizesFit, EngineProofs!StoppedForGood
  <1>2. EngineProofs!StaysStopped <=> Engine!StaysStopped
    BY DEF Engine!StaysStopped, EngineProofs!StaysStopped, Engine!Xfers, EngineProofs!Xfers,
           Engine!Idx, EngineProofs!Idx, Engine!InFlight, EngineProofs!InFlight, Engine!isoVars,
           EngineProofs!isoVars, Engine!engineVars, EngineProofs!engineVars, Engine!eventVars,
           EngineProofs!eventVars
  <1>3. QED
    BY <1>1, <1>2, BridgeUsesEngine, SameEngine, PTL DEF UsesEngine

\* So is its instance of the device object.
LEMMA SameDevice == Usb!Spec <=> DeviceProofs!Spec
  <1>1. Usb!Init <=> DeviceProofs!Init
    BY DEF Usb!Init, DeviceProofs!Init
  <1>2. [Usb!Next]_(Usb!usbVars) <=> [DeviceProofs!Next]_(DeviceProofs!usbVars)
    BY DEF Usb!Next, DeviceProofs!Next, Usb!InitLibusb, DeviceProofs!InitLibusb, Usb!OpenStep,
           DeviceProofs!OpenStep, Usb!Find, DeviceProofs!Find, Usb!NotFound,
           DeviceProofs!NotFound, Usb!NoKernelDriver, DeviceProofs!NoKernelDriver,
           Usb!DetachKernelDriver, DeviceProofs!DetachKernelDriver, Usb!Claim,
           DeviceProofs!Claim, Usb!SetAltSetting, DeviceProofs!SetAltSetting, Usb!OpenFails,
           DeviceProofs!OpenFails, Usb!Close, DeviceProofs!Close, Usb!Closed,
           DeviceProofs!Closed, Usb!Unplug, DeviceProofs!Unplug, Usb!Replug,
           DeviceProofs!Replug, Usb!usbVars, DeviceProofs!usbVars, Usb!members,
           DeviceProofs!members, Usb!held, DeviceProofs!held, Usb!bus, DeviceProofs!bus
  <1>3. QED
    BY <1>1, <1>2, PTL DEF Usb!Spec, DeviceProofs!Spec

\* What is proved of the device object holds in the bridge: at no time of the run
\* does an object that is closed hold anything, or a closed device leave the
\* kernel driver detached.
THEOREM DeviceCorrectInBridge ==
  Spec => [](Usb!TypeOK /\ Usb!NothingLeaks /\ Usb!DriverGivenBack)
  <1>1. /\ DeviceProofs!Spec => []DeviceProofs!TypeOK
        /\ DeviceProofs!Spec => []DeviceProofs!NothingLeaks
        /\ DeviceProofs!Spec => []DeviceProofs!DriverGivenBack
    BY SizesFit, DeviceProofs!DeviceTypeCorrect, DeviceProofs!DeviceNothingLeaks,
       DeviceProofs!DeviceDriverGivenBack
  <1>2. DeviceProofs!TypeOK => Usb!TypeOK
    BY DEF Usb!TypeOK, DeviceProofs!TypeOK, Usb!DriverStates, DeviceProofs!DriverStates
  <1>3. DeviceProofs!NothingLeaks => Usb!NothingLeaks
    BY DEF Usb!NothingLeaks, DeviceProofs!NothingLeaks
  <1>4. DeviceProofs!DriverGivenBack => Usb!DriverGivenBack
    BY DEF Usb!DriverGivenBack, DeviceProofs!DriverGivenBack
  <1>5. QED
    BY <1>1, <1>2, <1>3, <1>4, BridgeUsesDevice, SameDevice, PTL

\* The state of main() itself.
MainTypeOK ==
  /\ pc \in Before \cup {"opening", "boost", "starting", "destroy"} \cup Streams \cup Removed
  /\ g_running \in BOOLEAN
  /\ segment \in {"none", "stale", "ours"}
  /\ mapped \in BOOLEAN
  /\ flags \subseteq {"RUNNING", "DEVICE_OK", "STREAMING"}
  /\ heartbeat \in {0, 1}
  /\ exit_code \in {0, 1}

\* Every step keeps its types.
LEMMA MainTypesStep ==
  ASSUME MainTypeOK, [Next]_vars
  PROVE  MainTypeOK'
  <1> USE DEF MainTypeOK, Before, Streams, Removed, mainVars, shmVars
  <1>1. CASE OpenFailed \/ AnnounceDevice \/ StartFailed \/ AnnounceStreaming
    BY <1>1 DEF OpenFailed, AnnounceDevice, StartFailed, AnnounceStreaming
  <1>2. CASE RoundOver \/ LeaveLoop \/ Shutdown \/ EndDrain \/ Return
    BY <1>2 DEF RoundOver, LeaveLoop, Shutdown, EndDrain, Return
  <1>3. CASE DestroySharedMemory
    <2>1. mapped' \in BOOLEAN
      BY <1>3, Zenon DEF DestroySharedMemory
    <2>2. QED
      BY <1>3, <2>1 DEF DestroySharedMemory
  <1>4. CASE SetBoostLevel \/ Starting \/ InRound \/ EventsFail
    BY <1>4 DEF SetBoostLevel, Starting, InRound, EventsFail
  <1>5. CASE EnterRound
    <2>1. UNCHANGED <<g_running, segment, mapped, flags, exit_code>>
      BY <1>5 DEF EnterRound
    <2>2. heartbeat' \in {0, 1} /\ pc' = "events"
      BY <1>5 DEF EnterRound
    <2>3. QED
      BY <2>1, <2>2
  <1>6. CASE StopEngine \/ BeginDrain \/ Draining \/ DrainFails \/ DestroyEngine
    BY <1>6 DEF StopEngine, BeginDrain, Draining, DrainFails, DestroyEngine
  <1>7. CASE DeviceStep
    BY <1>7 DEF DeviceStep, BeginOpen, Opening, CloseDevice, DestroyDevice
  <1>8. CASE CreateStep
    <2>1. mapped' \in BOOLEAN
      BY <1>8, Zenon DEF CreateStep, CreateSharedMemory, CreateFails
    <2>2. QED
      BY <1>8, <2>1 DEF CreateStep, CreateSharedMemory, CreateFails
  <1>9. CASE Signal
    <2>1. g_running' \in BOOLEAN
      BY <1>9, Zenon DEF Signal
    <2>2. QED
      BY <1>9, <2>1 DEF Signal
  <1>10. CASE Unplug \/ (\E x \in Xfers : HostCompletes(x)) \/ UNCHANGED vars
    BY <1>10 DEF Unplug, HostCompletes, vars
  <1>11. QED
    BY <1>1, <1>2, <1>3, <1>4, <1>5, <1>6, <1>7, <1>8, <1>9, <1>10, NextIsOfAKind
    DEF PlainStep, EngineStep, Outside

\* The state of main() and of the two objects it drives keeps its types.
THEOREM BridgeTypeCorrect == Spec => []TypeOK
  <1>1. Init => MainTypeOK
    <2> SUFFICES ASSUME Init PROVE MainTypeOK
      OBVIOUS
    <2>1. g_running \in BOOLEAN /\ mapped \in BOOLEAN
      BY Zenon DEF Init
    <2>2. QED
      BY <2>1 DEF Init, MainTypeOK, Before
  <1>2. MainTypeOK /\ Usb!TypeOK /\ Engine!TypeOK => TypeOK
    BY DEF MainTypeOK, TypeOK, Before, Streams, Removed
  <1>3. MainTypeOK /\ [Next]_vars => MainTypeOK'
    BY MainTypesStep
  <1>4. QED
    BY <1>1, <1>2, <1>3, EngineCorrectInBridge, DeviceCorrectInBridge, PTL DEF Spec

-----------------------------------------------------------------------------
(***************************************************************************)
(* The engine during the shutdown.                                         *)
(***************************************************************************)
\* A running engine is one that was started, in the bridge too.
LEMMA EngineCycleInBridge == Spec => []Engine!CycleInv
  <1>1. EngineProofs!Spec => []EngineProofs!CycleInv
    <2>1. EngineProofs!Spec =>
            [](EngineProofs!ControlTypeOK /\ EngineProofs!RoundInv /\ EngineProofs!CycleInv)
      BY SizesFit, EngineProofs!CycleInvariant
    <2>2. QED
      BY <2>1, PTL
  <1>2. EngineProofs!CycleInv => Engine!CycleInv
    BY DEF Engine!CycleInv, EngineProofs!CycleInv, Engine!Submitted, EngineProofs!Submitted,
           Engine!Xfers, EngineProofs!Xfers, Engine!Idx, EngineProofs!Idx, Engine!InFlight,
           EngineProofs!InFlight, Engine!Statuses, EngineProofs!Statuses
  <1>3. QED
    BY <1>1, <1>2, BridgeUsesEngine, SameEngine, PTL DEF UsesEngine

\* Past Stop() the engine does not run, nor does one that never started.
StoppedInv == pc \in Stopped => ~m_running

\* A callback of a stopped engine takes the transfer out of the cycle.
LEMMA CallbackOfStopped ==
  ASSUME NEW x \in Xfers, Engine!Callback(x), ~m_running
  PROVE  ~m_running' /\ xfer' = [xfer EXCEPT ![x] = "idle"]
  <1>1. x = <<"in", x[2]>> \/ x = <<"out", x[2]>>
    BY DEF Xfers, Engine!Xfers
  <1>2. CASE ~Engine!Resubmits(x)
    BY <1>2 DEF Engine!Callback, Engine!RunsOn
  <1>3. CASE Engine!Resubmits(x)
    <2>1. Engine!Submit(x)
      BY <1>1, <1>3 DEF Engine!Callback, Engine!SubmitIn, Engine!SubmitOut
    <2>2. QED
      BY <2>1 DEF Engine!Submit
  <1>4. QED
    BY <1>2, <1>3

\* Whatever brings main() past Stop() leaves a stopped engine, and no step from
\* there on starts it.
LEMMA StoppedStep ==
  ASSUME EnginePhase, Engine!CycleInv, StoppedInv, [Next]_vars
  PROVE  StoppedInv'
  <1> SUFFICES ASSUME pc' \in Stopped PROVE ~m_running'
    BY DEF StoppedInv
  <1>1. CASE pc \in Stopped /\ UNCHANGED m_running
    BY <1>1 DEF StoppedInv
  <1>2. CASE start_pc \in {"new", "failed"} /\ UNCHANGED m_running
    BY <1>2 DEF Engine!CycleInv
  <1>3. CASE PlainStep \/ DeviceStep \/ CreateStep
    <2>1. UNCHANGED m_running
      BY <1>3, OthersLeaveEngine DEF engineOwn
    <2>2. pc \in Stopped \/ start_pc \in {"new", "failed"}
      BY <1>3 DEF Stopped, EnginePhase, Before, Streams, PlainStep, OpenFailed, AnnounceDevice,
         StartFailed, AnnounceStreaming, RoundOver, LeaveLoop, Shutdown, EndDrain,
         DestroySharedMemory, Return, DeviceStep, BeginOpen, Opening, CloseDevice,
         DestroyDevice, CreateStep, CreateSharedMemory, CreateFails, mainVars
    <2>3. QED
      BY <1>1, <1>2, <2>1, <2>2
  <1>4. CASE SetBoostLevel \/ Starting \/ EnterRound \/ InRound \/ EventsFail
    BY <1>4 DEF SetBoostLevel, Starting, EnterRound, InRound, EventsFail, mainVars, Stopped
  <1>5. CASE StopEngine \/ DestroyEngine
    BY <1>5 DEF StopEngine, DestroyEngine, Engine!Stop, Engine!Stopped, Engine!Destroy
  <1>6. CASE BeginDrain \/ DrainFails
    BY <1>1, <1>6 DEF BeginDrain, DrainFails, Engine!BeginRound, Engine!EventsFail,
       Engine!engineVars, Stopped
  <1>7. CASE Draining
    <2>1. ~m_running
      BY <1>7 DEF Draining, StoppedInv, Stopped
    <2>2. CASE \E x \in Xfers : Engine!Callback(x)
      BY <2>1, <2>2, CallbackOfStopped
    <2>3. CASE Engine!Wake \/ Engine!TimeOut \/ Engine!EndRound
      BY <2>1, <2>3 DEF Engine!Wake, Engine!TimeOut, Engine!EndRound, Engine!engineVars
    <2>4. QED
      BY <1>7, <2>2, <2>3 DEF Draining, Engine!RoundStep, Xfers
  <1>8. CASE Outside \/ UNCHANGED vars
    BY <1>1, <1>8 DEF Outside, Signal, Unplug, Engine!Unplug, Engine!engineVars, HostCompletes,
       Engine!HostCompletes, vars, mainVars, engineOwn
  <1>9. QED
    BY <1>3, <1>4, <1>5, <1>6, <1>7, <1>8, NextIsOfAKind DEF EngineStep

\* The steps past Stop() take transfers out of flight, and put none there.
LEMMA StoppedSubmitsNothing ==
  ASSUME StoppedInv, Engine!TypeOK, pc \in Stopped, [Next]_vars,
         NEW x \in Xfers, xfer'[x] \in Engine!InFlight
  PROVE  xfer[x] \in Engine!InFlight
  <1>a. xfer \in [Xfers -> Engine!XferStates]
    BY DEF Engine!TypeOK, Engine!ControlTypeOK, Xfers
  <1>b. "idle" \notin Engine!InFlight /\ "null" \notin Engine!InFlight
    BY DEF Engine!InFlight
  <1>1. CASE UNCHANGED xfer
    BY <1>1
  <1>2. CASE PlainStep \/ DeviceStep \/ CreateStep
    BY <1>1, <1>2, OthersLeaveEngine DEF engineOwn
  <1>3. CASE SetBoostLevel \/ Starting \/ EnterRound \/ InRound \/ EventsFail \/ StopEngine
    BY <1>3 DEF SetBoostLevel, Starting, EnterRound, InRound, EventsFail, StopEngine, Stopped
  <1>4. CASE DestroyEngine
    BY <1>4, <1>b DEF DestroyEngine, Engine!Destroy, Xfers
  <1>5. CASE BeginDrain \/ DrainFails
    BY <1>1, <1>5 DEF BeginDrain, DrainFails, Engine!BeginRound, Engine!EventsFail,
       Engine!engineVars
  <1>6. CASE Draining
    <2>1. CASE \E y \in Xfers : Engine!Callback(y)
      <3> PICK y \in Xfers : Engine!Callback(y)
        BY <2>1
      <3>1. xfer' = [xfer EXCEPT ![y] = "idle"]
        BY CallbackOfStopped DEF StoppedInv
      <3>2. QED
        BY <1>a, <1>b, <3>1
    <2>2. CASE Engine!Wake \/ Engine!TimeOut \/ Engine!EndRound
      BY <1>1, <2>2 DEF Engine!Wake, Engine!TimeOut, Engine!EndRound, Engine!engineVars
    <2>3. QED
      BY <1>6, <2>1, <2>2 DEF Draining, Engine!RoundStep, Xfers
  <1>7. ASSUME NEW y \in Xfers, HostCompletes(y) PROVE xfer[x] \in Engine!InFlight
    <2>1. PICK status \in Engine!Statuses : xfer' = [xfer EXCEPT ![y] = status]
      BY <1>7 DEF HostCompletes, Engine!HostCompletes
    <2>2. status \notin Engine!InFlight
      BY DEF Engine!Statuses, Engine!InFlight
    <2>3. QED
      BY <1>a, <2>1, <2>2
  <1>8. CASE Signal \/ Unplug \/ UNCHANGED vars
    BY <1>1, <1>8 DEF Signal, Unplug, Engine!Unplug, Engine!engineVars, vars, engineOwn
  <1>9. QED
    BY <1>2, <1>3, <1>4, <1>5, <1>6, <1>7, <1>8, NextIsOfAKind DEF EngineStep, Outside

\* From Stop() on no completion is resubmitted, on no path out of main().
THEOREM ShutdownSubmitsNothing == Spec => DrainsWithoutResubmitting
  <1> DEFINE Submitted ==
        (pc \in Stopped) =>
           \A x \in Xfers : xfer'[x] \in Engine!InFlight => xfer[x] \in Engine!InFlight
  <1>1. Init => StoppedInv
    BY DEF Init, Engine!Init, StoppedInv
  <1>2. IInv /\ Engine!CycleInv /\ StoppedInv /\ [Next]_vars => StoppedInv'
    BY StoppedStep DEF IInv
  <1>3. StoppedInv /\ Engine!TypeOK /\ [Next]_vars => [Submitted]_vars
    BY StoppedSubmitsNothing
  <1>4. QED
    BY <1>1, <1>2, <1>3, BridgeInvariant, EngineCycleInBridge, EngineCorrectInBridge, PTL
    DEF Spec, DrainsWithoutResubmitting

=============================================================================
