----------------------------- MODULE UsbDevice -----------------------------
(***************************************************************************)
(* The USB device object of bridge/usb_device.cpp, over what libusb and    *)
(* the operating system hold for the process.                              *)
(*                                                                         *)
(* Open() is a chain of libusb calls, each of which can fail, and the      *)
(* device can be unplugged between any two of them: each call is a step.   *)
(* A failure after the device was opened runs Close() in the same step.    *)
(*                                                                         *)
(* The members m_ctx .. m_kernel_detached are what the object believes it  *)
(* holds.  contexts, handles, claims and driver are what is really held:   *)
(* they change with the libusb calls, never with the members.              *)
(***************************************************************************)
EXTENDS Integers

CONSTANT MaxReplugs  \* bound on how often the device is plugged in again

ASSUME MaxReplugsAssumption == MaxReplugs \in Nat

VARIABLES
  open_pc,              \* where Open() is, "idle" before and after it
  m_ctx,                \* is m_ctx non-null?
  m_dev,                \* is m_dev non-null?
  m_interface_claimed,
  m_kernel_detached,
  contexts,             \* live libusb contexts of the process
  handles,              \* open device handles of the process
  claims,               \* interfaces claimed by the process
  driver,               \* the kernel driver of the interface
  plugged,              \* is the device on the bus?
  replugs               \* how often it was plugged in again

members == <<m_ctx, m_dev, m_interface_claimed, m_kernel_detached>>
held == <<contexts, handles, claims, driver>>
bus == <<plugged, replugs>>
usbVars == <<open_pc, members, held, bus>>

\* "none": no kernel driver matches the interface.  "lost": the process took
\* it away, and libusb_attach_kernel_driver failed to give it back.
DriverStates == {"none", "attached", "detached", "lost"}

Init ==
  /\ open_pc = "idle"
  /\ m_ctx = FALSE
  /\ m_dev = FALSE
  /\ m_interface_claimed = FALSE
  /\ m_kernel_detached = FALSE
  /\ contexts = 0
  /\ handles = 0
  /\ claims = 0
  /\ driver \in {"none", "attached"}
  /\ plugged \in BOOLEAN
  /\ replugs = 0

-----------------------------------------------------------------------------
(***************************************************************************)
(* Faulty variants of the operations below, one plausible slip each.       *)
(***************************************************************************)
\* Returns without libusb_exit when the device is not found.
NotFoundKeepsContext ==
  /\ open_pc = "find"
  /\ m_ctx' = FALSE
  /\ open_pc' = "idle"
  /\ UNCHANGED <<m_dev, m_interface_claimed, m_kernel_detached, held, bus>>

\* Forgets to reset m_dev, so that the next Close() closes the handle again.
ClosedTwice ==
  /\ claims' = IF m_dev /\ m_interface_claimed THEN claims - 1 ELSE claims
  /\ driver' = IF m_dev /\ m_kernel_detached THEN "attached" ELSE driver
  /\ handles' = IF m_dev THEN handles - 1 ELSE handles
  /\ contexts' = IF m_ctx THEN contexts - 1 ELSE contexts
  /\ m_ctx' = FALSE
  /\ UNCHANGED m_dev
  /\ m_interface_claimed' = FALSE
  /\ m_kernel_detached' = FALSE

\* Records the detached driver only once the interface is claimed.
DetachedNotRecorded ==
  /\ open_pc = "kernel"
  /\ driver = "attached"
  /\ plugged
  /\ driver' = "detached"
  /\ open_pc' = "claim"
  /\ UNCHANGED <<members, contexts, handles, claims, bus>>

-----------------------------------------------------------------------------
(***************************************************************************)
(* Close(): releases whatever the members say is held, in reverse order.   *)
(* The results of the libusb calls are ignored.                            *)
(***************************************************************************)
Closed ==
  /\ claims' = IF m_dev /\ m_interface_claimed THEN claims - 1 ELSE claims
  /\ IF m_dev /\ m_kernel_detached
       THEN driver' \in IF plugged THEN {"attached", "lost"} ELSE {"lost"}
       ELSE driver' = driver
  /\ handles' = IF m_dev THEN handles - 1 ELSE handles
  /\ contexts' = IF m_ctx THEN contexts - 1 ELSE contexts
  /\ m_ctx' = FALSE
  /\ m_dev' = FALSE
  /\ m_interface_claimed' = (m_interface_claimed /\ ~m_dev)
  /\ m_kernel_detached' = (m_kernel_detached /\ ~m_dev)

Close ==
  /\ open_pc = "idle"
  /\ Closed
  /\ UNCHANGED <<open_pc, bus>>

-----------------------------------------------------------------------------
(***************************************************************************)
(* Open().                                                                 *)
(***************************************************************************)
\* libusb_init; an object that is already open returns at once.
InitLibusb ==
  /\ open_pc = "idle"
  /\ ~m_dev
  /\ \/ /\ m_ctx' = TRUE
        /\ contexts' = contexts + 1
        /\ open_pc' = "find"
     \/ UNCHANGED <<m_ctx, contexts, open_pc>>
  /\ UNCHANGED <<m_dev, m_interface_claimed, m_kernel_detached, handles, claims, driver, bus>>

\* libusb_open_device_with_vid_pid finds and opens the device.
Find ==
  /\ open_pc = "find"
  /\ plugged
  /\ m_dev' = TRUE
  /\ handles' = handles + 1
  /\ open_pc' = "kernel"
  /\ UNCHANGED <<m_ctx, m_interface_claimed, m_kernel_detached, contexts, claims, driver, bus>>

\* It does not, or may not open it: libusb_exit, and Open returns false.
NotFound ==
  /\ open_pc = "find"
  /\ m_ctx' = FALSE
  /\ contexts' = contexts - 1
  /\ open_pc' = "idle"
  /\ UNCHANGED <<m_dev, m_interface_claimed, m_kernel_detached, handles, claims, driver, bus>>

\* libusb_kernel_driver_active does not return 1: there is no driver, or the call
\* fails, with a driver attached or not.  Open goes on to claim the interface.
NoKernelDriver ==
  /\ open_pc = "kernel"
  /\ open_pc' = "claim"
  /\ UNCHANGED <<members, held, bus>>

DetachKernelDriver ==
  /\ open_pc = "kernel"
  /\ driver = "attached"
  /\ plugged
  /\ driver' = "detached"
  /\ m_kernel_detached' = TRUE
  /\ open_pc' = "claim"
  /\ UNCHANGED <<m_ctx, m_dev, m_interface_claimed, contexts, handles, claims, bus>>

Claim ==
  /\ open_pc = "claim"
  /\ plugged
  /\ m_interface_claimed' = TRUE
  /\ claims' = claims + 1
  /\ open_pc' = "alt"
  /\ UNCHANGED <<m_ctx, m_dev, m_kernel_detached, contexts, handles, driver, bus>>

\* libusb_set_interface_alt_setting succeeds, and Open returns true.
SetAltSetting ==
  /\ open_pc = "alt"
  /\ plugged
  /\ open_pc' = "idle"
  /\ UNCHANGED <<members, held, bus>>

\* Detaching, claiming or selecting the setting fails: Close, return false.
OpenFails ==
  /\ open_pc \in {"kernel", "claim", "alt"}
  /\ open_pc = "kernel" => driver = "attached"
  /\ Closed
  /\ open_pc' = "idle"
  /\ UNCHANGED bus

OpenStep ==
  \/ Find
  \/ NotFound
  \/ NoKernelDriver
  \/ DetachKernelDriver
  \/ Claim
  \/ SetAltSetting
  \/ OpenFails

-----------------------------------------------------------------------------
(***************************************************************************)
(* The bus.  An unplugged device takes its kernel driver with it, and one  *)
(* that is plugged in again gets a driver attached if the system has one.  *)
(* It comes back as another device to libusb: a handle to the old one      *)
(* stays dead, so that Replug is enabled only while none is open.          *)
(***************************************************************************)
Unplug ==
  /\ plugged
  /\ plugged' = FALSE
  /\ UNCHANGED <<open_pc, members, held, replugs>>

Replug ==
  /\ ~plugged
  /\ ~m_dev
  /\ replugs < MaxReplugs
  /\ plugged' = TRUE
  /\ replugs' = replugs + 1
  /\ driver' = IF driver = "none" THEN "none" ELSE "attached"
  /\ UNCHANGED <<open_pc, members, contexts, handles, claims>>

\* A client that opens and closes the object in any order the code allows.
Next == InitLibusb \/ OpenStep \/ Close \/ Unplug \/ Replug

Spec == Init /\ [][Next]_usbVars

-----------------------------------------------------------------------------
(***************************************************************************)
(* Properties.                                                             *)
(***************************************************************************)
\* The state has its types; no count of what is held goes below zero, so nothing
\* is released more often than it was acquired.
TypeOK ==
  /\ open_pc \in {"idle", "find", "kernel", "claim", "alt"}
  /\ m_ctx \in BOOLEAN /\ m_dev \in BOOLEAN
  /\ m_interface_claimed \in BOOLEAN /\ m_kernel_detached \in BOOLEAN
  /\ contexts \in Nat /\ handles \in Nat /\ claims \in Nat
  /\ driver \in DriverStates
  /\ plugged \in BOOLEAN
  /\ replugs \in 0 .. MaxReplugs

\* Whatever failed on the way, an object that is not open and not being opened
\* holds no context, no handle and no interface, and an open one holds exactly
\* one of each.
NothingLeaks ==
  open_pc = "idle" =>
    LET one == IF m_dev THEN 1 ELSE 0
    IN contexts = one /\ handles = one /\ claims = one

\* A kernel driver that the process took away is given back (or the attempt
\* failed) before the device is closed: no failure of Open strands it.
DriverGivenBack == driver = "detached" => m_dev

=============================================================================
