-------------------------- MODULE UsbDevice_proofs --------------------------
(***************************************************************************)
(* Proofs about UsbDevice: what the object believes it holds is what it    *)
(* really holds, at every step of Open and Close, however often the device *)
(* comes and goes.                                                         *)
(***************************************************************************)
EXTENDS UsbDevice, TLAPS

Count(b) == IF b THEN 1 ELSE 0

\* The members mirror what libusb and the kernel hold.
MembersMirrorHeld ==
  /\ contexts = Count(m_ctx)
  /\ handles = Count(m_dev)
  /\ claims = Count(m_interface_claimed)
  /\ driver = "detached" <=> m_kernel_detached

\* Nothing is held of a device that is not open.
HeldOnlyWhileOpen ==
  /\ m_interface_claimed => m_dev
  /\ m_kernel_detached => m_dev
  /\ m_dev => m_ctx

\* How far Open() has come, by its program counter.
OpenProgress ==
  /\ open_pc = "idle" => (m_ctx <=> m_dev) /\ (m_interface_claimed <=> m_dev)
  /\ open_pc = "find" => m_ctx /\ ~m_dev
  /\ open_pc = "kernel" => m_dev /\ ~m_interface_claimed /\ ~m_kernel_detached
  /\ open_pc = "claim" => m_dev /\ ~m_interface_claimed
  /\ open_pc = "alt" => m_dev /\ m_interface_claimed

\* The inductive invariant.
DeviceInv == TypeOK /\ MembersMirrorHeld /\ HeldOnlyWhileOpen /\ OpenProgress

\* Initially nothing is held, and the members say so.
LEMMA DeviceInit == Init => DeviceInv
  <1> SUFFICES ASSUME Init PROVE DeviceInv
    OBVIOUS
  <1>1. TypeOK
    <2>1. m_ctx \in BOOLEAN /\ m_dev \in BOOLEAN
          /\ m_interface_claimed \in BOOLEAN /\ m_kernel_detached \in BOOLEAN
      BY Zenon DEF Init
    <2>2. contexts \in Nat /\ handles \in Nat /\ claims \in Nat /\ replugs \in 0 .. MaxReplugs
      BY MaxReplugsAssumption DEF Init
    <2>3. QED
      BY <2>1, <2>2 DEF Init, TypeOK, DriverStates
  <1>2. MembersMirrorHeld
    BY DEF Init, MembersMirrorHeld, Count
  <1>3. HeldOnlyWhileOpen /\ OpenProgress
    BY DEF Init, HeldOnlyWhileOpen, OpenProgress
  <1>4. QED
    BY <1>1, <1>2, <1>3 DEF DeviceInv

\* Close() releases exactly what is held, from every point of Open().
LEMMA ClosedReleasesAll ==
  ASSUME DeviceInv, Closed
  PROVE  /\ contexts' = 0 /\ handles' = 0 /\ claims' = 0
         /\ driver' \in DriverStates \ {"detached"}
         /\ m_ctx' = FALSE /\ m_dev' = FALSE
         /\ m_interface_claimed' = FALSE /\ m_kernel_detached' = FALSE
  <1>1. contexts' = 0 /\ m_ctx' = FALSE
    BY DEF DeviceInv, TypeOK, MembersMirrorHeld, Count, Closed
  <1>2. handles' = 0 /\ m_dev' = FALSE
    BY DEF DeviceInv, TypeOK, MembersMirrorHeld, Count, Closed
  <1>3. claims' = 0
    BY DEF DeviceInv, TypeOK, MembersMirrorHeld, HeldOnlyWhileOpen, Count, Closed
  <1>4. driver' \in DriverStates \ {"detached"}
    BY DEF DeviceInv, TypeOK, DriverStates, MembersMirrorHeld, HeldOnlyWhileOpen, Closed
  <1>5. m_interface_claimed' = FALSE /\ m_kernel_detached' = FALSE
    BY DEF DeviceInv, TypeOK, HeldOnlyWhileOpen, Closed
  <1>6. QED
    BY <1>1, <1>2, <1>3, <1>4, <1>5

\* A step that closes the object restores the invariant.
LEMMA ClosedKeepsInv ==
  ASSUME DeviceInv, Closed, open_pc' = "idle", UNCHANGED bus
  PROVE  DeviceInv'
  <1>1. TypeOK'
    <2>1. m_ctx' \in BOOLEAN /\ m_dev' \in BOOLEAN
          /\ m_interface_claimed' \in BOOLEAN /\ m_kernel_detached' \in BOOLEAN
      BY ClosedReleasesAll, Zenon
    <2>2. contexts' \in Nat /\ handles' \in Nat /\ claims' \in Nat /\ driver' \in DriverStates
      BY ClosedReleasesAll
    <2>3. QED
      BY <2>1, <2>2 DEF DeviceInv, TypeOK, bus
  <1>2. MembersMirrorHeld'
    BY ClosedReleasesAll DEF MembersMirrorHeld, Count
  <1>3. HeldOnlyWhileOpen' /\ OpenProgress'
    BY ClosedReleasesAll DEF HeldOnlyWhileOpen, OpenProgress
  <1>4. QED
    BY <1>1, <1>2, <1>3 DEF DeviceInv

\* Every step keeps the invariant.
LEMMA DeviceStep == DeviceInv /\ [Next]_usbVars => DeviceInv'
  <1> SUFFICES ASSUME DeviceInv, [Next]_usbVars PROVE DeviceInv'
    OBVIOUS
  <1> USE DEF DeviceInv, TypeOK, DriverStates, MembersMirrorHeld, HeldOnlyWhileOpen,
              OpenProgress, Count, members, held, bus
  <1>1. CASE InitLibusb
    <2>1. CASE UNCHANGED <<m_ctx, contexts, open_pc>>
      BY <1>1, <2>1 DEF InitLibusb
    <2>2. CASE m_ctx' = TRUE /\ contexts' = contexts + 1 /\ open_pc' = "find"
      <3>1. contexts = 0 /\ contexts' = 1
        BY <1>1, <2>2 DEF InitLibusb
      <3>2. m_ctx' \in BOOLEAN
        BY <2>2, Zenon
      <3>3. QED
        BY <1>1, <2>2, <3>1, <3>2 DEF InitLibusb
    <2>3. QED
      BY <1>1, <2>1, <2>2 DEF InitLibusb
  <1>2. CASE Find
    <2>1. handles = 0 /\ handles' = 1
      BY <1>2 DEF Find
    <2>2. m_dev' \in BOOLEAN
      BY <1>2, Zenon DEF Find
    <2>3. m_ctx /\ ~m_interface_claimed /\ ~m_kernel_detached
      BY <1>2 DEF Find
    <2>4. QED
      BY <1>2, <2>1, <2>2, <2>3 DEF Find
  <1>3. CASE NotFound
    <2>1. contexts = 1 /\ contexts' = 0
      BY <1>3 DEF NotFound
    <2>2. m_ctx' \in BOOLEAN
      BY <1>3, Zenon DEF NotFound
    <2>3. ~m_dev /\ ~m_interface_claimed /\ ~m_kernel_detached
      BY <1>3 DEF NotFound
    <2>4. QED
      BY <1>3, <2>1, <2>2, <2>3 DEF NotFound
  <1>4. CASE NoKernelDriver
    BY <1>4 DEF NoKernelDriver
  <1>5. CASE DetachKernelDriver
    <2>1. m_kernel_detached' \in BOOLEAN
      BY <1>5, Zenon DEF DetachKernelDriver
    <2>2. QED
      BY <1>5, <2>1 DEF DetachKernelDriver
  <1>6. CASE Claim
    <2>1. claims = 0 /\ claims' = 1
      BY <1>6 DEF Claim
    <2>2. m_interface_claimed' \in BOOLEAN
      BY <1>6, Zenon DEF Claim
    <2>3. QED
      BY <1>6, <2>1, <2>2 DEF Claim
  <1>7. CASE SetAltSetting
    BY <1>7 DEF SetAltSetting
  <1>8. CASE OpenFails
    BY <1>8, ClosedKeepsInv DEF OpenFails
  <1>9. CASE Close
    BY <1>9, ClosedKeepsInv DEF Close
  <1>10. CASE Unplug
    BY <1>10 DEF Unplug
  <1>11. CASE Replug
    <2>1. replugs' \in 0 .. MaxReplugs
      BY <1>11, MaxReplugsAssumption DEF Replug
    <2>2. QED
      BY <1>11, <2>1 DEF Replug
  <1>12. CASE UNCHANGED usbVars
    BY <1>12 DEF usbVars
  <1>13. QED
    BY <1>1, <1>2, <1>3, <1>4, <1>5, <1>6, <1>7, <1>8, <1>9, <1>10, <1>11, <1>12
    DEF Next, OpenStep

\* The members of the object always mirror what the process holds, and what it
\* holds is what Open() has acquired so far.
THEOREM DeviceInvariant == Spec => []DeviceInv
  BY DeviceInit, DeviceStep, PTL DEF Spec

\* The state keeps its types; counts of resources never go below zero, so no
\* libusb object is released twice.
THEOREM DeviceTypeCorrect == Spec => []TypeOK
  BY DeviceInvariant, PTL DEF DeviceInv

\* No failure of Open() and no order of calls leaks a context, a handle or an
\* interface, however often the device is unplugged and plugged in again.
THEOREM DeviceNothingLeaks == Spec => []NothingLeaks
  <1>1. DeviceInv => NothingLeaks
    BY DEF DeviceInv, TypeOK, MembersMirrorHeld, OpenProgress, Count, NothingLeaks
  <1>2. QED
    BY <1>1, DeviceInvariant, PTL

\* No failure of Open() strands the kernel driver it detached.
THEOREM DeviceDriverGivenBack == Spec => []DriverGivenBack
  <1>1. DeviceInv => DriverGivenBack
    BY DEF DeviceInv, MembersMirrorHeld, HeldOnlyWhileOpen, DriverGivenBack
  <1>2. QED
    BY <1>1, DeviceInvariant, PTL

=============================================================================
