--------------------------- MODULE IsoTest_proofs ---------------------------
(***************************************************************************)
(* Proofs about IsoTest, for any number of transfers: IInv is inductive,   *)
(* and implies the safety properties.  Each lemma is about one part of it  *)
(* and says which other parts it rests on.                                 *)
(***************************************************************************)
EXTENDS IsoTest, TLAPS

\* The steps of main() that touch no transfer and no callback, ...
OpenStep ==
  \/ InitLibusb \/ Find \/ ReturnEarly \/ NoKernelDriver \/ DetachKernelDriver \/ Claim
  \/ SetAltSetting \/ OpenCaptureFile \/ OpenFails
CloseStep == LeaveLoop \/ Release \/ Cleanup

\* ... those that begin or end a round, ...
RoundStep == BeginRound \/ Wake \/ EndRound \/ EventsFail

\* ... and what may happen to the process, transfers apart.
Outside == Signal \/ TimeUp \/ Unplug

\* Every step is of one of these kinds.
LEMMA NextIsOfAKind ==
  ASSUME [Next]_vars
  PROVE  \/ OpenStep \/ Allocate \/ AllocateFails \/ SubmitIn \/ SubmitOut \/ RoundStep
         \/ \E x \in Xfers : Callback(x) \/ Resubmit(x) \/ HostCompletes(x)
         \/ CloseStep \/ StopCapture \/ CleanupXfers \/ Outside \/ UNCHANGED vars
  BY DEF Next, MainStep, OpenStep, CloseStep, RoundStep, Outside

\* Initially nothing is held, and no transfer is allocated.
LEMMA InvInit == Init => IInv
  <1> SUFFICES ASSUME Init PROVE IInv
    OBVIOUS
  <1>1. 0 \in Idx
    BY NumXfersAssumption DEF Idx
  <1>2. TypeOK
    BY <1>1 DEF Init, TypeOK
  <1>3. RoundInv /\ CycleInv /\ HeldInv
    BY DEF Init, RoundInv, CycleInv, HeldInv, Statuses
  <1>4. QED
    BY <1>2, <1>3 DEF IInv

\* The flags stay Boolean.
LEMMA FlagsStep ==
  ASSUME g_running \in BOOLEAN, time_up \in BOOLEAN, captured \in BOOLEAN, claimed \in BOOLEAN,
         plugged \in BOOLEAN, [Next]_vars
  PROVE  /\ g_running' \in BOOLEAN /\ time_up' \in BOOLEAN /\ captured' \in BOOLEAN
         /\ claimed' \in BOOLEAN /\ plugged' \in BOOLEAN
  <1> USE DEF captureVars, eventVars, deviceVars, envVars
  <1>1. CASE OpenStep
    BY <1>1, Zenon DEF OpenStep, InitLibusb, Find, ReturnEarly, NoKernelDriver,
       DetachKernelDriver, Claim, SetAltSetting, OpenCaptureFile, OpenFails
  <1>2. CASE Allocate \/ AllocateFails
    BY <1>2, Zenon DEF Allocate, AllocateFails
  <1>3. CASE SubmitIn \/ SubmitOut
    BY <1>3, Zenon DEF SubmitIn, SubmitOut, Submits, SubmitFails
  <1>4. CASE RoundStep
    BY <1>4, Zenon DEF RoundStep, BeginRound, Wake, EndRound, EventsFail
  <1>5. ASSUME NEW x \in Xfers, Callback(x) PROVE captured' \in BOOLEAN /\ g_running' \in BOOLEAN
    <2>1. captured' \in {captured, TRUE} \/ captured' = captured
      BY <1>5, Zenon DEF Callback
    <2>2. g_running' \in BOOLEAN
      BY <1>5, Zenon DEF Callback
    <2>3. QED
      BY <2>1, <2>2, Zenon
  <1>6. ASSUME NEW x \in Xfers, Callback(x)
        PROVE  UNCHANGED <<time_up, claimed, plugged>>
    BY <1>6, Zenon DEF Callback
  <1>7. ASSUME NEW x \in Xfers, Resubmit(x) \/ HostCompletes(x)
        PROVE  /\ g_running' \in BOOLEAN
               /\ UNCHANGED <<time_up, captured, claimed, plugged>>
    BY <1>7, Zenon DEF Resubmit, HostCompletes, Submits, SubmitFails
  <1>8. CASE CloseStep
    BY <1>8, Zenon DEF CloseStep, LeaveLoop, Release, Cleanup
  <1>9. CASE StopCapture \/ CleanupXfers
    BY <1>9, Zenon DEF StopCapture, CleanupXfers
  <1>10. CASE Outside
    BY <1>10, Zenon DEF Outside, Signal, TimeUp, Unplug
  <1>11. CASE UNCHANGED vars
    BY <1>11, Zenon DEF vars
  <1>12. QED
    BY <1>1, <1>2, <1>3, <1>4, <1>5, <1>6, <1>7, <1>8, <1>9, <1>10, <1>11, NextIsOfAKind, Zenon

\* The types: no loop goes past the last transfer.
LEMMA TypeStep ==
  ASSUME TypeOK, RoundInv, [Next]_vars
  PROVE  TypeOK'
  <1> USE DEF TypeOK, captureVars, eventVars, deviceVars, envVars
  <1>0. /\ g_running' \in BOOLEAN /\ time_up' \in BOOLEAN /\ captured' \in BOOLEAN
        /\ claimed' \in BOOLEAN /\ plugged' \in BOOLEAN
    BY FlagsStep
  <1>1. CASE OpenStep
    <2>1. UNCHANGED <<idx, xfer, round, batch>>
      BY <1>1, Zenon DEF OpenStep, InitLibusb, Find, ReturnEarly, NoKernelDriver,
         DetachKernelDriver, Claim, SetAltSetting, OpenCaptureFile, OpenFails
    <2>2. /\ pc' \in {"find", "kernel", "claim", "alt", "file", "alloc",
                    "release", "cleanup", "exited"}
          /\ exit' \in {"none", "success", "failure"}
          /\ g_capture_file' \in {"null", "open", "closed"}
      BY <1>1 DEF OpenStep, Hold, Exits, InitLibusb, Find, ReturnEarly, NoKernelDriver,
         DetachKernelDriver, Claim, SetAltSetting, OpenCaptureFile, OpenFails
    <2>3. /\ held' \subseteq {"context", "handle", "interface", "streaming"}
          /\ driver' \in {"none", "attached", "detached", "lost"}
      BY <1>1 DEF OpenStep, Hold, Exits, InitLibusb, Find, ReturnEarly, NoKernelDriver,
         DetachKernelDriver, Claim, SetAltSetting, OpenCaptureFile, OpenFails
    <2>4. QED
      BY <1>0, <2>1, <2>2, <2>3
  <1>2. CASE Allocate
    <2>1. idx' \in Idx
      BY <1>0, <1>2, NumXfersAssumption DEF Allocate, Idx
    <2>2. QED
      BY <1>0, <1>2, <2>1 DEF Allocate
  <1>3. CASE AllocateFails
    BY <1>0, <1>3 DEF AllocateFails, Xfers
  <1>4. CASE SubmitIn
    BY <1>0, <1>4 DEF SubmitIn, Submits, SubmitFails, InFlight
  <1>5. CASE SubmitOut
    <2>1. idx' \in Idx
      BY <1>0, <1>5, NumXfersAssumption DEF SubmitOut, Idx
    <2>2. QED
      BY <1>0, <1>5, <2>1 DEF SubmitOut, Submits, SubmitFails, InFlight
  <1>6. CASE RoundStep
    <2>1. /\ pc' \in {"loop", "cancel", "drain1", "drain2", "xfers"}
          /\ batch' \subseteq Xfers /\ round' \in {"none", "wait", "calls"}
      BY <1>6 DEF RoundStep, RoundInv, BeginRound, Wake, EndRound, EventsFail, After, Pending
    <2>2. UNCHANGED <<captureVars, deviceVars, envVars, exit>>
      BY <1>6 DEF RoundStep, BeginRound, Wake, EndRound, EventsFail
    <2>3. QED
      BY <1>0, <2>1, <2>2
  <1>7. ASSUME NEW x \in Xfers, Callback(x) PROVE TypeOK'
    BY <1>0, <1>7 DEF Callback
  <1>8. ASSUME NEW x \in Xfers, Resubmit(x) PROVE TypeOK'
    BY <1>0, <1>8 DEF Resubmit, Submits, SubmitFails, InFlight
  <1>9. ASSUME NEW x \in Xfers, HostCompletes(x) PROVE TypeOK'
    BY <1>0, <1>9 DEF HostCompletes
  <1>10. CASE CloseStep
    <2>1. UNCHANGED <<idx, xfer, g_capture_file, round, batch>>
      BY <1>10, Zenon DEF CloseStep, LeaveLoop, Release, Cleanup
    <2>2. /\ pc' \in {"cancel", "cleanup", "exited"}
          /\ exit' \in {"none", "success", "failure"}
          /\ held' \subseteq {"context", "handle", "interface", "streaming"}
          /\ driver' \in {"none", "attached", "detached", "lost"}
      BY <1>10 DEF CloseStep, LeaveLoop, Release, Cleanup, Exits
    <2>3. QED
      BY <1>0, <2>1, <2>2
  <1>11. CASE StopCapture
    BY <1>0, <1>11 DEF StopCapture, InFlight
  <1>12. CASE CleanupXfers
    BY <1>0, <1>12 DEF CleanupXfers
  <1>13. CASE Outside
    <2>1. UNCHANGED <<pc, idx, xfer, g_capture_file, round, batch, held, driver, exit>>
      BY <1>13, Zenon DEF Outside, Signal, TimeUp, Unplug
    <2>2. QED
      BY <1>0, <2>1
  <1>14. CASE UNCHANGED vars
    BY <1>0, <1>14 DEF vars
  <1>15. QED
    BY <1>1, <1>2, <1>3, <1>4, <1>5, <1>6, <1>7, <1>8, <1>9, <1>10, <1>11, <1>12, <1>13, <1>14,
       NextIsOfAKind

\* One callback at a time, on a completed transfer of this round.
LEMMA RoundInvStep ==
  ASSUME TypeOK, RoundInv, [Next]_vars
  PROVE  RoundInv'
  <1> USE DEF TypeOK, RoundInv, captureVars, eventVars, deviceVars, envVars
  <1>1. CASE OpenStep
    BY <1>1 DEF OpenStep, Hold, Exits, InitLibusb, Find, ReturnEarly, NoKernelDriver,
       DetachKernelDriver, Claim, SetAltSetting, OpenCaptureFile, OpenFails
  <1>2. CASE Allocate \/ AllocateFails
    BY <1>2 DEF Allocate, AllocateFails
  <1>3. CASE SubmitIn \/ SubmitOut
    BY <1>3 DEF SubmitIn, SubmitOut, Submits, SubmitFails
  <1>4. CASE RoundStep
    BY <1>4 DEF RoundStep, BeginRound, Wake, EndRound, EventsFail, After, Pending, Statuses
  <1>5. ASSUME NEW x \in Xfers, Callback(x) PROVE RoundInv'
    BY <1>5 DEF Callback, Statuses
  <1>6. ASSUME NEW x \in Xfers, Resubmit(x) PROVE RoundInv'
    BY <1>6 DEF Resubmit, Submits, SubmitFails, Statuses
  <1>7. ASSUME NEW x \in Xfers, HostCompletes(x) PROVE RoundInv'
    BY <1>7 DEF HostCompletes, Statuses, InFlight
  <1>8. CASE CloseStep
    BY <1>8 DEF CloseStep, LeaveLoop, Release, Cleanup, Exits
  <1>9. CASE StopCapture \/ CleanupXfers
    BY <1>9 DEF StopCapture, CleanupXfers
  <1>10. CASE Outside
    BY <1>10 DEF Outside, Signal, TimeUp, Unplug
  <1>11. CASE UNCHANGED vars
    BY <1>11 DEF vars
  <1>12. QED
    BY <1>1, <1>2, <1>3, <1>4, <1>5, <1>6, <1>7, <1>8, <1>9, <1>10, <1>11, NextIsOfAKind

\* The transfers that main() submitted stay in the cycle until it cancels them;
\* from then on a callback finds g_running cleared and does not resubmit.
LEMMA CycleStep ==
  ASSUME TypeOK, RoundInv, CycleInv, [Next]_vars
  PROVE  CycleInv'
  <1> USE DEF TypeOK, CycleInv, InCycle, NothingFliesOn, captureVars, eventVars, deviceVars,
          envVars
  <1>1. CASE OpenStep
    <2>1. UNCHANGED <<idx, g_running, xfer>>
      BY <1>1 DEF OpenStep, InitLibusb, Find, ReturnEarly, NoKernelDriver,
         DetachKernelDriver, Claim, SetAltSetting, OpenCaptureFile, OpenFails
    <2>2. /\ pc \in {"init", "find", "kernel", "claim", "alt", "file"}
          /\ pc' \notin {"in", "out", "loop", "drain1", "drain2"}
      BY <1>1 DEF OpenStep, Hold, Exits, InitLibusb, Find, ReturnEarly, NoKernelDriver,
         DetachKernelDriver, Claim, SetAltSetting, OpenCaptureFile, OpenFails
    <2>3. QED
      BY <2>1, <2>2
  <1>2. CASE Allocate
    <2>1. /\ pc = "alloc" /\ pc' \in {"alloc", "in"}
          /\ pc' = "in" => idx' = 0
          /\ \A x \in Xfers : xfer'[x] \in {xfer[x], "idle"}
      BY <1>2 DEF Allocate
    <2>2. \A x \in Xfers : ~ (x[2] < 0)
      BY DEF Xfers, Idx
    <2>3. QED
      BY <2>1, <2>2
  <1>3. CASE AllocateFails
    BY <1>3 DEF AllocateFails
  <1>4. CASE SubmitIn
    <2>1. <<"in", idx>> \in Xfers
      BY DEF Xfers
    <2>2. QED
      BY <1>4, <2>1 DEF SubmitIn, Submits, SubmitFails
  <1>5. CASE SubmitOut
    <2>1. <<"out", idx>> \in Xfers /\ idx \in Nat /\ NumXfers \in Nat
      BY NumXfersAssumption DEF Xfers, Idx
    <2>2. \A x \in Xfers :
            x[2] \in Nat /\ x[2] < NumXfers /\ x \in {<<"in", x[2]>>, <<"out", x[2]>>}
      BY NumXfersAssumption DEF Xfers, Idx
    <2>3. CASE SubmitFails(<<"out", idx>>) /\ pc' = "xfers"
      BY <2>3
    <2>4. CASE Submits(<<"out", idx>>) /\ pc' = IF idx = NumXfers - 1 THEN "loop" ELSE "in"
      <3>1. /\ xfer' = [xfer EXCEPT ![<<"out", idx>>] = "flying"]
            /\ pc = "out" /\ pc' \in {"loop", "in"}
        BY <1>5, <2>4 DEF Submits, SubmitOut
      <3>2. \A x \in Xfers : x[2] < idx + 1 => xfer'[x] \in InCycle
        <4> SUFFICES ASSUME NEW x \in Xfers, x[2] < idx + 1 PROVE xfer'[x] \in InCycle
          OBVIOUS
        <4>1. CASE x[2] < idx
          BY <4>1, <3>1, <2>1
        <4>2. CASE x[2] = idx
          BY <4>2, <3>1, <2>1, <2>2
        <4>3. QED
          BY <4>1, <4>2, <2>1, <2>2
      <3>3. pc' = "loop" => \A x \in Xfers : xfer'[x] \in InCycle
        BY <3>2, <2>1, <2>2, <2>4
      <3>4. pc' = "in" => idx' = idx + 1
        BY <1>5, <2>4, <3>1 DEF SubmitOut
      <3>5. \A x \in Xfers : xfer'[x] \notin {"cancelling", "cancelled"}
        BY <3>1, <2>1
      <3>6. QED
        BY <3>1, <3>2, <3>3, <3>4, <3>5
    <2>5. QED
      BY <1>5, <2>3, <2>4 DEF SubmitOut
  <1>6. CASE RoundStep
    <2>1. UNCHANGED <<idx, g_running, xfer>>
      BY <1>6 DEF RoundStep, BeginRound, Wake, EndRound, EventsFail
    <2>2. pc' = pc \/ (pc = "loop" /\ pc' = "cancel") \/ (pc = "drain1" /\ pc' = "drain2")
            \/ pc' = "xfers"
      BY <1>6 DEF RoundStep, RoundInv, BeginRound, Wake, EndRound, EventsFail, After
    <2>3. QED
      BY <2>1, <2>2
  <1>7. ASSUME NEW x \in Xfers, Callback(x) PROVE CycleInv'
    BY <1>7 DEF Callback, RoundInv, Resubmits, Statuses
  <1>8. ASSUME NEW x \in Xfers, Resubmit(x) PROVE CycleInv'
    BY <1>8 DEF Resubmit, RoundInv, Submits, SubmitFails
  <1>9. ASSUME NEW x \in Xfers, HostCompletes(x) PROVE CycleInv'
    BY <1>9 DEF HostCompletes, InFlight, Statuses
  <1>10. CASE CloseStep
    BY <1>10 DEF CloseStep, LeaveLoop, Release, Cleanup, Exits
  <1>11. CASE StopCapture
    BY <1>11 DEF StopCapture, RoundInv
  <1>12. CASE CleanupXfers
    BY <1>12 DEF CleanupXfers
  <1>13. CASE Outside
    BY <1>13 DEF Outside, Signal, TimeUp, Unplug
  <1>14. CASE UNCHANGED vars
    BY <1>14 DEF vars
  <1>15. QED
    BY <1>1, <1>2, <1>3, <1>4, <1>5, <1>6, <1>7, <1>8, <1>9, <1>10, <1>11, <1>12, <1>13, <1>14,
       NextIsOfAKind

\* What is held: the goto of each failure skips only what was not acquired.
LEMMA HeldStep ==
  ASSUME TypeOK, RoundInv, HeldInv, [Next]_vars
  PROVE  HeldInv'
  <1> USE DEF TypeOK, HeldInv, captureVars, eventVars, deviceVars, envVars
  <1>1. CASE OpenStep
    BY <1>1 DEF OpenStep, Hold, Exits, InitLibusb, Find, ReturnEarly, NoKernelDriver,
       DetachKernelDriver, Claim, SetAltSetting, OpenCaptureFile, OpenFails
  <1>2. CASE Allocate \/ AllocateFails
    BY <1>2 DEF Allocate, AllocateFails
  <1>3. CASE SubmitIn \/ SubmitOut
    BY <1>3 DEF SubmitIn, SubmitOut
  <1>4. CASE RoundStep
    BY <1>4 DEF RoundStep, RoundInv, BeginRound, Wake, EndRound, EventsFail, After
  <1>5. ASSUME NEW x \in Xfers, Callback(x) \/ Resubmit(x) \/ HostCompletes(x) PROVE HeldInv'
    <2>1. UNCHANGED <<pc, held, claimed, driver, g_capture_file>>
      BY <1>5, Zenon DEF Callback, Resubmit, HostCompletes, deviceVars
    <2>2. QED
      BY <2>1
  <1>6. CASE CloseStep
    BY <1>6 DEF CloseStep, LeaveLoop, Release, Cleanup, Exits
  <1>7. CASE StopCapture \/ CleanupXfers
    BY <1>7 DEF StopCapture, CleanupXfers
  <1>8. CASE Outside
    <2>1. UNCHANGED <<pc, held, claimed, driver, g_capture_file>>
      BY <1>8, Zenon DEF Outside, Signal, TimeUp, Unplug
    <2>2. QED
      BY <2>1
  <1>9. CASE UNCHANGED vars
    BY <1>9 DEF vars
  <1>10. QED
    BY <1>1, <1>2, <1>3, <1>4, <1>5, <1>6, <1>7, <1>8, <1>9, NextIsOfAKind

-----------------------------------------------------------------------------
(***************************************************************************)
(* The theorems.                                                           *)
(***************************************************************************)
\* The cycle of the transfers, the round of callbacks and what is held at each
\* place of main() are an invariant of every run.
THEOREM IsoTestInvariant == Spec => []IInv
  <1>1. IInv /\ [Next]_vars => IInv'
    BY TypeStep, RoundInvStep, CycleStep, HeldStep DEF IInv
  <1>2. QED
    BY <1>1, InvInit, PTL DEF Spec

\* The state keeps its types, for any number of transfers.
THEOREM IsoTestTypeCorrect == Spec => []TypeOK
  <1>1. IInv => TypeOK
    BY DEF IInv
  <1>2. QED
    BY <1>1, IsoTestInvariant, PTL

\* While the capture goes on, no transfer of either direction falls out.
THEOREM CaptureKeepsBothDirections == Spec => []BothDirectionsActive
  <1>1. IInv => BothDirectionsActive
    BY DEF IInv, CycleInv, InCycle, BothDirectionsActive, InFlight, Statuses
  <1>2. QED
    BY <1>1, IsoTestInvariant, PTL

\* While it drains nothing is submitted, and what is with the host was cancelled.
THEOREM DrainSubmitsNothing == Spec => []NothingFliesOn
  <1>1. IInv => NothingFliesOn
    BY DEF IInv, CycleInv, NothingFliesOn
  <1>2. QED
    BY <1>1, IsoTestInvariant, PTL

\* On every path out of main() the handles, the file and the driver of a claimed
\* interface have been given back.
THEOREM IsoTestGivesBack == Spec => []GivenBackAtExit
  <1>1. IInv => GivenBackAtExit
    BY DEF IInv, HeldInv, GivenBackAtExit
  <1>2. QED
    BY <1>1, IsoTestInvariant, PTL

=============================================================================
