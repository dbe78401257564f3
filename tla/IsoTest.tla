------------------------------ MODULE IsoTest ------------------------------
(***************************************************************************)
(* djmt1-iso-test, the standalone test of tools/djmt1-iso-test.c: open the *)
(* device, capture for a while with transfers of its own in both           *)
(* directions, give everything back.                                       *)
(*                                                                         *)
(* It shares no code with the bridge, and differs from it where it         *)
(* matters: a submission is tried once, g_running is a global that a       *)
(* signal handler clears in the middle of a callback, failures leave by    *)
(* goto, and the capture ends when its time is up.                         *)
(*                                                                         *)
(* The callbacks run inside libusb_handle_events_timeout_completed, which  *)
(* main() calls in a loop and twice more to drain (a "round").  What is    *)
(* captured is abstracted to whether there is any; the boost request, the  *)
(* counters and the reports change nothing else.                           *)
(***************************************************************************)
EXTENDS Naturals

CONSTANT NumXfers  \* DJMT1_NUM_XFERS, transfers per direction

ASSUME NumXfersAssumption == NumXfers \in Nat \ {0}

VARIABLES
  pc,              \* where main() is
  idx,             \* its loop index
  g_running,
  time_up,         \* elapsed_seconds() >= g_capture_seconds
  xfer,            \* what became of each transfer
  captured,        \* g_bytes_captured > 0
  g_capture_file,
  round,           \* where libusb_handle_events_timeout_completed is
  batch,           \* the completed transfers this round has still to call back
  held,            \* what libusb holds for the process
  driver,          \* the kernel driver of the interface
  claimed,         \* history: the interface was claimed
  plugged,         \* is the device on the bus?
  exit

captureVars == <<idx, g_running, xfer, captured, g_capture_file>>
eventVars == <<round, batch>>
deviceVars == <<held, driver, claimed>>
envVars == <<time_up, plugged>>
vars == <<pc, captureVars, eventVars, deviceVars, envVars, exit>>

Idx == 0 .. NumXfers - 1
Xfers == {"in", "out"} \X Idx

\* A transfer is null, idle, with the host controller, back with a status, or
\* in a callback that has decided to resubmit it.
InFlight == {"flying", "cancelling"}
Statuses == {"completed", "cancelled", "error"}
Pending == {x \in Xfers : xfer[x] \in Statuses}

Init ==
  /\ pc = "init"
  /\ idx = 0
  /\ g_running = TRUE
  /\ time_up = FALSE
  /\ xfer = [x \in Xfers |-> "null"]
  /\ captured = FALSE
  /\ g_capture_file = "null"
  /\ round = "none"
  /\ batch = {}
  /\ held = {}
  /\ driver \in {"none", "attached"}
  /\ claimed = FALSE
  /\ plugged \in BOOLEAN
  /\ exit = "none"

-----------------------------------------------------------------------------
(***************************************************************************)
(* Faulty variants of the definitions below, one plausible slip each.      *)
(***************************************************************************)
\* Gives up a transfer at an error, like at a cancellation.
ResubmitsNoError(x) == xfer[x] = "completed" /\ g_running /\ ~time_up

\* Keeps draining until every transfer has come back.
DrainsAll(there) ==
  CASE there = "loop" -> "loop"
    [] OTHER -> IF \E x \in Xfers : xfer[x] \in InFlight THEN "drain2" ELSE "xfers"

\* Counts on the loop to have cleared g_running.
StopStillRunning ==
  /\ pc = "cancel"
  /\ xfer' = [x \in Xfers |-> IF xfer[x] = "flying" THEN "cancelling" ELSE xfer[x]]
  /\ pc' = "drain1"
  /\ UNCHANGED <<idx, g_running, captured, g_capture_file, eventVars, deviceVars, envVars, exit>>

\* Leaves by the wrong label.
AllocateFailsToCleanup ==
  /\ pc = "alloc"
  /\ pc' = "cleanup"
  /\ UNCHANGED <<captureVars, eventVars, deviceVars, envVars, exit>>

\* Goes on to an index past the last.
AllocateOneTooMany ==
  LET last == idx = NumXfers
  IN /\ pc = "alloc"
     /\ xfer' = [x \in Xfers |-> IF x[2] = idx THEN "idle" ELSE xfer[x]]
     /\ pc' = IF last THEN "in" ELSE "alloc"
     /\ idx' = IF last THEN 0 ELSE idx + 1
     /\ UNCHANGED <<g_running, captured, g_capture_file, eventVars, deviceVars, envVars, exit>>

-----------------------------------------------------------------------------
(***************************************************************************)
(* Opening the device.                                                     *)
(***************************************************************************)
\* The step of main() from here to there that has effects on what is held.
Hold(here, there, things) ==
  /\ pc = here
  /\ pc' = there
  /\ held' = held \cup things

Exits(status) ==
  /\ pc' = "exited"
  /\ exit' = status
  /\ held' = {}

InitLibusb ==
  /\ Hold("init", "find", {"context"})
  /\ UNCHANGED <<captureVars, eventVars, driver, claimed, envVars, exit>>

\* libusb_open_device_with_vid_pid.
Find ==
  /\ plugged
  /\ Hold("find", "kernel", {"handle"})
  /\ UNCHANGED <<captureVars, eventVars, driver, claimed, envVars, exit>>

\* libusb_init fails, or there is no device: return 1.
ReturnEarly ==
  /\ pc \in {"init", "find"}
  /\ Exits("failure")
  /\ UNCHANGED <<captureVars, eventVars, driver, claimed, envVars>>

\* libusb_kernel_driver_active does not return 1: there is no driver, or the call
\* fails, with a driver attached or not.
NoKernelDriver ==
  /\ Hold("kernel", "claim", {})
  /\ UNCHANGED <<captureVars, eventVars, driver, claimed, envVars, exit>>

\* kernel_detached is set when, and only when, the driver was detached.
DetachKernelDriver ==
  /\ driver = "attached" /\ plugged
  /\ driver' = "detached"
  /\ Hold("kernel", "claim", {})
  /\ UNCHANGED <<captureVars, eventVars, claimed, envVars, exit>>

Claim ==
  /\ plugged /\ driver # "attached"
  /\ claimed' = TRUE
  /\ Hold("claim", "alt", {"interface"})
  /\ UNCHANGED <<captureVars, eventVars, driver, envVars, exit>>

SetAltSetting ==
  /\ plugged
  /\ Hold("alt", "file", {"streaming"})
  /\ UNCHANGED <<captureVars, eventVars, driver, claimed, envVars, exit>>

OpenCaptureFile ==
  /\ Hold("file", "alloc", {})
  /\ g_capture_file' = "open"
  /\ UNCHANGED <<idx, g_running, xfer, captured, eventVars, driver, claimed, envVars, exit>>

\* goto cleanup, past the label that gives the kernel driver back; goto release.
OpenFails ==
  /\ \/ pc = "kernel" /\ driver = "attached" /\ pc' = "cleanup"
     \/ pc = "claim" /\ pc' = "cleanup"
     \/ pc \in {"alt", "file"} /\ pc' = "release"
  /\ UNCHANGED <<captureVars, eventVars, deviceVars, envVars, exit>>

-----------------------------------------------------------------------------
(***************************************************************************)
(* Allocating and submitting.                                              *)
(***************************************************************************)
\* Buffers and transfers of one index.
Allocate ==
  LET last == idx = NumXfers - 1
  IN /\ pc = "alloc"
     /\ xfer' = [x \in Xfers |-> IF x[2] = idx THEN "idle" ELSE xfer[x]]
     /\ pc' = IF last THEN "in" ELSE "alloc"
     /\ idx' = IF last THEN 0 ELSE idx + 1
     /\ UNCHANGED <<g_running, captured, g_capture_file, eventVars, deviceVars, envVars, exit>>

\* goto cleanup_xfers, with the IN transfer of this index allocated or not.
AllocateFails ==
  /\ pc = "alloc"
  /\ xfer' \in {xfer, [xfer EXCEPT ![<<"in", idx>>] = "idle"]}
  /\ pc' = "xfers"
  /\ UNCHANGED <<idx, g_running, captured, g_capture_file, eventVars, deviceVars, envVars, exit>>

\* libusb_submit_transfer is tried once.  main() does not look at g_running.
Submits(x) == plugged /\ xfer' = [xfer EXCEPT ![x] = "flying"] /\ UNCHANGED g_running
SubmitFails(x) == xfer' = [xfer EXCEPT ![x] = "idle"] /\ g_running' = FALSE

SubmitIn ==
  /\ pc = "in"
  /\ \/ Submits(<<"in", idx>>) /\ pc' = "out"
     \/ SubmitFails(<<"in", idx>>) /\ pc' = "xfers"
  /\ UNCHANGED <<idx, captured, g_capture_file, eventVars, deviceVars, envVars, exit>>

SubmitOut ==
  LET last == idx = NumXfers - 1
  IN /\ pc = "out"
     /\ \/ Submits(<<"out", idx>>) /\ pc' = IF last THEN "loop" ELSE "in"
        \/ SubmitFails(<<"out", idx>>) /\ pc' = "xfers"
     /\ idx' = IF last THEN 0 ELSE idx + 1
     /\ UNCHANGED <<captured, g_capture_file, eventVars, deviceVars, envVars, exit>>

-----------------------------------------------------------------------------
(***************************************************************************)
(* The event loop, and the two rounds that drain.                          *)
(***************************************************************************)
BeginRound ==
  /\ round = "none"
  /\ \/ pc = "loop" /\ g_running /\ ~time_up
     \/ pc \in {"drain1", "drain2"}
  /\ round' = "wait"
  /\ UNCHANGED <<pc, captureVars, batch, deviceVars, envVars, exit>>

\* Where main() goes when a round is over.
After(there) ==
  CASE there = "loop" -> "loop"
    [] there = "drain1" -> "drain2"
    [] there = "drain2" -> "xfers"

\* The thread wakes up and takes the list of the transfers completed so far.
Wake ==
  /\ round = "wait"
  /\ Pending # {}
  /\ round' = "calls"
  /\ batch' = Pending
  /\ UNCHANGED <<pc, captureVars, deviceVars, envVars, exit>>

\* All called back, or nothing came within 100 ms.
EndRound ==
  /\ (round = "wait" /\ Pending = {}) \/ (round = "calls" /\ batch = {})
  /\ round' = "none"
  /\ pc' = After(pc)
  /\ UNCHANGED <<captureVars, batch, deviceVars, envVars, exit>>

\* An error of libusb ends the loop, and the draining.
EventsFail ==
  /\ round = "wait"
  /\ round' = "none"
  /\ pc' = IF pc = "loop" THEN "cancel" ELSE "xfers"
  /\ UNCHANGED <<captureVars, batch, deviceVars, envVars, exit>>

\* A callback goes on to resubmit, even after an error.
Resubmits(x) == xfer[x] # "cancelled" /\ g_running /\ ~time_up

\* in_callback and out_callback, up to the decision to resubmit.  fwrite writes
\* to the capture file if there is one.
Callback(x) ==
  /\ round = "calls"
  /\ x \in batch
  /\ batch' = batch \ {x}
  /\ IF x[1] = "in" /\ xfer[x] = "completed" /\ g_capture_file = "open"
       THEN captured' \in {captured, TRUE}
       ELSE UNCHANGED captured
  /\ xfer' = [xfer EXCEPT ![x] = IF Resubmits(x) THEN "resubmit" ELSE "idle"]
  /\ round' = IF Resubmits(x) THEN "resubmit" ELSE "calls"
  /\ g_running' = (g_running /\ (xfer[x] = "cancelled" \/ ~time_up))
  /\ UNCHANGED <<pc, idx, g_capture_file, deviceVars, envVars, exit>>

\* Its second half: a signal in between does not keep it from submitting.
Resubmit(x) ==
  /\ round = "resubmit"
  /\ xfer[x] = "resubmit"
  /\ Submits(x) \/ SubmitFails(x)
  /\ round' = "calls"
  /\ UNCHANGED <<pc, idx, captured, g_capture_file, batch, deviceVars, envVars, exit>>

LeaveLoop ==
  /\ pc = "loop" /\ round = "none"
  /\ ~g_running \/ time_up
  /\ pc' = "cancel"
  /\ UNCHANGED <<captureVars, eventVars, deviceVars, envVars, exit>>

StopCapture ==
  /\ pc = "cancel"
  /\ g_running' = FALSE
  /\ xfer' = [x \in Xfers |-> IF xfer[x] = "flying" THEN "cancelling" ELSE xfer[x]]
  /\ pc' = "drain1"
  /\ UNCHANGED <<idx, captured, g_capture_file, eventVars, deviceVars, envVars, exit>>

-----------------------------------------------------------------------------
(***************************************************************************)
(* The labels at the end of main().                                        *)
(***************************************************************************)
\* Every transfer is freed, wherever it is, and the file is closed.
CleanupXfers ==
  /\ pc = "xfers"
  /\ xfer' = [x \in Xfers |-> "null"]
  /\ g_capture_file' = "closed"
  /\ pc' = "release"
  /\ UNCHANGED <<idx, g_running, captured, eventVars, deviceVars, envVars, exit>>

\* Results are ignored: the driver of a device that is gone is lost.
Release ==
  /\ pc = "release"
  /\ held' = held \ {"interface", "streaming"}
  /\ IF driver = "detached"
       THEN driver' \in IF plugged THEN {"attached", "lost"} ELSE {"lost"}
       ELSE UNCHANGED driver
  /\ pc' = "cleanup"
  /\ UNCHANGED <<captureVars, eventVars, claimed, envVars, exit>>

Cleanup ==
  /\ pc = "cleanup"
  /\ Exits(IF captured THEN "success" ELSE "failure")
  /\ UNCHANGED <<captureVars, eventVars, driver, claimed, envVars>>

MainStep ==
  \/ InitLibusb \/ Find \/ ReturnEarly \/ NoKernelDriver \/ DetachKernelDriver \/ Claim
  \/ SetAltSetting \/ OpenCaptureFile \/ OpenFails
  \/ Allocate \/ AllocateFails \/ SubmitIn \/ SubmitOut
  \/ BeginRound \/ Wake \/ EndRound \/ EventsFail
  \/ \E x \in Xfers : Callback(x) \/ Resubmit(x)
  \/ LeaveLoop \/ StopCapture \/ CleanupXfers \/ Release \/ Cleanup

-----------------------------------------------------------------------------
(***************************************************************************)
(* The environment.                                                        *)
(***************************************************************************)
\* SIGINT or SIGTERM.
Signal ==
  /\ g_running /\ pc # "exited"
  /\ g_running' = FALSE
  /\ UNCHANGED <<pc, idx, xfer, captured, g_capture_file, eventVars, deviceVars, envVars, exit>>

\* g_start_time is taken before the first submission.
TimeUp ==
  /\ ~time_up /\ pc \in {"in", "out", "loop", "cancel", "drain1", "drain2"}
  /\ time_up' = TRUE
  /\ UNCHANGED <<pc, captureVars, eventVars, deviceVars, plugged, exit>>

HostCompletes(x) ==
  /\ xfer[x] \in InFlight
  /\ \E status \in Statuses :
       /\ status = "completed" => plugged
       /\ status = "cancelled" => xfer[x] = "cancelling"
       /\ xfer' = [xfer EXCEPT ![x] = status]
  /\ UNCHANGED <<pc, idx, g_running, captured, g_capture_file, eventVars, deviceVars,
                 envVars, exit>>

Unplug ==
  /\ plugged
  /\ plugged' = FALSE
  /\ UNCHANGED <<pc, captureVars, eventVars, deviceVars, time_up, exit>>

Next ==
  \/ MainStep
  \/ Signal \/ TimeUp \/ Unplug
  \/ \E x \in Xfers : HostCompletes(x)

Spec == Init /\ [][Next]_vars

\* The only thread is scheduled, and time passes.  The host controller may keep
\* a transfer for ever.
FairSpec == Spec /\ WF_vars(MainStep) /\ WF_vars(TimeUp)

-----------------------------------------------------------------------------
(***************************************************************************)
(* Properties.                                                             *)
(***************************************************************************)
\* The state has its types; no loop goes past the last transfer.
TypeOK ==
  /\ pc \in {"init", "find", "kernel", "claim", "alt", "file", "alloc", "in", "out", "loop",
             "cancel", "drain1", "drain2", "xfers", "release", "cleanup", "exited"}
  /\ idx \in Idx
  /\ g_running \in BOOLEAN
  /\ time_up \in BOOLEAN
  /\ xfer \in [Xfers -> {"null", "idle", "resubmit"} \cup InFlight \cup Statuses]
  /\ captured \in BOOLEAN
  /\ g_capture_file \in {"null", "open", "closed"}
  /\ round \in {"none", "wait", "calls", "resubmit"}
  /\ batch \subseteq Xfers
  /\ held \subseteq {"context", "handle", "interface", "streaming"}
  /\ driver \in {"none", "attached", "detached", "lost"}
  /\ claimed \in BOOLEAN
  /\ plugged \in BOOLEAN
  /\ exit \in {"none", "success", "failure"}

\* "CRITICAL: DJM-T1 requires both IN and OUT endpoints active": while the
\* capture goes on no transfer of either direction falls out of the cycle,
\* whatever statuses the completions have.
BothDirectionsActive ==
  pc = "loop" /\ g_running =>
    \A x \in Xfers : xfer[x] \in InFlight \cup (Statuses \ {"cancelled"}) \cup {"resubmit"}

\* From the cancellation on nothing is submitted any more, and everything that is
\* still with the host was cancelled: a signal between the test of g_running and
\* the submission in a callback does not leave a transfer flying.
NothingFliesOn ==
  pc \in {"drain1", "drain2"} =>
    \A x \in Xfers : xfer[x] \notin {"flying", "resubmit"}

\* Whatever fails, and wherever it is unplugged, a program that got the interface
\* gives everything back: the libusb handles, the file, and the kernel driver.
GivenBackAtExit ==
  pc = "exited" =>
    /\ held = {}
    /\ g_capture_file # "open"
    /\ claimed => driver # "detached"

\* The test comes to its end, even if the host never gives a transfer back.
Terminates == <>(pc = "exited")

-----------------------------------------------------------------------------
(***************************************************************************)
(* The inductive strengthening of the safety properties.                   *)
(***************************************************************************)
\* The callbacks run in a round, a round runs in the loop or while draining, a
\* round calls back completed transfers, and one callback runs at a time.
RoundInv ==
  /\ round # "none" => pc \in {"loop", "drain1", "drain2"}
  /\ round \in {"none", "wait"} => batch = {}
  /\ \A x \in batch : xfer[x] \in Statuses
  /\ \A x \in Xfers : xfer[x] = "resubmit" => round = "resubmit"
  /\ \A x, y \in Xfers : xfer[x] = "resubmit" /\ xfer[y] = "resubmit" => x = y

\* The cycle of the transfers: how far the submissions have come, and that none is
\* cancelled before StopCapture or in use after it.
InCycle == {"flying", "completed", "error"}
CycleInv ==
  /\ pc \notin {"drain1", "drain2", "xfers", "release", "cleanup", "exited"} =>
       \A x \in Xfers : xfer[x] \notin {"cancelling", "cancelled"}
  /\ pc \in {"in", "out"} => \A x \in Xfers : x[2] < idx => xfer[x] \in InCycle
  /\ pc = "out" => xfer[<<"in", idx>>] \in InCycle
  /\ pc = "loop" /\ g_running => \A x \in Xfers : xfer[x] \in InCycle \cup {"resubmit"}
  /\ pc \in {"drain1", "drain2"} => ~g_running /\ NothingFliesOn

\* What is held at each place of main(): the file from its opening to
\* cleanup_xfers, the driver of a claimed interface until release.
HeldInv ==
  /\ pc = "exited" => held = {}
  /\ pc \in {"init", "find", "kernel", "claim"} => ~claimed
  /\ pc \in {"cleanup", "exited"} /\ claimed => driver # "detached"
  /\ pc \in {"init", "find", "kernel", "claim", "alt", "file", "release", "cleanup", "exited"} =>
       g_capture_file # "open"

IInv == TypeOK /\ RoundInv /\ CycleInv /\ HeldInv

=============================================================================
