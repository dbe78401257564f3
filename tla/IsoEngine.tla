----------------------------- MODULE IsoEngine -----------------------------
(***************************************************************************)
(* The isochronous transfer engine of bridge/iso_engine.cpp, with the part *)
(* of libusb it drives: transfers that the host controller completes in    *)
(* any order, and completion callbacks that run only while the engine's    *)
(* thread is inside libusb_handle_events_timeout_completed (a "round").    *)
(*                                                                         *)
(* Ring accesses are abstracted to what they give and take: ShmRing models *)
(* them.  LIBUSB_TRANSFER_TIMED_OUT is treated like COMPLETED by the code  *)
(* and is not told apart here; "error" stands for the statuses that only   *)
(* count an error (ERROR, STALL, OVERFLOW).                                *)
(*                                                                         *)
(* Assumed of libusb, as its API states it: a transfer comes back with     *)
(* CANCELLED only after somebody cancelled it.  Both handlers drop such a  *)
(* transfer whether or not the engine runs, and leave m_running alone: a   *)
(* host that aborted transfers on its own would starve a running engine.   *)
(***************************************************************************)
EXTENDS Naturals

CONSTANTS
  NumXfers,    \* DJMT1_NUM_XFERS, transfers per direction
  NumPackets,  \* DJMT1_ISOC_FRAMES_PER_XFER, packets per transfer
  PacketSize,  \* DJMT1_ISOC_PACKET_SIZE, bytes of an OUT packet
  InLens,      \* the lengths > 0 an IN packet may arrive with
  FrameSize,   \* DJMT1_SHM_FRAME_SIZE
  MaxBytes     \* bound: the IN endpoint delivers no more than this

ASSUME SizeAssumption ==
  /\ NumXfers \in Nat \ {0}
  /\ NumPackets \in Nat \ {0}
  /\ PacketSize \in Nat \ {0}
  /\ InLens \subseteq Nat \ {0}
  /\ FrameSize \in Nat \ {0}
  /\ MaxBytes \in Nat

VARIABLES
  m_running,     \* std::atomic<bool> m_running
  start_pc,      \* where Start() is
  start_idx,     \* the loop index of Start()
  xfer,          \* what became of each transfer
  stale,         \* the packets of each OUT buffer that hold data already played
  in_write_pos,  \* bytes written to the IN ring
  sample_count,  \* shm->sample_count
  round,         \* where libusb_handle_events_timeout_completed is
  batch,         \* the completed transfers this round has still to call back
  plugged        \* is the device on the bus?

engineVars == <<m_running, start_pc, start_idx, xfer, stale, in_write_pos, sample_count>>
eventVars == <<round, batch>>
isoVars == <<engineVars, eventVars, plugged>>

Idx == 0 .. NumXfers - 1
Packets == 0 .. NumPackets - 1
Xfers == {"in", "out"} \X Idx

\* What a loop over the packets of a transfer adds up: f[p] for every packet p.
Total(f) ==
  LET Sum[n \in 0 .. NumPackets] == IF n = 0 THEN 0 ELSE Sum[n - 1] + f[n - 1]
  IN Sum[NumPackets]

\* A transfer is a null pointer, allocated, submitted, or back from the host
\* with a status and waiting for its callback.
InFlight == {"flying", "cancelling"}
Statuses == {"completed", "cancelled", "no_device", "error"}
XferStates == {"null", "idle"} \cup InFlight \cup Statuses

Pending == {x \in Xfers : xfer[x] \in Statuses}
Started == start_pc = "done"

Init ==
  /\ m_running = FALSE
  /\ start_pc = "new"
  /\ start_idx = 0
  /\ xfer = [x \in Xfers |-> "null"]
  /\ stale = [i \in Idx |-> {}]
  /\ in_write_pos = 0
  /\ sample_count = 0
  /\ round = "none"
  /\ batch = {}
  /\ plugged \in BOOLEAN

-----------------------------------------------------------------------------
(***************************************************************************)
(* Faulty variants of the definitions below, one plausible slip each.      *)
(***************************************************************************)
\* No memset after a short read.
NoPadding(got) == 0

\* Counts the frame a packet ends in the middle of.
FramesRoundedUp(lens) ==
  Total([p \in Packets |-> (lens[p] + FrameSize - 1) \div FrameSize])

\* Submits whether or not the engine still runs.
SubmitUnguarded(x) ==
  \/ /\ plugged
     /\ xfer' = [xfer EXCEPT ![x] = "flying"]
     /\ UNCHANGED m_running
  \/ /\ xfer' = [xfer EXCEPT ![x] = "idle"]
     /\ m_running' = FALSE

\* Gives up a transfer at the first error.
ResubmitsNoError(x) == xfer[x] = "completed"

\* Does not notice that the device is gone.
RunsOnDisconnected(x) == m_running

\* Cancels, but leaves m_running set.
StopCancelsOnly ==
  /\ xfer' = [x \in Xfers |-> IF xfer[x] = "flying" THEN "cancelling" ELSE xfer[x]]
  /\ UNCHANGED m_running

\* Goes on to an index past the last.
AllocateOneTooMany ==
  LET last == start_idx = NumXfers
  IN /\ start_pc = "alloc"
     /\ xfer' = [x \in Xfers |-> IF x[2] = start_idx THEN "idle" ELSE xfer[x]]
     /\ m_running' = last
     /\ start_pc' = IF last THEN "in" ELSE "alloc"
     /\ start_idx' = IF last THEN 0 ELSE start_idx + 1
     /\ UNCHANGED <<stale, in_write_pos, sample_count, eventVars, plugged>>

-----------------------------------------------------------------------------
(***************************************************************************)
(* Submission.                                                             *)
(***************************************************************************)

\* libusb_submit_transfer is tried twice.  Two failures stop the engine, and
\* an engine that is stopped submits nothing.
Submit(x) ==
  \/ /\ ~m_running
     /\ xfer' = [xfer EXCEPT ![x] = "idle"]
     /\ UNCHANGED m_running
  \/ /\ m_running /\ plugged
     /\ xfer' = [xfer EXCEPT ![x] = "flying"]
     /\ UNCHANGED m_running
  \/ /\ m_running
     /\ xfer' = [xfer EXCEPT ![x] = "idle"]
     /\ m_running' = FALSE

\* The bytes of silence memset adds to the got bytes of a packet.
Padding(got) == IF got < PacketSize THEN PacketSize - got ELSE 0

SubmitIn(i) == Submit(<<"in", i>>) /\ UNCHANGED stale

\* Every packet of the buffer is filled from the OUT ring, which gives it any
\* number of bytes, and padded.
SubmitOut(i) ==
  /\ Submit(<<"out", i>>)
  /\ IF m_running
       THEN \E got \in [Packets -> 0 .. PacketSize] :
              stale' = [stale EXCEPT ![i] =
                         {p \in @ : got[p] + Padding(got[p]) < PacketSize}]
       ELSE UNCHANGED stale

-----------------------------------------------------------------------------
(***************************************************************************)
(* Start(): allocate every transfer, then submit every transfer.           *)
(***************************************************************************)
BeginStart ==
  /\ start_pc = "new"
  /\ ~m_running
  /\ start_pc' = "alloc"
  /\ start_idx' = 0
  /\ UNCHANGED <<m_running, xfer, stale, in_write_pos, sample_count, eventVars, plugged>>

\* Both buffers and both transfers of one index; after the last, m_running.
Allocate ==
  LET last == start_idx = NumXfers - 1
  IN /\ start_pc = "alloc"
     /\ xfer' = [x \in Xfers |-> IF x[2] = start_idx THEN "idle" ELSE xfer[x]]
     /\ m_running' = last
     /\ start_pc' = IF last THEN "in" ELSE "alloc"
     /\ start_idx' = IF last THEN 0 ELSE start_idx + 1
     /\ UNCHANGED <<stale, in_write_pos, sample_count, eventVars, plugged>>

\* One of the four allocations fails: Start returns false, with the IN transfer
\* of this index allocated or not.
AllocateFails ==
  /\ start_pc = "alloc"
  /\ xfer' \in {xfer, [xfer EXCEPT ![<<"in", start_idx>>] = "idle"]}
  /\ start_pc' = "failed"
  /\ UNCHANGED <<m_running, start_idx, stale, in_write_pos, sample_count, eventVars, plugged>>

StartIn ==
  /\ start_pc = "in"
  /\ SubmitIn(start_idx)
  /\ start_pc' = "out"
  /\ UNCHANGED <<start_idx, in_write_pos, sample_count, eventVars, plugged>>

StartOut ==
  LET last == start_idx = NumXfers - 1
  IN /\ start_pc = "out"
     /\ SubmitOut(start_idx)
     /\ start_pc' = IF last THEN "done" ELSE "in"
     /\ start_idx' = IF last THEN 0 ELSE start_idx + 1
     /\ UNCHANGED <<in_write_pos, sample_count, eventVars, plugged>>

StartStep == Allocate \/ AllocateFails \/ StartIn \/ StartOut

-----------------------------------------------------------------------------
(***************************************************************************)
(* The completion callbacks.                                               *)
(***************************************************************************)

\* Statuses after which the handler goes on to resubmit.
Resubmits(x) == xfer[x] \in {"completed", "error"}

\* Does the engine go on after a status that is not resubmitted?
RunsOn(x) == m_running /\ xfer[x] # "no_device"

\* The sum of the bytes, and of the whole frames, of the packets of a transfer.
Bytes(lens) == Total(lens)
Frames(lens) == Total([p \in Packets |-> lens[p] \div FrameSize])

\* The packets of a completed IN transfer go to the IN ring.  A packet that
\* failed, or that is empty, has length 0.
Deliver(x) ==
  IF x[1] = "in" /\ xfer[x] = "completed"
    THEN \E lens \in [Packets -> InLens \cup {0}] :
           /\ in_write_pos + Bytes(lens) <= MaxBytes
           /\ in_write_pos' = in_write_pos + Bytes(lens)
           /\ sample_count' = sample_count + Frames(lens)
    ELSE UNCHANGED <<in_write_pos, sample_count>>

\* HandleInCompletion and HandleOutCompletion.
Callback(x) ==
  /\ round = "calls"
  /\ x \in batch
  /\ batch' = batch \ {x}
  /\ Deliver(x)
  /\ IF Resubmits(x)
       THEN IF x[1] = "in" THEN SubmitIn(x[2]) ELSE SubmitOut(x[2])
       ELSE /\ xfer' = [xfer EXCEPT ![x] = "idle"]
            /\ m_running' = RunsOn(x)
            /\ UNCHANGED stale
  /\ UNCHANGED <<start_pc, start_idx, round, plugged>>

-----------------------------------------------------------------------------
(***************************************************************************)
(* Stop() and the destructor.                                              *)
(***************************************************************************)
Stopped ==
  /\ m_running' = FALSE
  /\ xfer' = IF m_running
               THEN [x \in Xfers |-> IF xfer[x] = "flying" THEN "cancelling" ELSE xfer[x]]
               ELSE xfer

Stop ==
  /\ start_pc \in {"done", "failed"}
  /\ round = "none"
  /\ Stopped
  /\ UNCHANGED <<start_pc, start_idx, stale, in_write_pos, sample_count, eventVars, plugged>>

\* Stop, then every transfer that was allocated is freed, wherever it is.
Destroy ==
  /\ start_pc \in {"new", "done", "failed"}
  /\ round = "none"
  /\ m_running' = FALSE
  /\ xfer' = [x \in Xfers |-> "null"]
  /\ start_pc' = "destroyed"
  /\ UNCHANGED <<start_idx, stale, in_write_pos, sample_count, eventVars, plugged>>

-----------------------------------------------------------------------------
(***************************************************************************)
(* libusb and the bus.                                                     *)
(***************************************************************************)

\* The host controller is done with a transfer.  An OUT buffer has been played.
\* CANCELLED answers a cancellation only, NO_DEVICE a disconnect.
HostCompletes(x) ==
  /\ xfer[x] \in InFlight
  /\ \E status \in Statuses :
       /\ status = "completed" => plugged
       /\ status = "cancelled" => xfer[x] = "cancelling"
       /\ status = "no_device" => ~plugged
       /\ xfer' = [xfer EXCEPT ![x] = status]
  /\ stale' = IF x[1] = "out" THEN [stale EXCEPT ![x[2]] = Packets] ELSE stale
  /\ UNCHANGED <<m_running, start_pc, start_idx, in_write_pos, sample_count, eventVars, plugged>>

BeginRound ==
  /\ round = "none"
  /\ round' = "wait"
  /\ UNCHANGED <<engineVars, batch, plugged>>

\* The thread wakes up and takes the list of the transfers completed so far.
Wake ==
  /\ round = "wait"
  /\ Pending # {}
  /\ round' = "calls"
  /\ batch' = Pending
  /\ UNCHANGED <<engineVars, plugged>>

TimeOut ==
  /\ round = "wait"
  /\ Pending = {}
  /\ round' = "none"
  /\ UNCHANGED <<engineVars, batch, plugged>>

\* Handling events fails before any callback has run.
EventsFail ==
  /\ round = "wait"
  /\ round' = "none"
  /\ UNCHANGED <<engineVars, batch, plugged>>

EndRound ==
  /\ round = "calls"
  /\ batch = {}
  /\ round' = "none"
  /\ UNCHANGED <<engineVars, batch, plugged>>

Unplug ==
  /\ plugged
  /\ plugged' = FALSE
  /\ UNCHANGED <<engineVars, eventVars>>

RoundStep == Wake \/ TimeOut \/ EndRound \/ \E x \in Xfers : Callback(x)

-----------------------------------------------------------------------------
(***************************************************************************)
(* The engine with a client that starts it once, runs rounds, and stops    *)
(* and destroys it whenever it is not inside a round.                      *)
(***************************************************************************)
ClientRound == Started /\ BeginRound

Next ==
  \/ BeginStart
  \/ StartStep
  \/ ClientRound
  \/ RoundStep
  \/ EventsFail
  \/ Stop
  \/ Destroy
  \/ Unplug
  \/ \E x \in Xfers : HostCompletes(x)

Spec == Init /\ [][Next]_isoVars

\* The host controller completes what was submitted to it, and the client keeps
\* running rounds, also after the engine stopped, which do not fail each time that
\* a completion is there.  Nobody has to stop the engine, and the device may stay.
\* main() is not such a client: once the engine stopped it runs two rounds more
\* (see DrainedBeforeClose of Bridge).
FairSpec ==
  /\ Spec
  /\ WF_isoVars(ClientRound \/ RoundStep)
  /\ SF_isoVars(Wake)
  /\ \A x \in Xfers : WF_isoVars(HostCompletes(x))

-----------------------------------------------------------------------------
(***************************************************************************)
(* Properties.                                                             *)
(***************************************************************************)
\* The types of the control state: the members of the engine, its transfers and
\* buffers, and the event handling of libusb.
ControlTypeOK ==
  /\ m_running \in BOOLEAN
  /\ start_pc \in {"new", "alloc", "in", "out", "done", "failed", "destroyed"}
  /\ start_idx \in Idx
  /\ xfer \in [Xfers -> XferStates]
  /\ stale \in [Idx -> SUBSET Packets]
  /\ round \in {"none", "wait", "calls"}
  /\ batch \subseteq Xfers
  /\ plugged \in BOOLEAN

\* The state has the types the C++ declarations give it; Start() never indexes
\* past the last transfer.
TypeOK ==
  /\ ControlTypeOK
  /\ in_write_pos \in Nat
  /\ sample_count \in Nat

\* "DJM-T1 requires both IN and OUT endpoints active simultaneously": while the
\* engine runs no transfer of either direction is ever dropped, whatever the
\* statuses of the completions.
NoTransferDropped ==
  Started /\ m_running =>
    \A x \in Xfers : xfer[x] \in InFlight \/ (xfer[x] \in Statuses \ {"cancelled"})

\* No packet on its way to the device holds audio that was already played: what
\* the ring does not give is silence.
NothingPlayedTwice ==
  \A i \in Idx : xfer[<<"out", i>>] \in InFlight => stale[i] = {}

\* sample_count counts whole frames that are in the IN ring: it never runs ahead
\* of the bytes written, not even when packets end in the middle of a frame.
SamplesInStep == sample_count * FrameSize <= in_write_pos

\* Once the engine has stopped, for whatever reason, it does not start again
\* and no transfer is submitted any more.
StaysStopped ==
  [][~m_running /\ start_pc \in {"in", "out", "done", "destroyed"} =>
       /\ ~m_running'
       /\ \A x \in Xfers : xfer'[x] \in InFlight => xfer[x] \in InFlight]_isoVars

\* An engine that has stopped gets all its transfers back, if the client keeps
\* handling events: even those that Stop never cancelled because a disconnect or
\* a failed submission had already cleared m_running.
Drains == Started /\ ~m_running ~> \A x \in Xfers : xfer[x] \in {"null", "idle"}

-----------------------------------------------------------------------------
(***************************************************************************)
(* The inductive strengthening of the safety properties.                   *)
(***************************************************************************)

\* Has Start() come past the submission of x?
Submitted(x) ==
  \/ start_pc = "done"
  \/ start_pc \in {"in", "out"} /\ x[2] < start_idx
  \/ start_pc = "out" /\ x = <<"in", start_idx>>

\* While the engine runs, every transfer that Start() submitted is still with
\* libusb, and none of them was cancelled.
CycleInv ==
  m_running =>
    /\ start_pc \in {"in", "out", "done"}
    /\ \A x \in Xfers : xfer[x] \notin {"cancelling", "cancelled"}
    /\ \A x \in Xfers : Submitted(x) => xfer[x] \in InFlight \cup Statuses

\* Callbacks run only once Start() is over, on transfers that wait for one, and
\* nothing is submitted before Start() gets to it.
RoundInv ==
  /\ round # "none" => start_pc = "done"
  /\ batch \subseteq Pending
  /\ round # "calls" => batch = {}
  /\ start_pc \in {"new", "alloc"} => \A x \in Xfers : xfer[x] \in {"null", "idle"}

=============================================================================
