---------------------------- MODULE LatencyTool ----------------------------
(***************************************************************************)
(* djmt1-latency (tools/djmt1-latency.cpp) in the middle of the traffic    *)
(* between the bridge and the plugin: it sets the size of the IO buffers,  *)
(* empties the IN ring, writes an impulse to the OUT ring and polls the IN *)
(* ring for it.  While it does, the IN ring has two consumers and the OUT  *)
(* ring two producers, all of them with the helpers of shm_protocol.h that *)
(* were made for one of each.                                              *)
(*                                                                         *)
(* Positions count frames.  The data itself is left out (ShmRing has it):  *)
(* whether what the tool reads is the impulse is not determined.           *)
(***************************************************************************)
EXTENDS Integers

CONSTANTS
  Cap,         \* the capacity of a ring
  Word,        \* 2^64: the positions are uint64_t
  PacketLens,  \* what the bridge writes for an IN packet, or asks for an OUT packet
  BufferSizes, \* the sizes IO buffers may have
  ImpulseLen,  \* the length of the impulse
  ToolBuf,     \* the length of the buffer of the tool
  MaxSleeps,   \* timeout_us, in polls that found nothing
  MaxPos       \* bound: no write begins that would pass this position

ASSUME SizesAssumption ==
  /\ Cap \in Nat \ {0} /\ ImpulseLen \in Nat \ {0} /\ ToolBuf \in Nat \ {0}
  /\ PacketLens \subseteq Nat \ {0} /\ BufferSizes \subseteq Nat \ {0}
  /\ MaxSleeps \in Nat /\ MaxPos \in Nat
ASSUME WordAssumption == Word \in Nat /\ Word > 2 * MaxPos + Cap

VARIABLES
  write_pos,    \* in_write_pos and out_write_pos
  read_pos,     \* in_read_pos and out_read_pos
  call,         \* the call of a ring helper each client is in, with its locals
  buffer_size,  \* of Core Audio's IO
  pc,           \* where the tool is
  slept         \* elapsed_us, in polls

vars == <<write_pos, read_pos, call, buffer_size, pc, slept>>
toolVars == <<buffer_size, pc, slept>>

Rings == {"in", "out"}
Clients == {"bridge", "plugin", "tool"}
Idle == [op |-> "none", ring |-> "in", wp |-> 0, rp |-> 0, n |-> 0]

Init ==
  /\ write_pos = [r \in Rings |-> 0]
  /\ read_pos = [r \in Rings |-> 0]
  /\ call = [c \in Clients |-> Idle]
  /\ buffer_size \in BufferSizes
  /\ pc = "start"
  /\ slept = 0

-----------------------------------------------------------------------------
(***************************************************************************)
(* Faulty variants of the definitions below, one plausible slip each.      *)
(***************************************************************************)
\* Compares the positions as if they could not cross.
OverflowedNever(available) == FALSE

\* Returns 0 on overflow without storing the new position.
SkipWithoutStore(c) ==
  /\ call[c].op = "skip"
  /\ call' = [call EXCEPT ![c] = Idle]
  /\ UNCHANGED <<write_pos, read_pos>>

-----------------------------------------------------------------------------
(***************************************************************************)
(* The helpers, called by client c on ring r.                              *)
(***************************************************************************)
Distance(wp, rp) == (wp - rp) % Word
Overflowed(available) == available > Cap
Step(available, max) == IF available < max THEN available ELSE max

BeginWrite(c, r, len) ==
  /\ call[c].op = "none"
  /\ write_pos[r] + len <= MaxPos
  /\ call' = [call EXCEPT ![c] =
       [op |-> "write", ring |-> r, wp |-> write_pos[r], rp |-> 0, n |-> len]]
  /\ UNCHANGED <<write_pos, read_pos>>

EndWrite(c) ==
  /\ call[c].op = "write"
  /\ write_pos' = [write_pos EXCEPT ![call[c].ring] = (call[c].wp + call[c].n) % Word]
  /\ call' = [call EXCEPT ![c] = Idle]
  /\ UNCHANGED read_pos

\* Loads the position of the producer ...
BeginRead(c, r, max) ==
  /\ call[c].op = "none"
  /\ call' = [call EXCEPT ![c] =
       [op |-> "read", ring |-> r, wp |-> write_pos[r], rp |-> 0, n |-> max]]
  /\ UNCHANGED <<write_pos, read_pos>>

\* ... and then that of the consumer, which may be another client's doing.
Decide(c) ==
  LET rp == read_pos[call[c].ring]
      available == Distance(call[c].wp, rp)
  IN /\ call[c].op = "read"
     /\ call' = [call EXCEPT ![c] =
          IF Overflowed(available) THEN [@ EXCEPT !.op = "skip"]
          ELSE IF available = 0 THEN Idle
          ELSE [@ EXCEPT !.op = "copy", !.rp = rp, !.n = Step(available, call[c].n)]]
     /\ UNCHANGED <<write_pos, read_pos>>

SkipToWriter(c) ==
  /\ call[c].op = "skip"
  /\ read_pos' = [read_pos EXCEPT ![call[c].ring] = call[c].wp]
  /\ call' = [call EXCEPT ![c] = Idle]
  /\ UNCHANGED write_pos

EndRead(c) ==
  /\ call[c].op = "copy"
  /\ read_pos' = [read_pos EXCEPT ![call[c].ring] = (call[c].rp + call[c].n) % Word]
  /\ call' = [call EXCEPT ![c] = Idle]
  /\ UNCHANGED write_pos

GoOn(c) == EndWrite(c) \/ Decide(c) \/ SkipToWriter(c) \/ EndRead(c)

-----------------------------------------------------------------------------
(***************************************************************************)
(* The bridge and the plugin, one thread each.                             *)
(***************************************************************************)
BridgeWrites == \E len \in PacketLens : BeginWrite("bridge", "in", len)
BridgeReads == \E len \in PacketLens : BeginRead("bridge", "out", len)
PluginReads == BeginRead("plugin", "in", buffer_size)
PluginWrites == BeginWrite("plugin", "out", buffer_size)

Traffic ==
  /\ \/ BridgeWrites \/ BridgeReads \/ GoOn("bridge")
     \/ PluginReads \/ PluginWrites \/ GoOn("plugin")
  /\ UNCHANGED toolVars

-----------------------------------------------------------------------------
(***************************************************************************)
(* The tool: main() and run_loopback_test.                                 *)
(***************************************************************************)
\* --bufsize, which Core Audio may refuse.
SetBufferSize ==
  /\ pc = "start"
  /\ buffer_size' \in BufferSizes
  /\ pc' = "map"
  /\ UNCHANGED <<write_pos, read_pos, call, slept>>

\* No --loopback, no segment, or not a valid one.
NoLoopback ==
  /\ pc = "map"
  /\ pc' = "exited"
  /\ UNCHANGED <<write_pos, read_pos, call, buffer_size, slept>>

\* "Drain any old data in the IN ring": a load ...
BeginDrain ==
  /\ pc = "map"
  /\ call' = [call EXCEPT !["tool"] = [Idle EXCEPT !.op = "drain", !.wp = write_pos["in"]]]
  /\ pc' = "drain"
  /\ UNCHANGED <<write_pos, read_pos, buffer_size, slept>>

\* ... and a store.
EndDrain ==
  /\ pc = "drain"
  /\ read_pos' = [read_pos EXCEPT !["in"] = call["tool"].wp]
  /\ call' = [call EXCEPT !["tool"] = Idle]
  /\ pc' = "impulse"
  /\ UNCHANGED <<write_pos, buffer_size, slept>>

SendImpulse ==
  /\ pc = "impulse"
  /\ BeginWrite("tool", "out", ImpulseLen)
  /\ pc' = "send"
  /\ UNCHANGED <<buffer_size, slept>>

ImpulseSent ==
  /\ pc = "send"
  /\ EndWrite("tool")
  /\ pc' = "poll"
  /\ UNCHANGED <<buffer_size, slept>>

\* shm_ring_available loads both positions, one after the other.
Poll ==
  /\ pc = "poll"
  /\ slept < MaxSleeps
  /\ call' = [call EXCEPT !["tool"] = [Idle EXCEPT !.op = "poll", !.wp = write_pos["in"]]]
  /\ pc' = "polled"
  /\ UNCHANGED <<write_pos, read_pos, buffer_size, slept>>

\* Nothing there: sleep.  Only this counts towards the timeout.
Sleep ==
  /\ pc = "polled"
  /\ Distance(call["tool"].wp, read_pos["in"]) = 0
  /\ call' = [call EXCEPT !["tool"] = Idle]
  /\ slept' = slept + 1
  /\ pc' = "poll"
  /\ UNCHANGED <<write_pos, read_pos, buffer_size>>

\* Something is there: at most a buffer full of it is asked for.
AskFor ==
  LET available == Distance(call["tool"].wp, read_pos["in"])
  IN /\ pc = "polled"
     /\ available > 0
     /\ call' = [call EXCEPT !["tool"] = [Idle EXCEPT !.n = Step(available, ToolBuf)]]
     /\ pc' = "ask"
     /\ UNCHANGED <<write_pos, read_pos, buffer_size, slept>>

Read ==
  /\ pc = "ask"
  /\ BeginRead("tool", "in", call["tool"].n)
  /\ pc' = "read"
  /\ UNCHANGED <<buffer_size, slept>>

\* What was read ends with the impulse, or does not.
Scan ==
  /\ pc = "read"
  /\ Decide("tool") \/ SkipToWriter("tool") \/ EndRead("tool")
  /\ pc' \in IF call'["tool"] # Idle THEN {"read"}
             ELSE IF call["tool"].op = "copy" THEN {"poll", "exited"} ELSE {"poll"}
  /\ UNCHANGED <<buffer_size, slept>>

GiveUp ==
  /\ pc = "poll"
  /\ slept = MaxSleeps
  /\ pc' = "exited"
  /\ UNCHANGED <<write_pos, read_pos, call, buffer_size, slept>>

ToolStep ==
  \/ SetBufferSize \/ NoLoopback \/ BeginDrain \/ EndDrain \/ SendImpulse \/ ImpulseSent
  \/ Poll \/ Sleep \/ AskFor \/ Read \/ Scan \/ GiveUp

Next == Traffic \/ ToolStep

Spec == Init /\ [][Next]_vars

\* The thread of the bridge finishes its calls and reads again and again for its
\* OUT transfers, and so does the IO thread of the plugin for its clients.
\* Nothing is assumed of the tool.
FairSpec ==
  /\ Spec
  /\ \A c \in {"bridge", "plugin"} : WF_vars(GoOn(c) /\ UNCHANGED toolVars)
  /\ SF_vars(BridgeReads /\ UNCHANGED toolVars)
  /\ SF_vars(PluginReads /\ UNCHANGED toolVars)

-----------------------------------------------------------------------------
(***************************************************************************)
(* Properties.                                                             *)
(***************************************************************************)
Call ==
  [op : {"none", "write", "read", "skip", "copy", "drain", "poll"}, ring : Rings,
   wp : 0 .. MaxPos, rp : 0 .. MaxPos, n : Nat]

\* The state has its types; no position passes the last write, and no copy is
\* longer than the ring.
TypeOK ==
  /\ write_pos \in [Rings -> 0 .. MaxPos]
  /\ read_pos \in [Rings -> 0 .. MaxPos]
  /\ call \in [Clients -> Call]
  /\ \A c \in Clients : call[c].op = "copy" => call[c].n <= Cap
  /\ buffer_size \in BufferSizes
  /\ pc \in {"start", "map", "drain", "impulse", "send", "poll", "polled", "ask", "read", "exited"}
  /\ slept \in 0 .. MaxSleeps

\* Two consumers that undo each other's stores never get ahead of the producer of
\* the IN ring: the difference of the positions may wrap for one of them, but
\* what it stores is never past what was written.
NeverAheadOfInput ==
  /\ read_pos["in"] <= write_pos["in"]
  /\ \A c \in Clients :
       call[c].ring = "in" =>
         /\ call[c].wp <= write_pos["in"]
         /\ call[c].op = "copy" => call[c].rp + call[c].n <= call[c].wp

\* The impulse can take the write position of the OUT ring back below the read
\* position.  The difference then wraps, the bridge takes it for an overflow,
\* and the two are in order again: the test does no lasting harm.
OutputRecovers == read_pos["out"] > write_pos["out"] ~> read_pos["out"] <= write_pos["out"]

\* Whatever the tool does to the IN ring, and however long the IO buffers are, the
\* plugin does not get stuck: everything written is in the end behind it.
InputConsumed == \A pos \in 1 .. MaxPos : write_pos["in"] >= pos ~> read_pos["in"] >= pos

-----------------------------------------------------------------------------
(***************************************************************************)
(* The inductive strengthening of NeverAheadOfInput.                       *)
(***************************************************************************)
\* What a call in progress has loaded bounds what it will store.  The bridge is
\* the only producer of the IN ring; the OUT ring has two.
CallsInv ==
  \A c \in Clients :
    /\ call[c].op = "copy" => call[c].rp + call[c].n <= call[c].wp
    /\ call[c].op = "write" =>
         /\ call[c].wp + call[c].n <= MaxPos
         /\ call[c].ring = "in" => c = "bridge" /\ call[c].wp = write_pos["in"]

\* A poll is begun only before the timeout.
PollsInTime == pc = "polled" => slept < MaxSleeps

\* What is stored to drain is the position of the IN ring.
DrainsInput == pc = "drain" => call["tool"].ring = "in"

IInv == TypeOK /\ NeverAheadOfInput /\ CallsInv /\ PollsInTime /\ DrainsInput

=============================================================================
