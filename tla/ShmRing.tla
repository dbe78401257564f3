------------------------------- MODULE ShmRing -------------------------------
(***************************************************************************)
(* One shared-memory ring of bridge/shm_protocol.h with its single         *)
(* producer and its single consumer, at the granularity at which the two   *)
(* processes can interleave: every atomic load, every atomic store and     *)
(* every unit moved by a memcpy is a step.                                 *)
(*                                                                         *)
(* The same helpers serve both directions.  On the IN ring the bridge      *)
(* produces and the plugin consumes, and the consumer also jumps to the    *)
(* write position when it connects (Resyncs = TRUE).  On the OUT ring the  *)
(* plugin produces and the bridge consumes (Resyncs = FALSE).              *)
(*                                                                         *)
(* A unit of the stream stands for the byte of one position.  Its identity *)
(* is the position it was written for, so a slot that holds u holds the    *)
(* byte of position u, and NoUnit is the zero byte left by shm_init.       *)
(***************************************************************************)
EXTENDS Integers

CONSTANTS
  Cap,        \* ring_bytes, the capacity of the ring
  WriteLens,  \* the lengths the producer may pass to shm_ring_write
  ReadLens,   \* the max_len values the consumer may pass to shm_ring_read
  Resyncs,    \* does the consumer of this ring resynchronise on connecting?
  MaxPos      \* bound: no write begins that would pass this position

ASSUME CapAssumption == Cap \in Nat \ {0}
ASSUME LensAssumption == WriteLens \subseteq Nat \ {0} /\ ReadLens \subseteq Nat \ {0}
ASSUME ResyncsAssumption == Resyncs \in BOOLEAN
ASSUME MaxPosAssumption == MaxPos \in Nat

VARIABLES
  ring,       \* the unit each slot of the ring holds
  write_pos,  \* the producer's published position (std::atomic<uint64_t>)
  read_pos,   \* the consumer's published position (std::atomic<uint64_t>)
  wr,         \* the producer's call in progress: its locals and program counter
  rd,         \* the consumer's call in progress: its locals and program counter
  dst,        \* the consumer's destination buffer while the call runs
  batch       \* what the last call of the consumer that returned data gave it

vars == <<ring, write_pos, read_pos, wr, rd, dst, batch>>

NoUnit == -1
Slots == 0 .. Cap - 1
Unit == Nat \cup {NoUnit}

\* write_pos - read_pos.  The code subtracts uint64_t values: that the
\* difference never wraps is ConsumerBehindProducer.
Available(wp, rp) == wp - rp

IdleWriter == [pc |-> "idle", wp |-> 0, len |-> 0, copied |-> {}]
IdleReader == [pc |-> "idle", wp |-> 0, rp |-> 0, max |-> 0, n |-> 0, copied |-> {}]

\* The memory as shm_init leaves it.
Init ==
  /\ ring = [s \in Slots |-> NoUnit]
  /\ write_pos = 0
  /\ read_pos = 0
  /\ wr = IdleWriter
  /\ rd = IdleReader
  /\ dst = [s \in Slots |-> NoUnit]
  /\ batch = << >>

-----------------------------------------------------------------------------
(***************************************************************************)
(* Faulty variants of the operations below, one plausible slip each.  No   *)
(* behaviour of Spec uses them: substituted for the operation they vary,   *)
(* each makes the property it is paired with in PROJECT.json fail.         *)
(***************************************************************************)
\* Publishes the position before the copy is complete.
EndWriteEarly ==
  /\ wr.pc = "copy"
  /\ write_pos' = wr.wp + wr.len
  /\ wr' = IdleWriter
  /\ UNCHANGED <<ring, read_pos, rd, dst, batch>>

\* Takes as much as the caller asked for, whatever is available.
ToReadUnclipped(available, max) == IF max < Cap THEN max ELSE Cap

\* No overflow test: copies whatever the distance between the positions.
BeginCopyUnchecked ==
  LET available == Available(rd.wp, read_pos)
  IN /\ rd.pc = "loaded"
     /\ available > 0
     /\ rd' = [rd EXCEPT !.pc = "copy", !.rp = read_pos,
                         !.n = IF available < rd.max THEN available ELSE rd.max,
                         !.copied = {}]
     /\ UNCHANGED <<ring, write_pos, read_pos, wr, dst, batch>>

\* Off by one: a ring that is exactly full counts as overflowed.
DetectOverflowWhenFull ==
  /\ rd.pc = "loaded"
  /\ Available(rd.wp, read_pos) >= Cap
  /\ rd' = [rd EXCEPT !.pc = "skip", !.rp = read_pos]
  /\ UNCHANGED <<ring, write_pos, read_pos, wr, dst, batch>>

\* Returns 0 on overflow without storing the new position.
SkipWithoutStore ==
  /\ rd.pc = "skip"
  /\ rd' = IdleReader
  /\ UNCHANGED <<ring, write_pos, read_pos, wr, dst, batch>>

\* Restarts the ring from zero on connecting.
EndResyncAtZero ==
  /\ rd.pc = "sync"
  /\ read_pos' = 0
  /\ rd' = IdleReader
  /\ UNCHANGED <<ring, write_pos, wr, dst, batch>>

-----------------------------------------------------------------------------
\* Where unit i of a transfer that starts at position pos lives: the first
\* chunk1 units from the offset on, the others from the start of the ring.
\* Past chunk1 + Cap units the second memcpy leaves the ring.
Slot(pos, i) ==
  LET offset == pos % Cap
      chunk1 == Cap - offset
  IN IF i < chunk1 THEN offset + i ELSE i - chunk1

\* to_read.
ToRead(available, max) == IF available < max THEN available ELSE max

-----------------------------------------------------------------------------
(***************************************************************************)
(* shm_ring_write: load the position, copy, publish.  The producer never   *)
(* looks at read_pos.  memcpy promises no order, and neither do the plain  *)
(* stores of two memcpys, so the units are copied in any order.            *)
(***************************************************************************)
BeginWrite(len) ==
  /\ wr.pc = "idle"
  /\ write_pos + len <= MaxPos
  /\ wr' = [pc |-> "copy", wp |-> write_pos, len |-> len, copied |-> {}]
  /\ UNCHANGED <<ring, write_pos, read_pos, rd, dst, batch>>

CopyIn(i) ==
  /\ wr.pc = "copy"
  /\ i \notin wr.copied
  /\ ring' = [s \in Slots |-> IF s = Slot(wr.wp, i) THEN wr.wp + i ELSE ring[s]]
  /\ wr' = [wr EXCEPT !.copied = @ \cup {i}]
  /\ UNCHANGED <<write_pos, read_pos, rd, dst, batch>>

EndWrite ==
  /\ wr.pc = "copy"
  /\ wr.copied = 0 .. wr.len - 1
  /\ write_pos' = wr.wp + wr.len
  /\ wr' = IdleWriter
  /\ UNCHANGED <<ring, read_pos, rd, dst, batch>>

-----------------------------------------------------------------------------
(***************************************************************************)
(* shm_ring_read: load both positions, then skip, return or copy.          *)
(***************************************************************************)
BeginRead(max) ==
  /\ rd.pc = "idle"
  /\ rd' = [pc |-> "loaded", wp |-> write_pos, rp |-> 0, max |-> max, n |-> 0, copied |-> {}]
  /\ dst' = [s \in Slots |-> NoUnit]
  /\ UNCHANGED <<ring, write_pos, read_pos, wr, batch>>

\* available > cap: the producer is more than a whole ring ahead.
DetectOverflow ==
  /\ rd.pc = "loaded"
  /\ Available(rd.wp, read_pos) > Cap
  /\ rd' = [rd EXCEPT !.pc = "skip", !.rp = read_pos]
  /\ UNCHANGED <<ring, write_pos, read_pos, wr, dst, batch>>

\* read_pos.store(wp); return 0.
SkipToWriter ==
  /\ rd.pc = "skip"
  /\ read_pos' = rd.wp
  /\ rd' = IdleReader
  /\ UNCHANGED <<ring, write_pos, wr, dst, batch>>

\* available == 0: return 0.
ReturnEmpty ==
  /\ rd.pc = "loaded"
  /\ Available(rd.wp, read_pos) = 0
  /\ rd' = IdleReader
  /\ UNCHANGED <<ring, write_pos, read_pos, wr, dst, batch>>

BeginCopy ==
  LET available == Available(rd.wp, read_pos)
  IN /\ rd.pc = "loaded"
     /\ available \in 1 .. Cap
     /\ rd' = [rd EXCEPT !.pc = "copy", !.rp = read_pos, !.n = ToRead(available, rd.max),
                         !.copied = {}]
     /\ UNCHANGED <<ring, write_pos, read_pos, wr, dst, batch>>

CopyOut(i) ==
  /\ rd.pc = "copy"
  /\ i \notin rd.copied
  /\ dst' = [dst EXCEPT ![i] = ring[Slot(rd.rp, i)]]
  /\ rd' = [rd EXCEPT !.copied = @ \cup {i}]
  /\ UNCHANGED <<ring, write_pos, read_pos, wr, batch>>

EndRead ==
  /\ rd.pc = "copy"
  /\ rd.copied = 0 .. rd.n - 1
  /\ read_pos' = rd.rp + rd.n
  /\ batch' = [i \in 0 .. rd.n - 1 |-> dst[i]]
  /\ rd' = IdleReader
  /\ UNCHANGED <<ring, write_pos, wr, dst>>

\* ConnectToShm: load in_write_pos, then store it in in_read_pos.
BeginResync ==
  /\ Resyncs
  /\ rd.pc = "idle"
  /\ rd' = [pc |-> "sync", wp |-> write_pos, rp |-> 0, max |-> 0, n |-> 0, copied |-> {}]
  /\ UNCHANGED <<ring, write_pos, read_pos, wr, dst, batch>>

EndResync ==
  /\ rd.pc = "sync"
  /\ read_pos' = rd.wp
  /\ rd' = IdleReader
  /\ UNCHANGED <<ring, write_pos, wr, dst, batch>>

-----------------------------------------------------------------------------
Produce ==
  \/ \E len \in WriteLens : BeginWrite(len)
  \/ \E i \in 0 .. wr.len - 1 : CopyIn(i)
  \/ EndWrite

\* The steps of a call of the consumer that has begun.
ReadOn ==
  \/ DetectOverflow
  \/ SkipToWriter
  \/ ReturnEmpty
  \/ BeginCopy
  \/ \E i \in 0 .. rd.n - 1 : CopyOut(i)
  \/ EndRead
  \/ EndResync

StartRead == \E max \in ReadLens : BeginRead(max)

Next == Produce \/ StartRead \/ BeginResync \/ ReadOn

Spec == Init /\ [][Next]_vars

\* The consumer's thread is scheduled and keeps calling shm_ring_read: Core
\* Audio runs an IO cycle per buffer, and the engine reads for every OUT
\* transfer it resubmits.  Nothing is assumed of the producer.
FairSpec == Spec /\ WF_vars(ReadOn) /\ WF_vars(StartRead)

-----------------------------------------------------------------------------
(***************************************************************************)
(* Properties.                                                             *)
(***************************************************************************)

\* The end of the units whose slots the producer may have overwritten.
Claimed == IF wr.pc = "copy" THEN wr.wp + wr.len ELSE write_pos

\* No write is longer than the ring.
WritesFit == \A len \in WriteLens : len <= Cap

WriteCall ==
  [pc : {"idle", "copy"}, wp : Nat, len : WriteLens \cup {0}, copied : SUBSET Nat]

ReadCall ==
  [pc : {"idle", "loaded", "skip", "copy", "sync"}, wp : Nat, rp : Nat,
   max : ReadLens \cup {0}, n : 0 .. Cap, copied : SUBSET Nat]

\* The state has the types the C++ declarations give it.
TypeOK ==
  /\ ring \in [Slots -> Unit]
  /\ write_pos \in Nat
  /\ read_pos \in Nat
  /\ wr \in WriteCall /\ wr.copied \subseteq 0 .. wr.len - 1
  /\ rd \in ReadCall /\ rd.copied \subseteq 0 .. rd.n - 1
  /\ dst \in [Slots -> Unit]

\* The consumer's position is never past the producer's, not even for a
\* position loaded earlier: the uint64_t difference never wraps around, so an
\* "available" above the capacity really means that the producer is ahead.
ConsumerBehindProducer ==
  /\ read_pos <= write_pos
  /\ rd.pc # "idle" => read_pos <= rd.wp /\ rd.wp <= write_pos

\* A unit copied to the caller is the unit of its position, unless the producer
\* has meanwhile claimed the slot for a later lap.  The only check of the code
\* is made before the copy, on a position that may be stale.
IntactUnlessOverwritten ==
  rd.pc = "copy" =>
    \A i \in rd.copied : Claimed <= rd.rp + i + Cap => dst[i] = rd.rp + i

\* "Position counters are monotonically increasing": no call of either side,
\* skip and resynchronisation included, ever moves a position back.
PositionsMonotonic ==
  [][write_pos' >= write_pos /\ read_pos' >= read_pos]_vars

\* Every unit published is in the end read or skipped, whatever the producer
\* does: the consumer never gets stuck behind a ring that overflowed.
EverythingConsumed ==
  \A pos \in 1 .. MaxPos : write_pos >= pos ~> read_pos >= pos

\* The ring implements the lossy stream it promises.
Stream == INSTANCE RingStream WITH
            claimed <- Claimed, published <- write_pos, consumed <- read_pos,
            connecting <- rd.pc = "sync"
ImplementsStream == Stream!Spec

-----------------------------------------------------------------------------
(***************************************************************************)
(* The inductive strengthening of the safety properties.                   *)
(***************************************************************************)

\* What the locals of the calls in progress say of the shared positions.
PositionsInv ==
  /\ ConsumerBehindProducer
  /\ wr.pc = "copy" => wr.wp = write_pos /\ wr.len \in WriteLens
  /\ rd.pc = "loaded" => rd.max \in ReadLens
  /\ rd.pc \in {"skip", "copy"} => rd.rp = read_pos
  /\ rd.pc = "skip" => rd.rp + Cap < rd.wp
  /\ rd.pc = "copy" => rd.n >= 1 /\ rd.rp + rd.n <= rd.wp

\* Position q has been written: published, or copied by the write in progress.
Written(q) == q < write_pos \/ (wr.pc = "copy" /\ q - wr.wp \in wr.copied)

\* Unit u is the unit of position q or one of a later lap in the same slot.
StandsFor(u, q) ==
  /\ q <= u
  /\ u < Claimed
  /\ u % Cap = q % Cap

\* Every written position is still in its slot, or replaced by a later one.
RingInv == \A q \in 0 .. Claimed - 1 : Written(q) => StandsFor(ring[q % Cap], q)

\* And so is every unit copied to the caller.
DstInv == rd.pc = "copy" => \A i \in rd.copied : StandsFor(dst[i], rd.rp + i)

SlotsInv == RingInv /\ DstInv

-----------------------------------------------------------------------------
(***************************************************************************)
(* Claims of the documentation that the code does not keep.                *)
(***************************************************************************)
\* What the comment on the overflow test claims: once the producer has lapped
\* the consumer the caller gets silence, so a batch that is returned is never
\* corrupted.
NeverTorn ==
  rd.pc = "copy" => \A i \in rd.copied : dst[i] = rd.rp + i

=============================================================================
