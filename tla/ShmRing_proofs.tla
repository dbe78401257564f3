--------------------------- MODULE ShmRing_proofs ---------------------------
(***************************************************************************)
(* Proofs about ShmRing, for every capacity, every set of lengths and      *)
(* every bound on the positions.                                           *)
(***************************************************************************)
EXTENDS ShmRing, TLAPS

(***************************************************************************)
(* Arithmetic modulo the capacity.                                         *)
(***************************************************************************)

\* A remainder is a slot.
LEMMA ModInSlots == ASSUME NEW a \in Nat PROVE a % Cap \in Slots
  BY CapAssumption DEF Slots

\* A remainder is determined by any decomposition.
LEMMA ModUnique ==
  ASSUME NEW a \in Nat, NEW q \in Nat, NEW r \in Slots, a = Cap * q + r
  PROVE  a % Cap = r
  BY CapAssumption DEF Slots

\* Two positions in the same slot are a whole number of rings apart.
LEMMA SameSlotDifference ==
  ASSUME NEW a \in Nat, NEW b \in Nat, a % Cap = b % Cap, a <= b
  PROVE  (b - a) % Cap = 0
  <1> DEFINE qa == a \div Cap
             qb == b \div Cap
  <1>1. qa \in Nat /\ qb \in Nat /\ a % Cap \in Int
    BY CapAssumption
  <1>2. a = Cap * qa + (a % Cap) /\ b = Cap * qb + (b % Cap)
    BY CapAssumption
  <1> HIDE DEF qa, qb
  <1>3. b - a = Cap * (qb - qa)
    BY <1>1, <1>2, CapAssumption
  <1>4. qb - qa \in Nat
    <2>1. ASSUME qb - qa <= -1 PROVE FALSE
      BY <1>1, <1>3, <2>1, CapAssumption
    <2>2. QED
      BY <1>1, <2>1
  <1>5. b - a \in Nat /\ 0 \in Slots /\ b - a = Cap * (qb - qa) + 0
    BY <1>3, <1>4, CapAssumption DEF Slots
  <1>6. QED
    BY <1>4, <1>5, ModUnique

\* Two different positions in the same slot are at least one ring apart.
LEMMA SameSlotApart ==
  ASSUME NEW a \in Nat, NEW b \in Nat, a % Cap = b % Cap, a < b
  PROVE  b >= a + Cap
  <1>1. (b - a) % Cap = 0 /\ b - a \in Nat \ {0}
    BY SameSlotDifference
  <1>2. QED
    BY <1>1, CapAssumption

\* Within one ring length the two memcpys put unit i where the position pos + i
\* belongs.
LEMMA SlotOfPosition ==
  ASSUME NEW pos \in Nat, NEW i \in Slots
  PROVE  Slot(pos, i) = (pos + i) % Cap /\ Slot(pos, i) \in Slots
  <1> DEFINE q == pos \div Cap
             o == pos % Cap
  <1>1. q \in Nat /\ o \in Slots /\ pos = Cap * q + o
    BY CapAssumption DEF Slots
  <1> HIDE DEF q, o
  <1>2. CASE i < Cap - o
    <2>1. o + i \in Slots /\ pos + i = Cap * q + (o + i)
      BY <1>1, <1>2, CapAssumption DEF Slots
    <2>2. (pos + i) % Cap = o + i
      BY <1>1, <2>1, ModUnique DEF Slots
    <2>3. QED
      BY <1>2, <2>1, <2>2 DEF Slot, o
  <1>3. CASE ~(i < Cap - o)
    <2>1. i - (Cap - o) \in Slots /\ pos + i = Cap * (q + 1) + (i - (Cap - o))
      BY <1>1, <1>3, CapAssumption DEF Slots
    <2>2. (pos + i) % Cap = i - (Cap - o)
      BY <1>1, <2>1, ModUnique DEF Slots
    <2>3. QED
      BY <1>3, <2>1, <2>2 DEF Slot, o
  <1>4. QED
    BY <1>2, <1>3

-----------------------------------------------------------------------------
(***************************************************************************)
(* Type correctness.                                                       *)
(***************************************************************************)

USE CapAssumption, LensAssumption, MaxPosAssumption DEF Slots, Unit, NoUnit

\* A length is a natural number.
LEMMA LengthsAreNat ==
  /\ \A len \in WriteLens \cup {0} : len \in Nat
  /\ \A len \in ReadLens \cup {0} : len \in Nat
  BY LensAssumption

\* The types of the fields of the two calls.
LEMMA CallTypes ==
  ASSUME TypeOK
  PROVE  /\ wr.wp \in Nat /\ wr.len \in Nat
         /\ rd.wp \in Nat /\ rd.rp \in Nat /\ rd.max \in Nat /\ rd.n \in 0 .. Cap
  <1>1. wr.len \in WriteLens \cup {0} /\ wr.wp \in Nat
    BY DEF TypeOK, WriteCall, ReadCall
  <1>2. /\ rd.wp \in Nat /\ rd.rp \in Nat /\ rd.max \in ReadLens \cup {0}
        /\ rd.n \in 0 .. Cap
    BY DEF TypeOK, WriteCall, ReadCall
  <1>3. wr.len \in Nat
    BY <1>1, LengthsAreNat, Zenon
  <1>4. rd.max \in Nat
    BY <1>2, LengthsAreNat, Zenon
  <1>5. QED
    BY <1>1, <1>2, <1>3, <1>4

\* Changing the fields of a call within their types.
LEMMA CallUpdates ==
  /\ \A w \in WriteCall : \A c \in SUBSET Nat : [w EXCEPT !.copied = c] \in WriteCall
  /\ \A r \in ReadCall : \A c \in SUBSET Nat : [r EXCEPT !.copied = c] \in ReadCall
  /\ \A r \in ReadCall : \A p \in Nat : \A n \in 0 .. Cap :
       [r EXCEPT !.pc = "copy", !.rp = p, !.n = n, !.copied = {}] \in ReadCall
  /\ \A r \in ReadCall : \A p \in Nat : [r EXCEPT !.pc = "skip", !.rp = p] \in ReadCall
  BY DEF WriteCall, ReadCall

\* A call that has not begun.
LEMMA IdleTypes == IdleWriter \in WriteCall /\ IdleReader \in ReadCall
  BY DEF IdleWriter, IdleReader, WriteCall, ReadCall

\* Type correctness is inductive as it stands.
THEOREM TypeCorrect == Spec => []TypeOK
  <1>1. Init => TypeOK
    BY IdleTypes DEF Init, TypeOK, IdleWriter, IdleReader
  <1>2. TypeOK /\ [Next]_vars => TypeOK'
    <2> SUFFICES ASSUME TypeOK, [Next]_vars PROVE TypeOK'
      OBVIOUS
    <2>a. /\ wr.wp \in Nat /\ wr.len \in Nat
          /\ rd.wp \in Nat /\ rd.rp \in Nat /\ rd.max \in Nat /\ rd.n \in 0 .. Cap
      BY CallTypes
    <2> USE DEF TypeOK
    <2>1. ASSUME NEW len \in WriteLens, BeginWrite(len) PROVE TypeOK'
      BY <2>1 DEF BeginWrite, WriteCall
    <2>2. ASSUME NEW i \in 0 .. wr.len - 1, CopyIn(i) PROVE TypeOK'
      <3>1. wr.wp + i \in Unit /\ wr.len \in Nat /\ i \in Nat
        BY <2>2, <2>a
      <3>2. ring' \in [Slots -> Unit]
        BY <2>2, <3>1 DEF CopyIn
      <3>3. wr'.copied = wr.copied \cup {i} /\ wr'.len = wr.len
        BY <2>2 DEF CopyIn
      <3>4. wr' \in WriteCall
        <4>1. wr.copied \cup {i} \in SUBSET Nat
          BY <3>1 DEF WriteCall
        <4>2. QED
          BY <2>2, <4>1, CallUpdates DEF CopyIn
      <3>5. QED
        BY <2>2, <3>2, <3>3, <3>4 DEF CopyIn
    <2>3. CASE EndWrite
      <3>1. write_pos' \in Nat
        BY <2>3, <2>a DEF EndWrite
      <3>2. wr' \in WriteCall /\ wr'.copied = {}
        BY <2>3, IdleTypes DEF EndWrite, IdleWriter
      <3>3. QED
        BY <2>3, <3>1, <3>2 DEF EndWrite
    <2>4. ASSUME NEW max \in ReadLens, BeginRead(max) PROVE TypeOK'
      BY <2>4 DEF BeginRead, ReadCall
    <2>5. CASE DetectOverflow
      BY <2>5, CallUpdates DEF DetectOverflow, ReadCall
    <2>6. CASE SkipToWriter
      BY <2>6, <2>a, IdleTypes DEF SkipToWriter, IdleReader
    <2>7. CASE ReturnEmpty
      BY <2>7, IdleTypes DEF ReturnEmpty, IdleReader
    <2>8. CASE BeginCopy
      <3> DEFINE n == ToRead(Available(rd.wp, read_pos), rd.max)
      <3>1. Available(rd.wp, read_pos) \in 1 .. Cap
        BY <2>8 DEF BeginCopy
      <3>2. n \in 0 .. Cap
        BY <2>a, <3>1 DEF ToRead
      <3>3. rd' = [rd EXCEPT !.pc = "copy", !.rp = read_pos, !.n = n, !.copied = {}]
        BY <2>8 DEF BeginCopy
      <3> HIDE DEF n
      <3>4. rd' \in ReadCall
        BY <3>2, <3>3, CallUpdates
      <3>5. rd'.copied = {}
        BY <3>3 DEF ReadCall
      <3>6. QED
        BY <2>8, <3>4, <3>5 DEF BeginCopy
    <2>9. ASSUME NEW i \in 0 .. rd.n - 1, CopyOut(i) PROVE TypeOK'
      <3>1. i \in Slots /\ i \in Nat
        BY <2>a
      <3>2. Slot(rd.rp, i) \in Slots
        BY <2>a, <3>1, SlotOfPosition
      <3>3. dst' \in [Slots -> Unit]
        BY <2>9, <3>1, <3>2 DEF CopyOut
      <3>4. rd' \in ReadCall /\ rd'.copied = rd.copied \cup {i} /\ rd'.n = rd.n
        BY <2>9, <3>1, CallUpdates DEF CopyOut, ReadCall
      <3>5. QED
        BY <2>9, <3>3, <3>4 DEF CopyOut
    <2>10. CASE EndRead
      <3>1. read_pos' \in Nat
        BY <2>10, <2>a DEF EndRead
      <3>2. rd' \in ReadCall /\ rd'.copied = {}
        BY <2>10, IdleTypes DEF EndRead, IdleReader
      <3>3. QED
        BY <2>10, <3>1, <3>2 DEF EndRead
    <2>11. CASE BeginResync
      BY <2>11 DEF BeginResync, ReadCall
    <2>12. CASE EndResync
      BY <2>12, <2>a, IdleTypes DEF EndResync, IdleReader
    <2>13. CASE UNCHANGED vars
      BY <2>13 DEF vars
    <2>14. QED
      BY <2>1, <2>2, <2>3, <2>4, <2>5, <2>6, <2>7, <2>8, <2>9, <2>10, <2>11,
         <2>12, <2>13 DEF Next, Produce, ReadOn, StartRead
  <1>3. QED
    BY <1>1, <1>2, PTL DEF Spec

-----------------------------------------------------------------------------
(***************************************************************************)
(* The positions.                                                          *)
(***************************************************************************)

\* PositionsInv is inductive once the types are known.
LEMMA PositionsStep ==
  ASSUME TypeOK, PositionsInv, [Next]_vars
  PROVE  PositionsInv'
  <1>a. /\ wr.wp \in Nat /\ wr.len \in Nat
        /\ rd.wp \in Nat /\ rd.rp \in Nat /\ rd.max \in Nat /\ rd.n \in 0 .. Cap
    BY CallTypes
  <1>b. write_pos \in Nat /\ read_pos \in Nat /\ wr \in WriteCall /\ rd \in ReadCall
    BY DEF TypeOK
  <1> USE DEF PositionsInv, ConsumerBehindProducer
  <1>1. ASSUME NEW len \in WriteLens, BeginWrite(len) PROVE PositionsInv'
    BY <1>1 DEF BeginWrite
  <1>2. ASSUME NEW i \in 0 .. wr.len - 1, CopyIn(i) PROVE PositionsInv'
    <2>1. wr'.pc = wr.pc /\ wr'.wp = wr.wp /\ wr'.len = wr.len
      BY <1>b, <1>2 DEF CopyIn, WriteCall
    <2>2. QED
      BY <1>2, <2>1 DEF CopyIn
  <1>3. CASE EndWrite
    <2>1. write_pos' >= write_pos /\ wr'.pc = "idle"
      BY <1>a, <1>b, <1>3 DEF EndWrite, IdleWriter
    <2>2. QED
      BY <1>a, <1>b, <1>3, <2>1 DEF EndWrite
  <1>4. ASSUME NEW max \in ReadLens, BeginRead(max) PROVE PositionsInv'
    BY <1>b, <1>4 DEF BeginRead
  <1>5. CASE DetectOverflow
    <2>1. rd'.pc = "skip" /\ rd'.rp = read_pos /\ rd'.wp = rd.wp
      BY <1>b, <1>5 DEF DetectOverflow, ReadCall
    <2>2. QED
      BY <1>a, <1>b, <1>5, <2>1 DEF DetectOverflow, Available
  <1>6. CASE SkipToWriter
    BY <1>a, <1>b, <1>6 DEF SkipToWriter, IdleReader
  <1>7. CASE ReturnEmpty
    BY <1>7 DEF ReturnEmpty, IdleReader
  <1>8. CASE BeginCopy
    <2>1. /\ rd'.pc = "copy" /\ rd'.rp = read_pos /\ rd'.wp = rd.wp
          /\ rd'.n = ToRead(Available(rd.wp, read_pos), rd.max)
      BY <1>b, <1>8 DEF BeginCopy, ReadCall
    <2>2. rd.max >= 1
      BY <1>a, <1>8, LensAssumption DEF BeginCopy
    <2>3. rd.wp - read_pos \in 1 .. Cap
      BY <1>8 DEF BeginCopy, Available
    <2>4. rd'.n >= 1 /\ rd'.rp + rd'.n <= rd'.wp
      BY <1>a, <1>b, <2>1, <2>2, <2>3 DEF ToRead, Available
    <2>5. QED
      BY <1>8, <2>1, <2>4 DEF BeginCopy
  <1>9. ASSUME NEW i \in 0 .. rd.n - 1, CopyOut(i) PROVE PositionsInv'
    <2>1. /\ rd'.pc = rd.pc /\ rd'.rp = rd.rp /\ rd'.wp = rd.wp
          /\ rd'.n = rd.n /\ rd'.max = rd.max
      BY <1>b, <1>9 DEF CopyOut, ReadCall
    <2>2. QED
      BY <1>9, <2>1 DEF CopyOut
  <1>10. CASE EndRead
    BY <1>a, <1>b, <1>10 DEF EndRead, IdleReader
  <1>11. CASE BeginResync
    BY <1>b, <1>11 DEF BeginResync
  <1>12. CASE EndResync
    BY <1>a, <1>b, <1>12 DEF EndResync, IdleReader
  <1>13. CASE UNCHANGED vars
    BY <1>13 DEF vars
  <1>14. QED
    BY <1>1, <1>2, <1>3, <1>4, <1>5, <1>6, <1>7, <1>8, <1>9, <1>10, <1>11,
       <1>12, <1>13 DEF Next, Produce, ReadOn, StartRead

\* The locals of both calls always agree with the shared positions.
THEOREM PositionsInvariant == Spec => []PositionsInv
  <1>1. Init => PositionsInv
    BY DEF Init, PositionsInv, ConsumerBehindProducer, IdleWriter, IdleReader
  <1>2. TypeOK /\ PositionsInv /\ [Next]_vars => PositionsInv'
    BY PositionsStep
  <1>3. QED
    BY <1>1, <1>2, TypeCorrect, PTL DEF Spec

\* The consumer is never ahead of the producer: "available" never wraps.
THEOREM ConsumerNeverAhead == Spec => []ConsumerBehindProducer
  <1>1. PositionsInv => ConsumerBehindProducer
    BY DEF PositionsInv
  <1>2. QED
    BY <1>1, PositionsInvariant, PTL

\* No step of either side moves a position back, skips and resynchronisations
\* included.
THEOREM PositionsNeverDecrease == Spec => PositionsMonotonic
  <1>1. TypeOK /\ PositionsInv /\ [Next]_vars =>
          [write_pos' >= write_pos /\ read_pos' >= read_pos]_vars
    <2> SUFFICES ASSUME TypeOK, PositionsInv, Next
                 PROVE  write_pos' >= write_pos /\ read_pos' >= read_pos
      OBVIOUS
    <2>a. /\ wr.wp \in Nat /\ wr.len \in Nat
          /\ rd.wp \in Nat /\ rd.rp \in Nat /\ rd.n \in 0 .. Cap
          /\ write_pos \in Nat /\ read_pos \in Nat
      BY CallTypes DEF TypeOK
    <2>1. CASE EndWrite
      BY <2>a, <2>1 DEF EndWrite, PositionsInv
    <2>2. CASE SkipToWriter \/ EndResync
      BY <2>a, <2>2 DEF SkipToWriter, EndResync, PositionsInv, ConsumerBehindProducer
    <2>3. CASE EndRead
      BY <2>a, <2>3 DEF EndRead, PositionsInv
    <2>4. CASE write_pos' = write_pos /\ read_pos' = read_pos
      BY <2>a, <2>4
    <2>5. QED
      BY <2>1, <2>2, <2>3, <2>4 DEF Next, Produce, ReadOn, StartRead, BeginWrite,
         CopyIn, BeginRead, DetectOverflow, ReturnEmpty, BeginCopy, CopyOut, BeginResync
  <1>2. QED
    BY <1>1, TypeCorrect, PositionsInvariant, PTL DEF Spec, PositionsMonotonic

-----------------------------------------------------------------------------
(***************************************************************************)
(* The contents of the slots, when no write is longer than the ring.       *)
(***************************************************************************)

\* The units of a copy have an offset within the ring.
LEMMA OffsetsAreSlots ==
  ASSUME TypeOK
  PROVE  0 .. rd.n - 1 \subseteq Slots /\ rd.copied \subseteq Slots
  <1>1. rd.n \in 0 .. Cap /\ rd.copied \subseteq 0 .. rd.n - 1
    BY CallTypes DEF TypeOK
  <1>2. 0 .. rd.n - 1 \subseteq Slots
    BY <1>1
  <1>3. QED
    BY <1>1, <1>2

\* The claimed units end at a position, at or after the published ones.
LEMMA ClaimedIsPosition ==
  ASSUME TypeOK, PositionsInv
  PROVE  Claimed \in Nat /\ write_pos <= Claimed
  <1>1. wr.wp \in Nat /\ wr.len \in Nat /\ write_pos \in Nat
    BY CallTypes DEF TypeOK
  <1>2. QED
    BY <1>1 DEF Claimed, PositionsInv

\* The producer's steps keep what the slots hold.  Only a copy changes a slot,
\* and it replaces the unit there by one of the lap in progress.
LEMMA ProducerKeepsSlots ==
  ASSUME TypeOK, PositionsInv, RingInv, WritesFit, Produce
  PROVE  RingInv' /\ Claimed' >= Claimed
  <1>a. /\ wr.wp \in Nat /\ wr.len \in Nat /\ write_pos \in Nat /\ Claimed \in Nat
        /\ wr \in WriteCall /\ wr.copied \subseteq 0 .. wr.len - 1
    BY CallTypes, ClaimedIsPosition DEF TypeOK
  <1>1. ASSUME NEW len \in WriteLens, BeginWrite(len)
        PROVE  RingInv' /\ Claimed' >= Claimed
    <2>1. /\ Claimed = write_pos /\ Claimed' = write_pos + len /\ len \in Nat
          /\ write_pos' = write_pos /\ ring' = ring /\ wr'.copied = {}
      BY <1>1, LensAssumption DEF BeginWrite, Claimed
    <2>2. ASSUME NEW q \in 0 .. Claimed' - 1, Written(q)'
          PROVE  StandsFor(ring[q % Cap], q)'
      <3>1. q \in 0 .. Claimed - 1 /\ Written(q)
        BY <1>a, <2>1, <2>2 DEF Written
      <3>2. StandsFor(ring[q % Cap], q)
        BY <3>1 DEF RingInv
      <3>3. q % Cap \in Slots /\ ring[q % Cap] \in Int
        <4>1. q \in Nat
          BY <1>a, <3>1
        <4>2. q % Cap \in Slots
          BY <4>1, ModInSlots
        <4>3. QED
          BY <4>2 DEF TypeOK
      <3>4. QED
        BY <1>a, <2>1, <3>2, <3>3 DEF StandsFor
    <2>3. QED
      BY <1>a, <2>1, <2>2 DEF RingInv
  <1>2. ASSUME NEW i \in 0 .. wr.len - 1, CopyIn(i)
        PROVE  RingInv' /\ Claimed' >= Claimed
    <2>1. /\ wr.pc = "copy" /\ wr.wp = write_pos /\ wr.len \in WriteLens
          /\ Claimed = wr.wp + wr.len /\ wr.len <= Cap
      BY <1>2 DEF CopyIn, PositionsInv, Claimed, WritesFit
    <2>2. /\ wr'.pc = "copy" /\ wr'.wp = wr.wp /\ wr'.len = wr.len
          /\ wr'.copied = wr.copied \cup {i}
          /\ write_pos' = write_pos /\ Claimed' = Claimed
      BY <1>a, <1>2, <2>1 DEF CopyIn, WriteCall, Claimed
    <2>3. i \in Slots /\ wr.wp + i \in Nat
      BY <1>a, <2>1
    <2>4. /\ Slot(wr.wp, i) = (wr.wp + i) % Cap
          /\ ring' = [s \in Slots |-> IF s = (wr.wp + i) % Cap THEN wr.wp + i ELSE ring[s]]
      BY <1>a, <1>2, <2>3, SlotOfPosition DEF CopyIn
    <2>5. ASSUME NEW q \in 0 .. Claimed - 1, Written(q)'
          PROVE  StandsFor(ring[q % Cap], q)'
      <3>1. q \in Nat /\ q % Cap \in Slots
        BY <1>a, ModInSlots
      <3>2. CASE q % Cap = (wr.wp + i) % Cap
        <4>1. ring'[q % Cap] = wr.wp + i
          BY <2>4, <3>1, <3>2
        <4>2. q <= wr.wp + i
          <5>1. ASSUME q > wr.wp + i PROVE FALSE
            <6>1. q >= wr.wp + i + Cap
              BY <2>3, <3>1, <3>2, <5>1, SameSlotApart
            <6>2. QED
              BY <1>a, <2>1, <2>3, <3>1, <6>1
          <5>2. QED
            BY <1>a, <2>3, <3>1, <5>1
        <4>3. QED
          BY <1>a, <2>1, <2>2, <2>3, <3>1, <3>2, <4>1, <4>2 DEF StandsFor
      <3>3. CASE q % Cap # (wr.wp + i) % Cap
        <4>1. ring'[q % Cap] = ring[q % Cap]
          BY <2>4, <3>1, <3>3
        <4>2. q # wr.wp + i
          BY <3>3
        <4>3. Written(q)
          <5>1. q - wr.wp # i
            BY <1>a, <3>1, <4>2
          <5>2. q < write_pos \/ q - wr.wp \in wr.copied \cup {i}
            BY <2>2, <2>5 DEF Written
          <5>3. QED
            BY <2>1, <5>1, <5>2 DEF Written
        <4>4. QED
          BY <2>2, <4>1, <4>3 DEF RingInv, StandsFor
      <3>4. QED
        BY <3>2, <3>3
    <2>6. QED
      BY <1>a, <2>2, <2>5 DEF RingInv
  <1>3. CASE EndWrite
    <2>1. /\ wr.wp = write_pos /\ Claimed = wr.wp + wr.len /\ Claimed' = Claimed
          /\ ring' = ring /\ write_pos' = Claimed /\ wr'.pc = "idle"
          /\ wr.copied = 0 .. wr.len - 1
      BY <1>3 DEF EndWrite, PositionsInv, Claimed, IdleWriter
    <2>2. ASSUME NEW q \in 0 .. Claimed - 1 PROVE Written(q)
      BY <1>a, <1>3, <2>1, <2>2 DEF EndWrite, Written
    <2>3. QED
      BY <1>a, <2>1, <2>2 DEF RingInv, StandsFor
  <1>4. QED
    BY <1>1, <1>2, <1>3 DEF Produce

\* What was copied to the caller stays what it was, however far the producer
\* has gone since.
LEMMA ProducerKeepsCopies ==
  ASSUME TypeOK, PositionsInv, DstInv, Claimed' \in Nat, Claimed' >= Claimed,
         dst' = dst, rd' = rd
  PROVE  DstInv'
  <1>1. Claimed \in Nat /\ rd.copied \subseteq Slots /\ rd.rp \in Nat
    BY ClaimedIsPosition, CallTypes, OffsetsAreSlots
  <1>2. ASSUME NEW i \in rd.copied, rd.pc = "copy" PROVE StandsFor(dst[i], rd.rp + i)'
    <2>1. StandsFor(dst[i], rd.rp + i) /\ dst[i] \in Int
      BY <1>1, <1>2 DEF DstInv, TypeOK
    <2>2. QED
      BY <1>1, <2>1 DEF StandsFor
  <1>3. QED
    BY <1>2 DEF DstInv

\* A unit the consumer copies is the one its position holds at that moment.
LEMMA ConsumerCopies ==
  ASSUME TypeOK, PositionsInv, SlotsInv,
         NEW i \in 0 .. rd.n - 1, CopyOut(i)
  PROVE  DstInv'
  <1>1. /\ rd.rp \in Nat /\ rd.n \in 0 .. Cap /\ i \in Slots /\ rd.rp + i \in Nat
        /\ Claimed \in Nat /\ write_pos \in Nat /\ write_pos <= Claimed /\ rd.wp \in Nat
    <2>1. i \in Slots
      BY OffsetsAreSlots
    <2>2. write_pos \in Nat /\ Claimed \in Nat /\ write_pos <= Claimed
      BY ClaimedIsPosition DEF TypeOK
    <2>3. rd.rp \in Nat /\ rd.n \in 0 .. Cap /\ rd.wp \in Nat
      BY CallTypes
    <2>4. QED
      BY <2>1, <2>2, <2>3
  <1>2. rd.rp + i < write_pos
    BY <1>1 DEF CopyOut, PositionsInv, ConsumerBehindProducer
  <1>3. StandsFor(ring[(rd.rp + i) % Cap], rd.rp + i)
    BY <1>1, <1>2 DEF SlotsInv, RingInv, Written
  <1>4. Slot(rd.rp, i) = (rd.rp + i) % Cap
    BY <1>1, SlotOfPosition
  <1>5. /\ dst' = [dst EXCEPT ![i] = ring[(rd.rp + i) % Cap]]
        /\ rd'.pc = "copy" /\ rd'.rp = rd.rp /\ rd'.copied = rd.copied \cup {i}
        /\ Claimed' = Claimed
    BY <1>4 DEF CopyOut, TypeOK, ReadCall, Claimed
  <1>6. ASSUME NEW j \in rd'.copied PROVE StandsFor(dst'[j], rd.rp + j)
    <2>1. j \in Slots
      BY <1>1, <1>5, OffsetsAreSlots
    <2>2. CASE j = i
      BY <1>3, <1>5, <2>1, <2>2 DEF TypeOK
    <2>3. CASE j # i
      <3>1. j \in rd.copied /\ rd.pc = "copy"
        BY <1>5, <2>3 DEF CopyOut
      <3>2. dst'[j] = dst[j]
        BY <1>5, <2>1, <2>3 DEF TypeOK
      <3>3. QED
        BY <3>1, <3>2 DEF SlotsInv, DstInv
    <2>4. QED
      BY <2>2, <2>3
  <1>7. QED
    BY <1>5, <1>6 DEF DstInv, StandsFor

\* The slots and the copies are kept by every step.
LEMMA SlotsStep ==
  ASSUME TypeOK, PositionsInv, SlotsInv, TypeOK', PositionsInv', WritesFit, [Next]_vars
  PROVE  SlotsInv'
  <1>1. CASE Produce
    <2>1. RingInv' /\ Claimed' >= Claimed
      BY <1>1, ProducerKeepsSlots DEF SlotsInv
    <2>2. Claimed' \in Nat
      BY CallTypes, LengthsAreNat, LensAssumption, <1>1
         DEF Produce, BeginWrite, CopyIn, EndWrite, Claimed, IdleWriter, TypeOK, WriteCall
    <2>3. dst' = dst /\ rd' = rd
      BY <1>1 DEF Produce, BeginWrite, CopyIn, EndWrite
    <2>4. QED
      BY <2>1, <2>2, <2>3, ProducerKeepsCopies DEF SlotsInv
  <1>2. CASE StartRead \/ BeginResync \/ ReadOn \/ UNCHANGED vars
    <2>1. ring' = ring /\ wr' = wr /\ write_pos' = write_pos
      BY <1>2 DEF StartRead, BeginRead, BeginResync, ReadOn, DetectOverflow, SkipToWriter,
         ReturnEmpty, BeginCopy, CopyOut, EndRead, EndResync, vars
    <2>2. RingInv'
      BY <2>1 DEF SlotsInv, RingInv, StandsFor, Written, Claimed
    <2>3. DstInv'
      <3>1. CASE \E i \in 0 .. rd.n - 1 : CopyOut(i)
        BY <3>1, ConsumerCopies
      <3>2. CASE BeginCopy
        <4>1. rd'.copied = {}
          BY <3>2 DEF BeginCopy, TypeOK, ReadCall
        <4>2. QED
          BY <4>1 DEF DstInv
      <3>3. CASE DetectOverflow
        <4>1. rd'.pc = "skip"
          BY <3>3 DEF DetectOverflow, TypeOK, ReadCall
        <4>2. QED
          BY <4>1 DEF DstInv
      <3>4. CASE StartRead \/ BeginResync
        BY <3>4 DEF StartRead, BeginRead, BeginResync, DstInv
      <3>5. CASE SkipToWriter \/ ReturnEmpty \/ EndRead \/ EndResync
        BY <3>5 DEF SkipToWriter, ReturnEmpty, EndRead, EndResync, IdleReader, DstInv
      <3>6. CASE UNCHANGED vars
        BY <3>6, <2>1 DEF vars, SlotsInv, DstInv, StandsFor, Claimed
      <3>7. QED
        BY <1>2, <3>1, <3>2, <3>3, <3>4, <3>5, <3>6 DEF ReadOn
    <2>4. QED
      BY <2>2, <2>3 DEF SlotsInv
  <1>3. QED
    BY <1>1, <1>2 DEF Next

\* As long as no write is longer than the ring, every slot holds the last unit
\* copied to it, and every copy is of its position or of a later lap.
THEOREM SlotsInvariant == ASSUME WritesFit PROVE Spec => []SlotsInv
  <1>1. Init => SlotsInv
    BY DEF Init, SlotsInv, RingInv, DstInv, Written, Claimed, IdleWriter, IdleReader
  <1>2. TypeOK /\ PositionsInv /\ SlotsInv /\ TypeOK' /\ PositionsInv' /\ [Next]_vars
          => SlotsInv'
    BY SlotsStep, WritesFit
  <1>3. QED
    BY <1>1, <1>2, TypeCorrect, PositionsInvariant, PTL DEF Spec

\* A unit copied to the caller is the unit of its position, unless the producer
\* has claimed the slot for a later lap since the overflow test.
THEOREM CopiesIntact == ASSUME WritesFit PROVE Spec => []IntactUnlessOverwritten
  <1>1. TypeOK /\ SlotsInv => IntactUnlessOverwritten
    <2> SUFFICES ASSUME TypeOK, SlotsInv, rd.pc = "copy",
                        NEW i \in rd.copied, Claimed <= rd.rp + i + Cap
                 PROVE  dst[i] = rd.rp + i
      BY DEF IntactUnlessOverwritten
    <2>1. rd.rp + i \in Nat /\ i \in Slots /\ Claimed \in Int
      <3>1. i \in Slots
        BY OffsetsAreSlots
      <3>2. rd.rp \in Nat /\ wr.wp \in Nat /\ wr.len \in Nat
        BY CallTypes
      <3>3. write_pos \in Nat
        BY DEF TypeOK
      <3>4. QED
        BY <3>1, <3>2, <3>3 DEF Claimed
    <2>2. StandsFor(dst[i], rd.rp + i) /\ dst[i] \in Int
      BY <2>1 DEF SlotsInv, DstInv, TypeOK
    <2>3. dst[i] \in Nat
      BY <2>1, <2>2 DEF StandsFor
    <2>4. ASSUME rd.rp + i < dst[i] PROVE FALSE
      <3>1. dst[i] >= rd.rp + i + Cap
        BY <2>1, <2>2, <2>3, <2>4, SameSlotApart DEF StandsFor
      <3>2. QED
        BY <2>1, <2>2, <2>3, <3>1 DEF StandsFor
    <2>5. QED
      BY <2>1, <2>2, <2>3, <2>4 DEF StandsFor
  <1>2. QED
    BY <1>1, TypeCorrect, SlotsInvariant, PTL DEF Spec

-----------------------------------------------------------------------------
(***************************************************************************)
(* The refinement of RingStream.                                           *)
(***************************************************************************)

\* The producer's steps claim or publish, or do not show.
LEMMA ProducerRefines ==
  ASSUME TypeOK, PositionsInv, Produce
  PROVE  [Stream!Next]_Stream!streamVars
  <1>a. wr.wp \in Nat /\ wr.len \in Nat /\ write_pos \in Nat
    BY CallTypes DEF TypeOK
  <1>1. ASSUME NEW len \in WriteLens, BeginWrite(len) PROVE Stream!Claim
    <2>1. Claimed = write_pos /\ Claimed' = Claimed + len
      BY <1>1 DEF BeginWrite, Claimed
    <2>2. QED
      BY <1>1, <2>1 DEF BeginWrite, Stream!Claim
  <1>2. ASSUME NEW i \in 0 .. wr.len - 1, CopyIn(i) PROVE UNCHANGED Stream!streamVars
    <2>1. wr'.pc = wr.pc /\ wr'.wp = wr.wp /\ wr'.len = wr.len
      BY <1>2 DEF CopyIn, TypeOK, WriteCall
    <2>2. Claimed' = Claimed
      BY <1>2, <2>1 DEF CopyIn, Claimed
    <2>3. QED
      BY <1>2, <2>2 DEF CopyIn, Stream!streamVars
  <1>3. CASE EndWrite
    <2>1. wr.len \in Nat \ {0} /\ Claimed = wr.wp + wr.len /\ wr.wp = write_pos
      BY <1>3, LensAssumption DEF EndWrite, PositionsInv, Claimed
    <2>2. Claimed' = Claimed /\ write_pos' = Claimed /\ Claimed # write_pos
      BY <1>3, <1>a, <2>1 DEF EndWrite, IdleWriter, Claimed
    <2>3. Stream!Publish
      BY <1>3, <2>2 DEF EndWrite, Stream!Publish
    <2>4. QED
      BY <2>3 DEF Stream!Next
  <1>4. QED
    BY <1>1, <1>2, <1>3 DEF Produce, Stream!Next

\* A batch that is returned is one that the stream may deliver.
LEMMA EndReadDelivers ==
  ASSUME TypeOK, PositionsInv, SlotsInv, EndRead
  PROVE  Stream!Deliver
  <1>a. /\ rd.rp \in Nat /\ rd.wp \in Nat /\ rd.n \in 1 .. Cap /\ rd.rp = read_pos
        /\ rd.rp + rd.n <= rd.wp /\ rd.wp <= write_pos /\ write_pos \in Nat
    BY CallTypes DEF TypeOK, PositionsInv, ConsumerBehindProducer, EndRead
  <1>b. Claimed \in Nat /\ write_pos <= Claimed
    BY ClaimedIsPosition
  <1> DEFINE units == [i \in 0 .. rd.n - 1 |-> dst[i]]
  <1>1. ASSUME NEW i \in 0 .. rd.n - 1
        PROVE  /\ dst[i] \in read_pos .. Claimed - 1
               /\ read_pos + i <= dst[i] /\ dst[i] < Claimed
               /\ (dst[i] - (read_pos + i)) % Cap = 0
    <2>1. i \in Nat /\ i \in Slots /\ read_pos + i \in Nat
      BY <1>a DEF Slots
    <2>2. i \in rd.copied
      BY DEF EndRead
    <2>3. StandsFor(dst[i], read_pos + i)
      BY <1>a, <2>2 DEF SlotsInv, DstInv, EndRead
    <2>4. dst[i] \in Int
      BY <2>1 DEF TypeOK, Unit, NoUnit
    <2>5. dst[i] \in Nat
      BY <2>1, <2>3, <2>4 DEF StandsFor
    <2>6. (dst[i] - (read_pos + i)) % Cap = 0
      BY <2>1, <2>3, <2>5, SameSlotDifference DEF StandsFor
    <2>7. QED
      BY <1>a, <1>b, <2>1, <2>3, <2>5, <2>6 DEF StandsFor
  <1>2. units \in [0 .. rd.n - 1 -> read_pos .. Claimed - 1]
    BY <1>1
  <1>3. \A i \in 0 .. rd.n - 1 : Stream!MayStandFor(units[i], read_pos + i)
    BY <1>1 DEF Stream!MayStandFor
  <1>4. /\ rd.pc # "sync" /\ rd'.pc # "sync" /\ batch' = units
        /\ read_pos' = read_pos + rd.n /\ read_pos + rd.n <= write_pos
        /\ write_pos' = write_pos /\ Claimed' = Claimed
    BY <1>a DEF EndRead, IdleReader, Claimed
  <1> HIDE DEF units
  <1>5. QED
    BY <1>a, <1>2, <1>3, <1>4 DEF Stream!Deliver

\* The consumer's steps deliver, lose or connect, or do not show.
LEMMA ConsumerRefines ==
  ASSUME TypeOK, PositionsInv, SlotsInv, StartRead \/ BeginResync \/ ReadOn
  PROVE  [Stream!Next]_Stream!streamVars
  <1>a. /\ rd.wp \in Nat /\ read_pos \in Nat /\ write_pos \in Nat /\ rd \in ReadCall
    BY CallTypes DEF TypeOK
  <1>1. CASE StartRead
    BY <1>1 DEF StartRead, BeginRead, Claimed, Stream!streamVars
  <1>2. CASE BeginResync
    <2>1. Stream!Connect
      BY <1>2 DEF BeginResync, Claimed, Stream!Connect
    <2>2. QED
      BY <2>1 DEF Stream!Next
  <1>3. CASE DetectOverflow \/ BeginCopy \/ ReturnEmpty
    <2>1. rd.pc # "sync" /\ rd'.pc # "sync"
      <3>1. CASE DetectOverflow
        BY <3>1, <1>a DEF DetectOverflow, ReadCall
      <3>2. CASE BeginCopy
        BY <3>2, <1>a DEF BeginCopy, ReadCall
      <3>3. CASE ReturnEmpty
        BY <3>3 DEF ReturnEmpty, IdleReader
      <3>4. QED
        BY <1>3, <3>1, <3>2, <3>3
    <2>2. QED
      BY <1>3, <2>1
      DEF DetectOverflow, BeginCopy, ReturnEmpty, Claimed, Stream!streamVars
  <1>4. CASE SkipToWriter
    <2>1. read_pos' \in read_pos + Cap + 1 .. write_pos
      BY <1>4, <1>a, CapAssumption
      DEF SkipToWriter, PositionsInv, ConsumerBehindProducer
    <2>2. Stream!Lose
      BY <1>4, <2>1 DEF SkipToWriter, IdleReader, Claimed, Stream!Lose
    <2>3. QED
      BY <2>2 DEF Stream!Next
  <1>5. ASSUME NEW i \in 0 .. rd.n - 1, CopyOut(i) PROVE UNCHANGED Stream!streamVars
    <2>1. rd'.pc = rd.pc
      BY <1>5, <1>a DEF CopyOut, ReadCall
    <2>2. QED
      BY <1>5, <2>1 DEF CopyOut, Claimed, Stream!streamVars
  <1>6. CASE EndRead
    BY <1>6, EndReadDelivers DEF Stream!Next
  <1>7. CASE EndResync
    <2>1. read_pos' \in read_pos .. write_pos
      BY <1>7, <1>a DEF EndResync, PositionsInv, ConsumerBehindProducer
    <2>2. Stream!Connected
      BY <1>7, <2>1 DEF EndResync, IdleReader, Claimed, Stream!Connected
    <2>3. QED
      BY <2>2 DEF Stream!Next
  <1>8. QED
    BY <1>1, <1>2, <1>3, <1>4, <1>5, <1>6, <1>7 DEF ReadOn

\* As long as no write is longer than the ring, a ring is a lossy stream: what it
\* delivers in the place of a unit is that unit, or one of a later lap that the
\* producer had claimed, and it only loses more than a whole ring at once.
THEOREM RingIsLossyStream == ASSUME WritesFit PROVE Spec => ImplementsStream
  <1>1. Init => Stream!Init
    BY DEF Init, Stream!Init, Claimed, IdleWriter, IdleReader
  <1>2. TypeOK /\ PositionsInv /\ SlotsInv /\ [Next]_vars => [Stream!Next]_Stream!streamVars
    <2> SUFFICES ASSUME TypeOK, PositionsInv, SlotsInv, [Next]_vars
                 PROVE  [Stream!Next]_Stream!streamVars
      OBVIOUS
    <2>1. CASE UNCHANGED vars
      BY <2>1 DEF vars, Claimed, Stream!streamVars
    <2>2. QED
      BY <2>1, ProducerRefines, ConsumerRefines DEF Next
  <1>3. QED
    BY <1>1, <1>2, TypeCorrect, PositionsInvariant, SlotsInvariant, PTL
    DEF Spec, ImplementsStream, Stream!Spec

=============================================================================
