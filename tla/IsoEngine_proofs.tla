-------------------------- MODULE IsoEngine_proofs --------------------------
(***************************************************************************)
(* Proofs about IsoEngine, for every number of transfers and packets.      *)
(*                                                                         *)
(* The theorems of the library on induction take the induction hypothesis  *)
(* as an operator, and no prover installed here instantiates one.  What a  *)
(* loop over the packets adds up is therefore shown by a least             *)
(* counterexample: a nonempty set of naturals has a least element, and     *)
(* none of the numbers of packets can be the first to fail.                *)
(***************************************************************************)
EXTENDS IsoEngine, WellFoundedInduction, TLAPS

(***************************************************************************)
(* Facts about indices and transfers.                                      *)
(***************************************************************************)

\* The loop of Start() begins with an index, and steps from one to the next.
LEMMA IndexSteps ==
  /\ 0 \in Idx
  /\ \A i \in Idx : i # NumXfers - 1 => i + 1 \in Idx
  BY SizeAssumption DEF Idx

\* A transfer is a direction and an index.
LEMMA XferParts ==
  /\ \A i \in Idx : <<"in", i>> \in Xfers /\ <<"out", i>> \in Xfers
  /\ \A x \in Xfers : x[2] \in Idx /\ (x = <<"in", x[2]>> \/ x = <<"out", x[2]>>)
  BY DEF Xfers

\* The life cycle of a transfer is made of these states.
LEMMA StatesApart ==
  /\ InFlight \cup Statuses \cup {"null", "idle"} = XferStates
  /\ "null" \notin InFlight \cup Statuses
  /\ "idle" \notin InFlight \cup Statuses
  /\ InFlight \cap Statuses = {}
  BY DEF XferStates, InFlight, Statuses

\* Submitting a transfer leaves it in flight or idle, touches no other, and
\* never starts the engine.
LEMMA SubmitResult ==
  ASSUME ControlTypeOK, NEW x \in Xfers, Submit(x)
  PROVE  /\ xfer' \in [Xfers -> XferStates]
         /\ m_running' \in BOOLEAN
         /\ \A y \in Xfers : y # x => xfer'[y] = xfer[y]
         /\ xfer'[x] \in {"flying", "idle"}
         /\ xfer'[x] = "flying" => m_running
         /\ m_running' => m_running /\ xfer'[x] = "flying"
  <1>1. xfer \in [Xfers -> XferStates] /\ m_running \in BOOLEAN
    BY DEF ControlTypeOK
  <1>2. CASE ~m_running /\ xfer' = [xfer EXCEPT ![x] = "idle"] /\ UNCHANGED m_running
    BY <1>1, <1>2, StatesApart
  <1>3. CASE m_running /\ plugged /\ xfer' = [xfer EXCEPT ![x] = "flying"] /\ UNCHANGED m_running
    BY <1>1, <1>3, StatesApart DEF InFlight
  <1>4. CASE m_running /\ xfer' = [xfer EXCEPT ![x] = "idle"] /\ m_running' = FALSE
    <2>1. m_running' \in BOOLEAN
      BY <1>4, Zenon
    <2>2. QED
      BY <1>1, <1>4, <2>1, StatesApart
  <1>5. QED
    BY <1>2, <1>3, <1>4 DEF Submit

\* A buffer that is submitted holds nothing that was already played.
LEMMA SubmitOutResult ==
  ASSUME ControlTypeOK, NEW i \in Idx, SubmitOut(i)
  PROVE  /\ stale' \in [Idx -> SUBSET Packets]
         /\ \A j \in Idx : j # i => stale'[j] = stale[j]
         /\ m_running => stale'[i] = {}
  <1>1. stale \in [Idx -> SUBSET Packets] /\ PacketSize \in Nat
    BY SizeAssumption DEF ControlTypeOK
  <1>2. CASE m_running
    <2>1. PICK got \in [Packets -> 0 .. PacketSize] :
            stale' = [stale EXCEPT ![i] =
                       {p \in stale[i] : got[p] + Padding(got[p]) < PacketSize}]
      BY <1>2 DEF SubmitOut
    <2>2. \A p \in Packets : got[p] + Padding(got[p]) >= PacketSize
      BY <1>1 DEF Padding
    <2>3. {p \in stale[i] : got[p] + Padding(got[p]) < PacketSize} = {}
      <3>1. \A p \in Packets : got[p] + Padding(got[p]) \in Nat
        BY <1>1 DEF Padding
      <3>2. \A p \in stale[i] : ~(got[p] + Padding(got[p]) < PacketSize)
        BY <1>1, <2>2, <3>1
      <3>3. QED
        BY <3>2
    <2>4. QED
      BY <1>1, <2>1, <2>3
  <1>3. CASE ~m_running
    BY <1>1, <1>3 DEF SubmitOut
  <1>4. QED
    BY <1>2, <1>3

-----------------------------------------------------------------------------
(***************************************************************************)
(* Sums over the packets of a transfer.                                    *)
(***************************************************************************)
\* A nonempty set of natural numbers has a least element.
LEMMA LeastElement ==
  ASSUME NEW T, T \subseteq Nat, T # {}
  PROVE  \E m \in T : \A k \in T : m <= k
  <1> DEFINE Less == {p \in Nat \X Nat : p[1] < p[2]}
  <1>1. IsWellFoundedOn(Less, Nat)
    BY NatLessThanWellFounded DEF OpToRel
  <1>2. PICK m \in T : \A k \in T : <<k, m>> \notin Less
    <2> HIDE DEF Less
    <2> QED BY <1>1, WFMin
  <1>3. \A k \in T : ~(k < m)
    BY <1>2
  <1>4. QED
    BY <1>3

\* s is the table of the partial sums of f.
IsSum(s, f) ==
  /\ s \in [0 .. NumPackets -> Nat]
  /\ s[0] = 0
  /\ \A n \in Packets : s[n + 1] = s[n] + f[n]

\* For every number of packets there is a table of the partial sums.
LEMMA PartialSums ==
  ASSUME NEW f \in [Packets -> Nat], NEW n \in 0 .. NumPackets
  PROVE  \E s \in [0 .. n -> Nat] : s[0] = 0 /\ \A i \in 0 .. n - 1 : s[i + 1] = s[i] + f[i]
  <1> DEFINE Has(k) == \E s \in [0 .. k -> Nat] :
                         s[0] = 0 /\ \A i \in 0 .. k - 1 : s[i + 1] = s[i] + f[i]
             T == {k \in 0 .. NumPackets : ~Has(k)}
  <1> SUFFICES ASSUME T # {} PROVE FALSE
    OBVIOUS
  <1>1. PICK m \in T : \A k \in T : m <= k
    <2>1. T \subseteq Nat
      OBVIOUS
    <2> HIDE DEF T
    <2>2. QED
      BY <2>1, LeastElement
  <1>2. Has(0)
    <2> DEFINE z == [k \in 0 .. 0 |-> 0]
    <2>1. z \in [0 .. 0 -> Nat] /\ z[0] = 0
      OBVIOUS
    <2>2. \A i \in 0 .. 0 - 1 : z[i + 1] = z[i] + f[i]
      OBVIOUS
    <2> HIDE DEF z
    <2>3. QED
      BY <2>1, <2>2
  <1>3. m \in 1 .. NumPackets /\ m - 1 \in 0 .. NumPackets /\ m - 1 \in Packets
    <2>1. m # 0
      BY <1>2
    <2>2. QED
      BY <2>1, SizeAssumption DEF Packets
  <1>4. Has(m - 1)
    <2>1. ~(m <= m - 1)
      BY <1>3
    <2>2. m - 1 \notin T
      BY <1>1, <2>1
    <2> HIDE DEF Has
    <2>3. QED
      BY <1>3, <2>2
  <1>5. PICK s \in [0 .. m - 1 -> Nat] :
          s[0] = 0 /\ \A i \in 0 .. (m - 1) - 1 : s[i + 1] = s[i] + f[i]
    BY <1>4
  <1> DEFINE t == [k \in 0 .. m |-> IF k = m THEN s[m - 1] + f[m - 1] ELSE s[k]]
  <1>6. t \in [0 .. m -> Nat]
    <2>1. s[m - 1] + f[m - 1] \in Nat
      BY <1>3, SizeAssumption
    <2>2. \A k \in 0 .. m : k # m => k \in 0 .. m - 1
      BY <1>3
    <2>3. QED
      BY <2>1, <2>2
  <1>7. t[0] = 0 /\ \A i \in 0 .. m - 1 : t[i + 1] = t[i] + f[i]
    BY <1>3, <1>5
  <1>8. Has(m)
    BY <1>6, <1>7
  <1>9. QED
    BY <1>8

\* Total is well defined: it is the last entry of such a table.
LEMMA TotalIsSum ==
  ASSUME NEW f \in [Packets -> Nat]
  PROVE  \E s : IsSum(s, f) /\ Total(f) = s[NumPackets]
  <1> DEFINE Step(g) == [n \in 0 .. NumPackets |-> IF n = 0 THEN 0 ELSE g[n - 1] + f[n - 1]]
             Sum == CHOOSE g : g = Step(g)
  <1>1. Total(f) = Sum[NumPackets]
    BY DEF Total
  <1>2. \E g : g = Step(g)
    <2>1. PICK s \in [0 .. NumPackets -> Nat] :
            s[0] = 0 /\ \A i \in 0 .. NumPackets - 1 : s[i + 1] = s[i] + f[i]
      <3>1. NumPackets \in 0 .. NumPackets
        BY SizeAssumption
      <3>2. QED
        BY <3>1, PartialSums
    <2>2. \A n \in 0 .. NumPackets : s[n] = IF n = 0 THEN 0 ELSE s[n - 1] + f[n - 1]
      BY <2>1, SizeAssumption
    <2>3. s = Step(s)
      BY <2>2
    <2>4. QED
      BY <2>3
  <1>3. Sum = Step(Sum)
    <2> HIDE DEF Step
    <2> QED BY <1>2
  <1> HIDE DEF Sum
  <1>4. /\ Sum[0] = 0
        /\ \A n \in Packets : Sum[n + 1] = Sum[n] + f[n]
        /\ Sum = [n \in 0 .. NumPackets |-> Sum[n]]
    <2>1. NumPackets \in Nat \ {0}
      BY SizeAssumption
    <2>2. \A n \in 0 .. NumPackets : Sum[n] = IF n = 0 THEN 0 ELSE Sum[n - 1] + f[n - 1]
      BY <1>3
    <2>3. Sum[0] = 0
      BY <2>1, <2>2
    <2>4. ASSUME NEW n \in Packets PROVE Sum[n + 1] = Sum[n] + f[n]
      <3>1. n + 1 \in 0 .. NumPackets /\ n + 1 # 0 /\ (n + 1) - 1 = n
        BY <2>1 DEF Packets
      <3>2. QED
        BY <2>2, <3>1
    <2>5. Sum = [n \in 0 .. NumPackets |-> Sum[n]]
      BY <1>3
    <2>6. QED
      BY <2>3, <2>4, <2>5
  <1> DEFINE T == {n \in 0 .. NumPackets : Sum[n] \notin Nat}
  <1>5. T = {}
    <2> SUFFICES ASSUME T # {} PROVE FALSE
      OBVIOUS
    <2>1. PICK m \in T : \A k \in T : m <= k
      <3>1. T \subseteq Nat
        OBVIOUS
      <3> HIDE DEF T
      <3>2. QED
        BY <3>1, LeastElement
    <2>2. m \in 1 .. NumPackets /\ m - 1 \in Packets /\ m - 1 \in 0 .. NumPackets
      BY <1>4, SizeAssumption DEF Packets
    <2>3. Sum[m - 1] \in Nat
      BY <2>1, <2>2
    <2>4. Sum[m] = Sum[m - 1] + f[m - 1]
      <3>1. (m - 1) + 1 = m
        BY <2>2
      <3>2. QED
        BY <1>4, <2>2, <3>1
    <2>5. QED
      BY <2>2, <2>3, <2>4
  <1>6. Sum \in [0 .. NumPackets -> Nat]
    BY <1>4, <1>5
  <1>7. QED
    BY <1>1, <1>4, <1>6 DEF IsSum

\* The sum of natural numbers is a natural number.
LEMMA TotalType ==
  ASSUME NEW f \in [Packets -> Nat]
  PROVE  Total(f) \in Nat
  BY TotalIsSum, SizeAssumption DEF IsSum

\* A bound on every packet is a bound on the sums.
LEMMA TotalScales ==
  ASSUME NEW f \in [Packets -> Nat], NEW g \in [Packets -> Nat], NEW c \in Nat,
         \A p \in Packets : f[p] * c <= g[p]
  PROVE  Total(f) * c <= Total(g)
  <1>1. PICK s : IsSum(s, f) /\ Total(f) = s[NumPackets]
    BY TotalIsSum
  <1>2. PICK t : IsSum(t, g) /\ Total(g) = t[NumPackets]
    BY TotalIsSum
  <1> DEFINE T == {n \in 0 .. NumPackets : ~(s[n] * c <= t[n])}
  <1>3. T = {}
    <2> SUFFICES ASSUME T # {} PROVE FALSE
      OBVIOUS
    <2>1. PICK m \in T : \A k \in T : m <= k
      <3>1. T \subseteq Nat
        OBVIOUS
      <3> HIDE DEF T
      <3>2. QED
        BY <3>1, LeastElement
    <2>2. m \in 1 .. NumPackets /\ m - 1 \in Packets /\ m - 1 \in 0 .. NumPackets
      <3>1. s[0] * c <= t[0]
        BY <1>1, <1>2 DEF IsSum
      <3>2. QED
        BY <3>1, SizeAssumption DEF Packets
    <2>3. s[m - 1] * c <= t[m - 1]
      BY <2>1, <2>2
    <2>4. s[m] = s[m - 1] + f[m - 1] /\ t[m] = t[m - 1] + g[m - 1]
      <3>1. (m - 1) + 1 = m
        BY <2>2
      <3>2. QED
        BY <1>1, <1>2, <2>2, <3>1 DEF IsSum
    <2>5. \A a, b \in Nat : (a + b) * c = a * c + b * c
      OBVIOUS
    <2>6. s[m] * c <= t[m]
      <3>1. s[m - 1] \in Nat /\ f[m - 1] \in Nat /\ t[m - 1] \in Nat /\ g[m - 1] \in Nat
        BY <1>1, <1>2, <2>2 DEF IsSum
      <3>2. f[m - 1] * c <= g[m - 1]
        BY <2>2
      <3>3. s[m - 1] * c \in Nat /\ f[m - 1] * c \in Nat
        BY <3>1
      <3>4. QED
        BY <2>3, <2>4, <2>5, <3>1, <3>2, <3>3
    <2>7. QED
      BY <2>6
  <1>4. QED
    BY <1>1, <1>2, <1>3, SizeAssumption

\* If every packet agrees exactly, so do the sums.
LEMMA TotalScalesExactly ==
  ASSUME NEW f \in [Packets -> Nat], NEW g \in [Packets -> Nat], NEW c \in Nat,
         \A p \in Packets : g[p] = f[p] * c
  PROVE  Total(g) = Total(f) * c
  <1>1. PICK s : IsSum(s, f) /\ Total(f) = s[NumPackets]
    BY TotalIsSum
  <1>2. PICK t : IsSum(t, g) /\ Total(g) = t[NumPackets]
    BY TotalIsSum
  <1> DEFINE T == {n \in 0 .. NumPackets : t[n] # s[n] * c}
  <1>3. T = {}
    <2> SUFFICES ASSUME T # {} PROVE FALSE
      OBVIOUS
    <2>1. PICK m \in T : \A k \in T : m <= k
      <3>1. T \subseteq Nat
        OBVIOUS
      <3> HIDE DEF T
      <3>2. QED
        BY <3>1, LeastElement
    <2>2. m \in 1 .. NumPackets /\ m - 1 \in Packets /\ m - 1 \in 0 .. NumPackets
      <3>1. t[0] = s[0] * c
        BY <1>1, <1>2 DEF IsSum
      <3>2. QED
        BY <3>1, SizeAssumption DEF Packets
    <2>3. t[m - 1] = s[m - 1] * c
      BY <2>1, <2>2
    <2>4. s[m] = s[m - 1] + f[m - 1] /\ t[m] = t[m - 1] + g[m - 1]
      <3>1. (m - 1) + 1 = m
        BY <2>2
      <3>2. QED
        BY <1>1, <1>2, <2>2, <3>1 DEF IsSum
    <2>5. \A a, b \in Nat : (a + b) * c = a * c + b * c
      OBVIOUS
    <2>6. t[m] = s[m] * c
      <3>1. s[m - 1] \in Nat /\ f[m - 1] \in Nat
        BY <1>1, <2>2 DEF IsSum
      <3>2. g[m - 1] = f[m - 1] * c
        BY <2>2
      <3>3. QED
        BY <2>3, <2>4, <2>5, <3>1, <3>2
    <2>7. QED
      BY <2>6, <2>1
  <1>4. QED
    BY <1>1, <1>2, <1>3, SizeAssumption

\* The whole frames of the packets fit in their bytes, also when packets end in
\* the middle of a frame.
LEMMA FramesFit ==
  ASSUME NEW lens \in [Packets -> Nat]
  PROVE  /\ Bytes(lens) \in Nat /\ Frames(lens) \in Nat
         /\ Frames(lens) * FrameSize <= Bytes(lens)
  <1> DEFINE whole == [p \in Packets |-> lens[p] \div FrameSize]
  <1>1. \A n \in Nat : n \div FrameSize \in Nat /\ (n \div FrameSize) * FrameSize <= n
    BY SizeAssumption
  <1>2. whole \in [Packets -> Nat] /\ \A p \in Packets : whole[p] * FrameSize <= lens[p]
    BY <1>1
  <1>3. FrameSize \in Nat
    BY SizeAssumption
  <1> HIDE DEF whole
  <1>4. QED
    BY <1>2, <1>3, TotalType, TotalScales DEF Bytes, Frames, whole

\* If packets end with a frame, their whole frames are all there is.
LEMMA WholeFramesFill ==
  ASSUME NEW lens \in [Packets -> Nat], \A p \in Packets : lens[p] % FrameSize = 0
  PROVE  Frames(lens) \in Nat /\ Bytes(lens) = Frames(lens) * FrameSize
  <1> DEFINE whole == [p \in Packets |-> lens[p] \div FrameSize]
  <1>1. \A n \in Nat : /\ n \div FrameSize \in Nat
                       /\ n % FrameSize = 0 => n = (n \div FrameSize) * FrameSize
    BY SizeAssumption
  <1>2. whole \in [Packets -> Nat] /\ \A p \in Packets : lens[p] = whole[p] * FrameSize
    BY <1>1
  <1>3. FrameSize \in Nat
    BY SizeAssumption
  <1> HIDE DEF whole
  <1>4. QED
    BY <1>2, <1>3, TotalType, TotalScalesExactly DEF Bytes, Frames, whole

-----------------------------------------------------------------------------
(***************************************************************************)
(* Types.                                                                  *)
(***************************************************************************)

\* Stop() only moves transfers from one state in flight to the other.
LEMMA StoppedResult ==
  ASSUME ControlTypeOK, Stopped
  PROVE  /\ xfer' \in [Xfers -> XferStates]
         /\ ~m_running => xfer' = xfer
         /\ \A x \in Xfers :
              xfer'[x] = xfer[x] \/ (xfer[x] = "flying" /\ xfer'[x] = "cancelling")
  <1>1. xfer \in [Xfers -> XferStates] /\ "cancelling" \in XferStates
    BY DEF ControlTypeOK, XferStates, InFlight
  <1>2. CASE m_running
    <2>1. xfer' = [x \in Xfers |-> IF xfer[x] = "flying" THEN "cancelling" ELSE xfer[x]]
      BY <1>2 DEF Stopped
    <2>2. QED
      BY <1>1, <1>2, <2>1
  <1>3. CASE ~m_running
    <2>1. xfer' = xfer
      BY <1>3 DEF Stopped
    <2>2. QED
      BY <1>1, <2>1
  <1>4. QED
    BY <1>2, <1>3

\* What the callback of a transfer does to the transfers and to the buffers.
LEMMA CallbackResult ==
  ASSUME ControlTypeOK, NEW x \in Xfers, Callback(x)
  PROVE  /\ xfer' \in [Xfers -> XferStates]
         /\ m_running' \in BOOLEAN
         /\ stale' \in [Idx -> SUBSET Packets]
         /\ \A y \in Xfers : y # x => xfer'[y] = xfer[y]
         /\ xfer'[x] \in {"flying", "idle"}
         /\ m_running' => m_running
         /\ xfer'[x] = "flying" => m_running
         /\ m_running' => xfer'[x] = "flying" \/ xfer[x] \notin {"completed", "error", "no_device"}
         /\ \A i \in Idx : x # <<"out", i>> => stale'[i] = stale[i]
         /\ \A i \in Idx : x = <<"out", i>> /\ xfer'[x] = "flying" => stale'[i] = {}
  <1>1. xfer \in [Xfers -> XferStates] /\ stale \in [Idx -> SUBSET Packets] /\ m_running \in BOOLEAN
    BY DEF ControlTypeOK
  <1>2. x[2] \in Idx /\ (x = <<"in", x[2]>> \/ x = <<"out", x[2]>>)
    BY XferParts
  <1>3. CASE Resubmits(x) /\ x[1] = "in"
    <2>1. Submit(x) /\ stale' = stale
      BY <1>2, <1>3 DEF Callback, SubmitIn
    <2>2. \A i \in Idx : x # <<"out", i>>
      BY <1>3
    <2>3. QED
      BY <1>1, <2>1, <2>2, SubmitResult
  <1>4. CASE Resubmits(x) /\ x[1] # "in"
    <2>1. x = <<"out", x[2]>> /\ SubmitOut(x[2])
      BY <1>2, <1>4 DEF Callback
    <2>2. Submit(x)
      BY <2>1 DEF SubmitOut
    <2>3. \A i \in Idx : x # <<"out", i>> => stale'[i] = stale[i]
      BY <1>2, <2>1, SubmitOutResult
    <2>4. \A i \in Idx : x = <<"out", i>> => i = x[2]
      OBVIOUS
    <2>5. m_running => stale'[x[2]] = {}
      BY <1>2, <2>1, SubmitOutResult
    <2>6. stale' \in [Idx -> SUBSET Packets]
      BY <1>2, <2>1, SubmitOutResult
    <2>7. QED
      BY <2>2, <2>3, <2>4, <2>5, <2>6, SubmitResult
  <1>5. CASE ~Resubmits(x)
    <2>1. xfer' = [xfer EXCEPT ![x] = "idle"] /\ m_running' = RunsOn(x) /\ stale' = stale
      BY <1>5 DEF Callback
    <2>2. m_running' \in BOOLEAN
      BY <2>1, Zenon DEF RunsOn
    <2>3. QED
      BY <1>1, <1>5, <2>1, <2>2, StatesApart DEF Resubmits, RunsOn
  <1>6. QED
    BY <1>3, <1>4, <1>5

\* The control state keeps its types.
LEMMA ControlTypesStep == ControlTypeOK /\ [Next]_isoVars => ControlTypeOK'
  <1> SUFFICES ASSUME ControlTypeOK, [Next]_isoVars PROVE ControlTypeOK'
    OBVIOUS
  <1> USE DEF ControlTypeOK, eventVars
  <1>1. CASE BeginStart
    BY <1>1, IndexSteps DEF BeginStart
  <1>2. CASE Allocate
    <2>1. m_running' \in BOOLEAN
      BY <1>2, Zenon DEF Allocate
    <2>2. xfer' \in [Xfers -> XferStates]
      BY <1>2, StatesApart DEF Allocate
    <2>3. start_idx' \in Idx /\ start_pc' \in {"in", "alloc"}
      BY <1>2, IndexSteps DEF Allocate
    <2>4. QED
      BY <1>2, <2>1, <2>2, <2>3 DEF Allocate
  <1>3. CASE AllocateFails
    <2>1. xfer' \in [Xfers -> XferStates]
      BY <1>3, StatesApart DEF AllocateFails
    <2>2. QED
      BY <1>3, <2>1 DEF AllocateFails
  <1>4. CASE StartIn
    <2>1. Submit(<<"in", start_idx>>) /\ <<"in", start_idx>> \in Xfers
      BY <1>4, XferParts DEF StartIn, SubmitIn
    <2>2. xfer' \in [Xfers -> XferStates] /\ m_running' \in BOOLEAN
      BY <2>1, SubmitResult
    <2>3. QED
      BY <1>4, <2>2 DEF StartIn, SubmitIn
  <1>5. CASE StartOut
    <2>1. /\ SubmitOut(start_idx) /\ Submit(<<"out", start_idx>>)
          /\ <<"out", start_idx>> \in Xfers
      BY <1>5, XferParts DEF StartOut, SubmitOut
    <2>2. xfer' \in [Xfers -> XferStates] /\ m_running' \in BOOLEAN
      BY <2>1, SubmitResult
    <2>3. stale' \in [Idx -> SUBSET Packets]
      BY <2>1, SubmitOutResult
    <2>4. start_idx' \in Idx /\ start_pc' \in {"done", "in"}
      BY <1>5, IndexSteps DEF StartOut
    <2>5. QED
      BY <1>5, <2>2, <2>3, <2>4 DEF StartOut
  <1>6. CASE ClientRound
    BY <1>6 DEF ClientRound, BeginRound, engineVars
  <1>7. CASE Wake
    BY <1>7 DEF Wake, engineVars, Pending
  <1>8. CASE TimeOut \/ EventsFail \/ EndRound
    BY <1>8 DEF TimeOut, EventsFail, EndRound, engineVars
  <1>9. ASSUME NEW x \in Xfers, Callback(x) PROVE ControlTypeOK'
    <2>1. /\ xfer' \in [Xfers -> XferStates] /\ m_running' \in BOOLEAN
          /\ stale' \in [Idx -> SUBSET Packets]
      BY <1>9, CallbackResult
    <2>2. QED
      BY <1>9, <2>1 DEF Callback
  <1>10. CASE Stop
    <2>1. xfer' \in [Xfers -> XferStates]
      BY <1>10, StoppedResult DEF Stop
    <2>2. m_running' \in BOOLEAN
      BY <1>10, Zenon DEF Stop, Stopped
    <2>3. QED
      BY <1>10, <2>1, <2>2 DEF Stop
  <1>11. CASE Destroy
    <2>1. m_running' \in BOOLEAN
      BY <1>11, Zenon DEF Destroy
    <2>2. QED
      BY <1>11, <2>1, StatesApart DEF Destroy
  <1>12. CASE Unplug
    <2>1. plugged' \in BOOLEAN
      BY <1>12, Zenon DEF Unplug
    <2>2. QED
      BY <1>12, <2>1 DEF Unplug, engineVars
  <1>13. ASSUME NEW x \in Xfers, HostCompletes(x) PROVE ControlTypeOK'
    <2>1. xfer' \in [Xfers -> XferStates]
      BY <1>13, StatesApart DEF HostCompletes
    <2>2. stale' \in [Idx -> SUBSET Packets]
      BY <1>13 DEF HostCompletes
    <2>3. QED
      BY <1>13, <2>1, <2>2 DEF HostCompletes
  <1>14. CASE UNCHANGED isoVars
    BY <1>14 DEF isoVars, engineVars
  <1>15. QED
    BY <1>1, <1>2, <1>3, <1>4, <1>5, <1>6, <1>7, <1>8, <1>9, <1>10, <1>11, <1>12, <1>13, <1>14
    DEF Next, StartStep, RoundStep

\* It has them initially.
LEMMA ControlTypesInit == Init => ControlTypeOK
  <1> SUFFICES ASSUME Init PROVE ControlTypeOK
    OBVIOUS
  <1>1. m_running \in BOOLEAN /\ plugged \in BOOLEAN
    BY Zenon DEF Init
  <1>2. QED
    BY <1>1, IndexSteps, StatesApart DEF Init, ControlTypeOK

\* The control state of the engine keeps its types, for every number of
\* transfers and packets.
LEMMA ControlTypes == Spec => []ControlTypeOK
  BY ControlTypesInit, ControlTypesStep, PTL DEF Spec

\* Only the callback of a completed IN transfer counts bytes and samples.
LEMMA CountersOfOthers ==
  ASSUME [Next]_isoVars, \A x \in Xfers : ~Callback(x)
  PROVE  UNCHANGED <<in_write_pos, sample_count>>
  BY DEF Next, StartStep, RoundStep, BeginStart, Allocate, AllocateFails, StartIn, StartOut,
     ClientRound, BeginRound, Wake, TimeOut, EventsFail, EndRound, Stop, Destroy, Unplug,
     HostCompletes, isoVars, engineVars

\* The counters are natural numbers, and in step.
CountersInv == TypeOK /\ SamplesInStep

\* Every step keeps them so.
LEMMA CountersStep == CountersInv /\ [Next]_isoVars => CountersInv'
  <1> SUFFICES ASSUME TypeOK, SamplesInStep, [Next]_isoVars
               PROVE  in_write_pos' \in Nat /\ sample_count' \in Nat /\ SamplesInStep'
    BY ControlTypesStep DEF CountersInv, TypeOK
  <1>1. CASE UNCHANGED <<in_write_pos, sample_count>>
    BY <1>1 DEF TypeOK, SamplesInStep
  <1>2. ASSUME NEW x \in Xfers, Deliver(x), ~UNCHANGED <<in_write_pos, sample_count>>
        PROVE  in_write_pos' \in Nat /\ sample_count' \in Nat /\ SamplesInStep'
    <2>1. PICK lens \in [Packets -> InLens \cup {0}] :
            /\ in_write_pos' = in_write_pos + Bytes(lens)
            /\ sample_count' = sample_count + Frames(lens)
      BY <1>2 DEF Deliver
    <2>2. lens \in [Packets -> Nat]
      <3>1. InLens \cup {0} \subseteq Nat
        BY SizeAssumption
      <3>2. QED
        BY <3>1
    <2>3. /\ Bytes(lens) \in Nat /\ Frames(lens) \in Nat
          /\ Frames(lens) * FrameSize <= Bytes(lens)
      BY <2>2, FramesFit
    <2>4. in_write_pos \in Nat /\ sample_count \in Nat /\ FrameSize \in Nat
      BY SizeAssumption DEF TypeOK
    <2>5. \A a, b \in Nat : (a + b) * FrameSize = a * FrameSize + b * FrameSize
      BY <2>4
    <2>6. sample_count * FrameSize \in Nat /\ Frames(lens) * FrameSize \in Nat
      BY <2>3, <2>4
    <2>7. (sample_count + Frames(lens)) * FrameSize <= in_write_pos + Bytes(lens)
      BY <2>3, <2>4, <2>5, <2>6 DEF SamplesInStep
    <2>8. QED
      BY <2>1, <2>3, <2>4, <2>7 DEF SamplesInStep
  <1>3. QED
    BY <1>1, <1>2, CountersOfOthers DEF Callback

\* They are so in every state.
LEMMA CountersInvariant == Spec => []CountersInv
  <1>1. Init => CountersInv
    <2> SUFFICES ASSUME Init PROVE CountersInv
      OBVIOUS
    <2>1. ControlTypeOK
      BY ControlTypesInit
    <2>2. QED
      BY <2>1, SizeAssumption DEF Init, CountersInv, TypeOK, SamplesInStep
  <1>2. QED
    BY <1>1, CountersStep, PTL DEF Spec

\* The state has its types, for every number of transfers and packets: the
\* counters too, which only ever grow by sums over the packets of a transfer.
THEOREM EngineTypeCorrect == Spec => []TypeOK
  BY CountersInvariant, PTL DEF CountersInv

\* sample_count never runs ahead of the bytes in the IN ring, for every frame
\* size and whatever the lengths of the packets are.
THEOREM SamplesNeverAhead == Spec => []SamplesInStep
  BY CountersInvariant, PTL DEF CountersInv

\* No packet ends in the middle of a frame.
WholeFrames == \A n \in InLens : n % FrameSize = 0

\* Then sample_count is exactly the number of frames written to the IN ring: the
\* bound of SamplesInStep is reached, and the division loses nothing.
THEOREM WholeFramesCountedExactly ==
  ASSUME WholeFrames
  PROVE  Spec => [](sample_count * FrameSize = in_write_pos)
  <1> DEFINE Exact == sample_count * FrameSize = in_write_pos
  <1>1. Init => Exact
    BY SizeAssumption DEF Init
  <1>2. TypeOK /\ Exact /\ [Next]_isoVars => Exact'
    <2> SUFFICES ASSUME TypeOK, Exact, [Next]_isoVars PROVE Exact'
      OBVIOUS
    <2>1. CASE UNCHANGED <<in_write_pos, sample_count>>
      BY <2>1
    <2>2. ASSUME NEW x \in Xfers, Deliver(x), ~UNCHANGED <<in_write_pos, sample_count>>
          PROVE  Exact'
      <3>1. PICK lens \in [Packets -> InLens \cup {0}] :
              /\ in_write_pos' = in_write_pos + Bytes(lens)
              /\ sample_count' = sample_count + Frames(lens)
        BY <2>2 DEF Deliver
      <3>2. lens \in [Packets -> Nat] /\ \A p \in Packets : lens[p] % FrameSize = 0
        <4>1. InLens \cup {0} \subseteq Nat /\ FrameSize \in Nat \ {0}
          BY SizeAssumption
        <4>2. \A n \in InLens \cup {0} : n % FrameSize = 0
          BY <4>1 DEF WholeFrames
        <4>3. QED
          BY <4>1, <4>2
      <3>3. Bytes(lens) = Frames(lens) * FrameSize /\ Frames(lens) \in Nat
        BY <3>2, WholeFramesFill
      <3>4. sample_count \in Nat /\ FrameSize \in Nat
        BY SizeAssumption DEF TypeOK
      <3>5. \A a, b \in Nat : (a + b) * FrameSize = a * FrameSize + b * FrameSize
        BY <3>4
      <3>6. QED
        BY <3>1, <3>3, <3>4, <3>5
    <2>3. QED
      BY <2>1, <2>2, CountersOfOthers DEF Callback
  <1>3. QED
    BY <1>1, <1>2, EngineTypeCorrect, PTL DEF Spec

-----------------------------------------------------------------------------
(***************************************************************************)
(* While the engine runs, every transfer stays in the cycle.               *)
(***************************************************************************)

\* RoundInv is inductive once the types are known.
LEMMA RoundInvStep == ControlTypeOK /\ RoundInv /\ [Next]_isoVars => RoundInv'
  <1> SUFFICES ASSUME ControlTypeOK, RoundInv, [Next]_isoVars PROVE RoundInv'
    OBVIOUS
  <1>a. xfer \in [Xfers -> XferStates]
    BY DEF ControlTypeOK
  <1> USE DEF RoundInv, Pending, eventVars
  <1>1. CASE BeginStart
    BY <1>1 DEF BeginStart
  <1>2. CASE Allocate
    <2>1. round # "calls" /\ round = "none" /\ batch = {}
      BY <1>2 DEF Allocate, ControlTypeOK
    <2>2. \A x \in Xfers : xfer'[x] \in {"null", "idle"}
      BY <1>2, <1>a DEF Allocate
    <2>3. QED
      BY <1>2, <2>1, <2>2 DEF Allocate
  <1>3. CASE AllocateFails
    <2>1. round = "none" /\ batch = {}
      BY <1>3 DEF AllocateFails
    <2>2. QED
      BY <1>3, <2>1 DEF AllocateFails
  <1>4. CASE StartIn \/ StartOut
    <2>1. round = "none" /\ batch = {}
      BY <1>4 DEF StartIn, StartOut
    <2>2. start_pc' \in {"in", "out", "done"} /\ round' = round /\ batch' = batch
      BY <1>4 DEF StartIn, StartOut
    <2>3. QED
      BY <2>1, <2>2
  <1>5. CASE ClientRound
    BY <1>5 DEF ClientRound, Started, BeginRound, engineVars
  <1>6. CASE Wake
    BY <1>6 DEF Wake, engineVars
  <1>7. CASE TimeOut \/ EventsFail \/ EndRound
    BY <1>7 DEF TimeOut, EventsFail, EndRound, engineVars
  <1>8. ASSUME NEW x \in Xfers, Callback(x) PROVE RoundInv'
    <2>1. \A y \in Xfers : y # x => xfer'[y] = xfer[y]
      BY <1>8, CallbackResult
    <2>2. batch' \subseteq Pending'
      BY <1>8, <2>1 DEF Callback
    <2>3. QED
      BY <1>8, <2>2 DEF Callback
  <1>9. CASE Stop \/ Destroy
    <2>1. batch = {} /\ batch' = {} /\ round' = "none"
      BY <1>9 DEF Stop, Destroy
    <2>2. start_pc' \in {"done", "failed", "destroyed"}
      BY <1>9 DEF Stop, Destroy
    <2>3. QED
      BY <2>1, <2>2
  <1>10. CASE Unplug
    BY <1>10 DEF Unplug, engineVars
  <1>11. ASSUME NEW x \in Xfers, HostCompletes(x) PROVE RoundInv'
    <2>1. PICK status \in Statuses : xfer[x] \in InFlight /\ xfer' = [xfer EXCEPT ![x] = status]
      BY <1>11 DEF HostCompletes
    <2>2. batch' \subseteq Pending'
      BY <1>11, <1>a, <2>1 DEF HostCompletes
    <2>3. start_pc \notin {"new", "alloc"}
      BY <2>1, StatesApart
    <2>4. QED
      BY <1>11, <2>2, <2>3 DEF HostCompletes
  <1>12. CASE UNCHANGED isoVars
    BY <1>12 DEF isoVars, engineVars
  <1>13. QED
    BY <1>1, <1>2, <1>3, <1>4, <1>5, <1>6, <1>7, <1>8, <1>9, <1>10, <1>11, <1>12
    DEF Next, StartStep, RoundStep

\* The loop of Start() goes from one transfer to the next.
LEMMA SubmittedGrows ==
  ASSUME ControlTypeOK, NEW x \in Xfers
  PROVE  /\ StartIn /\ Submitted(x)' => Submitted(x) \/ x = <<"in", start_idx>>
         /\ StartOut /\ Submitted(x)' => Submitted(x) \/ x = <<"out", start_idx>>
  <1>1. x[2] \in Idx /\ (x = <<"in", x[2]>> \/ x = <<"out", x[2]>>)
    BY XferParts
  <1>2. start_idx \in Idx /\ x[2] \in Nat /\ start_idx \in Nat
    BY <1>1 DEF ControlTypeOK, Idx
  <1>3. ASSUME StartIn, Submitted(x)' PROVE Submitted(x) \/ x = <<"in", start_idx>>
    BY <1>3, <1>1, <1>2 DEF StartIn, Submitted
  <1>4. ASSUME StartOut, Submitted(x)' PROVE Submitted(x) \/ x = <<"out", start_idx>>
    <2>1. start_pc = "out"
      BY <1>4 DEF StartOut
    <2>2. CASE start_idx = NumXfers - 1
      <3>1. x[2] <= start_idx
        BY <1>1, <2>2, SizeAssumption DEF Idx
      <3>2. QED
        BY <1>1, <1>2, <2>1, <3>1 DEF Submitted
    <2>3. CASE start_idx # NumXfers - 1
      <3>1. start_pc' = "in" /\ start_idx' = start_idx + 1
        BY <1>4, <2>3 DEF StartOut
      <3>2. x[2] <= start_idx
        BY <1>2, <1>4, <3>1 DEF Submitted
      <3>3. QED
        BY <1>1, <1>2, <2>1, <3>2 DEF Submitted
    <2>4. QED
      BY <2>2, <2>3
  <1>5. QED
    BY <1>3, <1>4

\* So is CycleInv.
LEMMA CycleStep == ControlTypeOK /\ RoundInv /\ CycleInv /\ [Next]_isoVars => CycleInv'
  <1> SUFFICES ASSUME ControlTypeOK, RoundInv, CycleInv, [Next]_isoVars, m_running'
               PROVE  /\ start_pc' \in {"in", "out", "done"}
                      /\ \A x \in Xfers : xfer'[x] \notin {"cancelling", "cancelled"}
                      /\ \A x \in Xfers : Submitted(x)' => xfer'[x] \in InFlight \cup Statuses
    BY DEF CycleInv
  <1>a. xfer \in [Xfers -> XferStates]
    BY DEF ControlTypeOK
  <1>b. "flying" \in InFlight /\ "cancelled" \notin {"flying", "null", "idle"}
    BY DEF InFlight
  <1> USE DEF CycleInv
  <1>1. CASE BeginStart
    BY <1>1 DEF BeginStart
  <1>2. CASE Allocate
    <2>1. start_pc' = "in" /\ start_idx' = 0
      BY <1>2 DEF Allocate
    <2>2. \A x \in Xfers : xfer'[x] \in {"null", "idle"}
      BY <1>2, <1>a DEF Allocate, RoundInv
    <2>3. \A x \in Xfers : ~Submitted(x)'
      BY <2>1, XferParts DEF Submitted, Idx
    <2>4. QED
      BY <2>1, <2>2, <2>3
  <1>3. CASE AllocateFails
    BY <1>3 DEF AllocateFails
  <1>4. CASE StartIn
    <2>1. Submit(<<"in", start_idx>>) /\ <<"in", start_idx>> \in Xfers
      BY <1>4, XferParts DEF StartIn, SubmitIn, ControlTypeOK
    <2>2. m_running /\ xfer'[<<"in", start_idx>>] = "flying"
      BY <2>1, SubmitResult
    <2>3. \A y \in Xfers : y # <<"in", start_idx>> => xfer'[y] = xfer[y]
      BY <2>1, SubmitResult
    <2>4. start_pc' = "out"
      BY <1>4 DEF StartIn
    <2>5. QED
      BY <1>4, <1>b, <2>2, <2>3, <2>4, SubmittedGrows
  <1>5. CASE StartOut
    <2>1. Submit(<<"out", start_idx>>) /\ <<"out", start_idx>> \in Xfers
      BY <1>5, XferParts DEF StartOut, SubmitOut, ControlTypeOK
    <2>2. m_running /\ xfer'[<<"out", start_idx>>] = "flying"
      BY <2>1, SubmitResult
    <2>3. \A y \in Xfers : y # <<"out", start_idx>> => xfer'[y] = xfer[y]
      BY <2>1, SubmitResult
    <2>4. start_pc' \in {"in", "done"}
      BY <1>5 DEF StartOut
    <2>5. QED
      BY <1>5, <1>b, <2>2, <2>3, <2>4, SubmittedGrows
  <1>6. CASE \E x \in Xfers : Callback(x)
    <2> PICK x \in Xfers : Callback(x)
      BY <1>6
    <2>1. x \in Pending /\ start_pc = "done" /\ start_pc' = start_pc
      BY DEF Callback, RoundInv, ControlTypeOK
    <2>2. m_running
      BY CallbackResult
    <2>3. xfer[x] \in Statuses \ {"cancelled"}
      BY <2>1, <2>2 DEF Pending
    <2>4. xfer'[x] = "flying"
      BY <2>3, CallbackResult DEF Statuses
    <2>5. \A y \in Xfers : y # x => xfer'[y] = xfer[y]
      BY CallbackResult
    <2>6. \A y \in Xfers : Submitted(y)
      BY <2>1 DEF Submitted
    <2>7. QED
      BY <1>b, <2>1, <2>2, <2>4, <2>5, <2>6
  <1>7. CASE Stop \/ Destroy
    BY <1>7 DEF Stop, Stopped, Destroy
  <1>8. CASE \E x \in Xfers : HostCompletes(x)
    <2> PICK x \in Xfers : HostCompletes(x)
      BY <1>8
    <2>1. UNCHANGED <<m_running, start_pc, start_idx>>
      BY DEF HostCompletes
    <2>2. m_running
      BY <2>1
    <2>3. PICK status \in Statuses :
            /\ xfer[x] \in InFlight
            /\ status = "cancelled" => xfer[x] = "cancelling"
            /\ xfer' = [xfer EXCEPT ![x] = status]
      BY DEF HostCompletes
    <2>4. status \notin {"cancelling", "cancelled"}
      BY <2>2, <2>3 DEF Statuses
    <2>5. xfer'[x] = status /\ \A y \in Xfers : y # x => xfer'[y] = xfer[y]
      BY <1>a, <2>3
    <2>6. \A y \in Xfers : Submitted(y)' <=> Submitted(y)
      BY <2>1 DEF Submitted
    <2>7. QED
      BY <2>1, <2>2, <2>4, <2>5, <2>6
  <1>9. CASE UNCHANGED <<m_running, start_pc, start_idx, xfer>>
    <2>1. \A y \in Xfers : Submitted(y)' <=> Submitted(y)
      BY <1>9 DEF Submitted
    <2>2. QED
      BY <1>9, <2>1
  <1>10. CASE \/ ClientRound \/ Wake \/ TimeOut \/ EventsFail \/ EndRound
              \/ Unplug \/ UNCHANGED isoVars
    BY <1>9, <1>10
    DEF ClientRound, BeginRound, Wake, TimeOut, EventsFail, EndRound, Unplug, isoVars,
        engineVars
  <1>11. QED
    BY <1>1, <1>2, <1>3, <1>4, <1>5, <1>6, <1>7, <1>8, <1>10
    DEF Next, StartStep, RoundStep

\* Both hold in every state.
LEMMA CycleInvariant == Spec => [](ControlTypeOK /\ RoundInv /\ CycleInv)
  <1>1. Init => RoundInv /\ CycleInv
    BY DEF Init, RoundInv, CycleInv
  <1>2. QED
    BY <1>1, ControlTypes, RoundInvStep, CycleStep, PTL DEF Spec

\* The engine never drops a transfer while it runs, whatever the statuses of the
\* completions and wherever a submission fails.
THEOREM TransfersStayInCycle == Spec => []NoTransferDropped
  <1>1. ControlTypeOK /\ CycleInv => NoTransferDropped
    BY DEF ControlTypeOK, CycleInv, NoTransferDropped, Started, Submitted
  <1>2. QED
    BY <1>1, CycleInvariant, PTL

-----------------------------------------------------------------------------
(***************************************************************************)
(* A stopped engine, and the buffers it plays.                             *)
(***************************************************************************)

\* Once stopped the engine does not start again, and nothing is submitted.
THEOREM StoppedForGood == Spec => StaysStopped
  <1> DEFINE Off == ~m_running /\ start_pc \in {"in", "out", "done", "destroyed"}
             NothingSubmitted == \A x \in Xfers : xfer'[x] \in InFlight => xfer[x] \in InFlight
  <1>1. ControlTypeOK /\ [Next]_isoVars => (Off => ~m_running' /\ NothingSubmitted)
    <2> SUFFICES ASSUME ControlTypeOK, [Next]_isoVars, Off PROVE ~m_running' /\ NothingSubmitted
      OBVIOUS
    <2>a. xfer \in [Xfers -> XferStates] /\ start_idx \in Idx
      BY DEF ControlTypeOK
    <2>b. ASSUME NEW x \in Xfers, Submit(x) PROVE ~m_running' /\ NothingSubmitted
      <3>1. ~m_running' /\ xfer'[x] # "flying" /\ xfer'[x] \in {"flying", "idle"}
        BY <2>b, SubmitResult
      <3>2. \A y \in Xfers : y # x => xfer'[y] = xfer[y]
        BY <2>b, SubmitResult
      <3>3. QED
        BY <3>1, <3>2, StatesApart
    <2>1. CASE BeginStart \/ Allocate \/ AllocateFails
      BY <2>1 DEF BeginStart, Allocate, AllocateFails
    <2>2. CASE StartIn \/ StartOut
      BY <2>2, <2>a, <2>b, XferParts DEF StartIn, SubmitIn, StartOut, SubmitOut
    <2>3. CASE \E x \in Xfers : Callback(x)
      <3> PICK x \in Xfers : Callback(x)
        BY <2>3
      <3>1. ~m_running' /\ xfer'[x] # "flying" /\ xfer'[x] \in {"flying", "idle"}
        BY CallbackResult
      <3>2. \A y \in Xfers : y # x => xfer'[y] = xfer[y]
        BY CallbackResult
      <3>3. QED
        BY <3>1, <3>2, StatesApart
    <2>4. CASE Stop
      BY <2>4 DEF Stop, Stopped
    <2>5. CASE Destroy
      BY <2>5, StatesApart DEF Destroy
    <2>6. CASE \E x \in Xfers : HostCompletes(x)
      BY <2>6, <2>a, StatesApart DEF HostCompletes
    <2>7. CASE UNCHANGED <<m_running, xfer>>
      BY <2>7
    <2>8. CASE \/ ClientRound \/ Wake \/ TimeOut \/ EventsFail \/ EndRound
               \/ Unplug \/ UNCHANGED isoVars
      BY <2>7, <2>8
      DEF ClientRound, BeginRound, Wake, TimeOut, EventsFail, EndRound, Unplug, isoVars,
          engineVars
    <2>9. QED
      BY <2>1, <2>2, <2>3, <2>4, <2>5, <2>6, <2>8 DEF Next, StartStep, RoundStep
  <1>2. ControlTypeOK /\ [Next]_isoVars =>
          [Off => ~m_running' /\ NothingSubmitted]_isoVars
    BY <1>1
  <1>3. QED
    BY <1>2, ControlTypes, PTL DEF Spec, StaysStopped, Off, NothingSubmitted

\* No packet on its way to the device holds audio that was already played, for
\* every packet size and whatever the OUT ring gives.
THEOREM SilenceWhereNothingCame == Spec => []NothingPlayedTwice
  <1>1. Init => NothingPlayedTwice
    BY XferParts, StatesApart DEF Init, NothingPlayedTwice
  <1>2. ControlTypeOK /\ NothingPlayedTwice /\ [Next]_isoVars => NothingPlayedTwice'
    <2> SUFFICES ASSUME ControlTypeOK, NothingPlayedTwice, [Next]_isoVars,
                        NEW i \in Idx, xfer'[<<"out", i>>] \in InFlight
                 PROVE  stale'[i] = {}
      BY DEF NothingPlayedTwice
    <2>a. /\ xfer \in [Xfers -> XferStates] /\ stale \in [Idx -> SUBSET Packets]
          /\ start_idx \in Idx /\ <<"out", i>> \in Xfers
      BY XferParts DEF ControlTypeOK
    <2>b. xfer[<<"out", i>>] \in InFlight => stale[i] = {}
      BY DEF NothingPlayedTwice
    <2>1. CASE BeginStart \/ AllocateFails
      BY <2>1, <2>a, <2>b, StatesApart DEF BeginStart, AllocateFails
    <2>2. CASE Allocate
      BY <2>2, <2>a, <2>b, StatesApart DEF Allocate
    <2>3. CASE StartIn
      <3>1. Submit(<<"in", start_idx>>) /\ <<"in", start_idx>> \in Xfers /\ stale' = stale
        BY <2>3, <2>a, XferParts DEF StartIn, SubmitIn
      <3>2. xfer'[<<"out", i>>] = xfer[<<"out", i>>]
        BY <2>a, <3>1, SubmitResult
      <3>3. QED
        BY <2>b, <3>1, <3>2
    <2>4. CASE StartOut
      <3>1. SubmitOut(start_idx) /\ Submit(<<"out", start_idx>>) /\ <<"out", start_idx>> \in Xfers
        BY <2>4, <2>a, XferParts DEF StartOut, SubmitOut
      <3>2. CASE i = start_idx
        <4>1. m_running
          BY <3>1, <3>2, SubmitResult, StatesApart
        <4>2. QED
          BY <2>a, <3>1, <3>2, <4>1, SubmitOutResult
      <3>3. CASE i # start_idx
        <4>1. xfer'[<<"out", i>>] = xfer[<<"out", i>>]
          BY <2>a, <3>1, <3>3, SubmitResult
        <4>2. stale'[i] = stale[i]
          BY <2>a, <3>1, <3>3, SubmitOutResult
        <4>3. QED
          BY <2>b, <4>1, <4>2
      <3>4. QED
        BY <3>2, <3>3
    <2>5. CASE \E x \in Xfers : Callback(x)
      <3> PICK x \in Xfers : Callback(x)
        BY <2>5
      <3>1. CASE x = <<"out", i>>
        <4>1. xfer'[x] = "flying"
          BY <3>1, CallbackResult, StatesApart
        <4>2. QED
          BY <3>1, <4>1, CallbackResult
      <3>2. CASE x # <<"out", i>>
        <4>1. xfer'[<<"out", i>>] = xfer[<<"out", i>>]
          BY <2>a, <3>2, CallbackResult
        <4>2. stale'[i] = stale[i]
          BY <3>2, CallbackResult
        <4>3. QED
          BY <2>b, <4>1, <4>2
      <3>3. QED
        BY <3>1, <3>2
    <2>6. CASE Stop
      <3>1. stale' = stale /\ xfer[<<"out", i>>] \in InFlight
        BY <2>6, <2>a, StoppedResult DEF Stop, InFlight
      <3>2. QED
        BY <2>b, <3>1
    <2>7. CASE Destroy
      BY <2>7, <2>a, StatesApart DEF Destroy
    <2>8. CASE \E x \in Xfers : HostCompletes(x)
      <3> PICK x \in Xfers : HostCompletes(x)
        BY <2>8
      <3>1. PICK status \in Statuses : xfer' = [xfer EXCEPT ![x] = status]
        BY DEF HostCompletes
      <3>2. x # <<"out", i>> /\ xfer'[<<"out", i>>] = xfer[<<"out", i>>]
        BY <2>a, <3>1, StatesApart
      <3>3. stale'[i] = stale[i]
        BY <2>a, <3>2, XferParts DEF HostCompletes
      <3>4. QED
        BY <2>b, <3>2, <3>3
    <2>9. CASE UNCHANGED <<xfer, stale>>
      BY <2>9, <2>b
    <2>10. CASE \/ ClientRound \/ Wake \/ TimeOut \/ EventsFail \/ EndRound
                \/ Unplug \/ UNCHANGED isoVars
      BY <2>9, <2>10
      DEF ClientRound, BeginRound, Wake, TimeOut, EventsFail, EndRound, Unplug, isoVars,
          engineVars
    <2>11. QED
      BY <2>1, <2>2, <2>3, <2>4, <2>5, <2>6, <2>7, <2>8, <2>10 DEF Next, StartStep, RoundStep
  <1>3. QED
    BY <1>1, <1>2, ControlTypes, PTL DEF Spec

=============================================================================
