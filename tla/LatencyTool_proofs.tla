------------------------- MODULE LatencyTool_proofs -------------------------
(***************************************************************************)
(* Proofs about LatencyTool, for all capacities, lengths and numbers of    *)
(* positions: two consumers of the IN ring that undo each other's stores   *)
(* never get ahead of its producer.  What carries it is that a difference  *)
(* of positions that wraps is larger than any ring, so that it is taken    *)
(* for an overflow.                                                        *)
(***************************************************************************)
EXTENDS LatencyTool, TLAPS

\* The difference of two positions is itself, or wraps to more than a ring.
LEMMA DistanceWraps ==
  ASSUME NEW wp \in 0 .. MaxPos, NEW rp \in 0 .. MaxPos
  PROVE  /\ Distance(wp, rp) \in Nat
         /\ rp <= wp => Distance(wp, rp) = wp - rp
         /\ rp > wp => Overflowed(Distance(wp, rp))
  <1>1. CASE rp <= wp
    BY <1>1, WordAssumption, SizesAssumption DEF Distance
  <1>2. CASE rp > wp
    <2>1. (wp - rp) % Word = wp - rp + Word
      BY <1>2, WordAssumption, SizesAssumption
    <2>2. QED
      BY <1>2, <2>1, WordAssumption, SizesAssumption DEF Distance, Overflowed
  <1>3. QED
    BY <1>1, <1>2, SizesAssumption

\* A position that a call may store does not wrap.
LEMMA PositionsDoNotWrap == \A pos \in 0 .. MaxPos : pos % Word = pos
  BY WordAssumption, SizesAssumption

\* The types, and what is known of the calls, in one: everything but the tool's pc.
CallTypes ==
  /\ write_pos \in [Rings -> 0 .. MaxPos]
  /\ read_pos \in [Rings -> 0 .. MaxPos]
  /\ call \in [Clients -> Call]
  /\ \A c \in Clients : call[c].op = "copy" => call[c].n <= Cap
CallInv == CallTypes /\ NeverAheadOfInput /\ CallsInv

\* A client that is in no call has a record of the type, too.
LEMMA IdleIsACall == Idle \in Call
  BY SizesAssumption DEF Idle, Call, Rings

\* A client that is about to call stores nothing, and may then write only as the
\* producer of its ring.
LEMMA BeginWriteStep ==
  ASSUME NEW c \in Clients, NEW r \in Rings, NEW len \in Nat, r = "in" => c = "bridge",
         CallInv, BeginWrite(c, r, len)
  PROVE  CallInv'
  <1> DEFINE w == [op |-> "write", ring |-> r, wp |-> write_pos[r], rp |-> 0, n |-> len]
  <1>1. w \in Call
    BY SizesAssumption DEF CallInv, CallTypes, Call
  <1>2. call' = [call EXCEPT ![c] = w] /\ UNCHANGED <<write_pos, read_pos>>
    BY DEF BeginWrite
  <1>3. CallTypes'
    BY <1>1, <1>2 DEF CallInv, CallTypes
  <1>4. NeverAheadOfInput'
    BY <1>2 DEF CallInv, CallTypes, NeverAheadOfInput
  <1>5. CallsInv'
    BY <1>2 DEF CallInv, CallTypes, CallsInv, BeginWrite
  <1>6. QED
    BY <1>3, <1>4, <1>5 DEF CallInv

\* A call that holds the position of a producer, or none, and is not yet a copy.
LEMMA LoadStep ==
  ASSUME NEW c \in Clients, NEW w \in Call, w.op \notin {"write", "copy"},
         w.ring = "in" => w.wp <= write_pos["in"],
         CallInv, call' = [call EXCEPT ![c] = w], UNCHANGED <<write_pos, read_pos>>
  PROVE  CallInv'
  <1>1. CallTypes'
    BY DEF CallInv, CallTypes
  <1>2. NeverAheadOfInput'
    BY DEF CallInv, CallTypes, NeverAheadOfInput
  <1>3. CallsInv'
    BY DEF CallInv, CallTypes, CallsInv
  <1>4. QED
    BY <1>1, <1>2, <1>3 DEF CallInv

\* A store of a read position that is not ahead of a loaded write position.
LEMMA StoreStep ==
  ASSUME NEW c \in Clients, NEW r \in Rings, NEW pos \in 0 .. MaxPos,
         r = "in" => pos <= write_pos["in"],
         CallInv, read_pos' = [read_pos EXCEPT ![r] = pos],
         call' = [call EXCEPT ![c] = Idle], UNCHANGED write_pos
  PROVE  CallInv'
  <1>1. CallTypes'
    BY IdleIsACall DEF CallInv, CallTypes, Idle
  <1>2. /\ \A d \in Clients : call'[d] \in {call[d], Idle}
        /\ write_pos["in"] \in 0 .. MaxPos /\ Idle.wp = 0 /\ Idle.op = "none"
    BY DEF CallInv, CallTypes, Idle, Rings
  <1>3. NeverAheadOfInput'
    <2>1. read_pos'["in"] <= write_pos'["in"]
      BY DEF CallInv, CallTypes, NeverAheadOfInput, Rings
    <2>2. QED
      BY <1>2, <2>1, SizesAssumption DEF CallInv, NeverAheadOfInput
  <1>4. CallsInv'
    BY <1>2 DEF CallInv, CallsInv
  <1>5. QED
    BY <1>1, <1>3, <1>4 DEF CallInv

\* The end of a write moves the producer of the IN ring forward, and that of the
\* OUT ring to wherever the call began from.
LEMMA EndWriteStep ==
  ASSUME NEW c \in Clients, CallInv, EndWrite(c)
  PROVE  CallInv'
  <1> DEFINE pos == call[c].wp + call[c].n
             r == call[c].ring
  <1>1. call[c] \in Call /\ r \in Rings /\ pos \in 0 .. MaxPos /\ pos % Word = pos
    <2>1. call[c] \in Call /\ r \in Rings /\ call[c].wp \in 0 .. MaxPos /\ call[c].n \in Nat
      BY DEF CallInv, CallTypes, Call
    <2>2. pos <= MaxPos
      BY DEF CallInv, CallsInv, EndWrite
    <2>3. pos \in 0 .. MaxPos
      BY <2>1, <2>2, SizesAssumption
    <2>4. QED
      BY <2>1, <2>3, PositionsDoNotWrap
  <1>2. /\ write_pos' = [write_pos EXCEPT ![r] = pos]
        /\ call' = [call EXCEPT ![c] = Idle]
        /\ read_pos' = read_pos
    BY <1>1 DEF EndWrite
  <1>3. CallTypes'
    BY <1>1, <1>2, IdleIsACall DEF CallInv, CallTypes, Idle
  <1>4. /\ \A d \in Clients : call'[d] \in {call[d], Idle}
        /\ call'[c] = Idle
        /\ Idle.wp = 0 /\ Idle.op = "none"
    BY <1>2 DEF CallInv, CallTypes, Idle
  <1>5. write_pos'["in"] \in 0 .. MaxPos /\ write_pos["in"] \in 0 .. MaxPos
    BY <1>3 DEF CallInv, CallTypes, Rings
  <1>6. write_pos["in"] <= write_pos'["in"] /\ (r # "in" => UNCHANGED write_pos["in"])
    <2>1. CASE r = "in"
      <3>1. call[c].wp = write_pos["in"] /\ call[c].n \in Nat
        BY <2>1 DEF CallInv, CallsInv, EndWrite, CallTypes, Call
      <3>2. write_pos'["in"] = write_pos["in"] + call[c].n
        BY <1>1, <1>2, <2>1, <3>1 DEF CallInv, CallTypes
      <3>3. QED
        BY <1>5, <2>1, <3>1, <3>2
    <2>2. CASE r # "in"
      BY <1>2, <1>5, <2>2 DEF CallInv, CallTypes
    <2>3. QED
      BY <2>1, <2>2
  <1>7. NeverAheadOfInput'
    <2>1. read_pos'["in"] <= write_pos'["in"]
      <3>1. read_pos["in"] \in Nat /\ read_pos["in"] <= write_pos["in"]
        BY SizesAssumption DEF CallInv, CallTypes, NeverAheadOfInput, Rings
      <3>2. QED
        BY <1>2, <1>5, <1>6, <3>1
    <2>2. ASSUME NEW d \in Clients, call'[d].ring = "in"
          PROVE  /\ call'[d].wp <= write_pos'["in"]
                 /\ call'[d].op = "copy" => call'[d].rp + call'[d].n <= call'[d].wp
      <3>1. CASE call'[d] = Idle
        BY <3>1, <1>4, <1>5
      <3>2. CASE call'[d] = call[d]
        <4>1. call[d].wp \in 0 .. MaxPos /\ call[d].wp <= write_pos["in"]
          BY <2>2, <3>2 DEF CallInv, CallTypes, Call, NeverAheadOfInput
        <4>2. QED
          BY <4>1, <1>5, <1>6, <2>2, <3>2 DEF CallInv, NeverAheadOfInput
      <3>3. QED
        BY <1>4, <3>1, <3>2
    <2>3. QED
      BY <2>1, <2>2 DEF NeverAheadOfInput
  <1>8. CallsInv'
    <2> SUFFICES ASSUME NEW d \in Clients
                 PROVE  /\ call'[d].op = "copy" => call'[d].rp + call'[d].n <= call'[d].wp
                        /\ call'[d].op = "write" =>
                             /\ call'[d].wp + call'[d].n <= MaxPos
                             /\ call'[d].ring = "in" =>
                                  d = "bridge" /\ call'[d].wp = write_pos'["in"]
      BY DEF CallsInv
    <2>1. CASE call'[d] = Idle
      BY <2>1, <1>4
    <2>2. CASE call'[d] = call[d] /\ d # c
      <3>1. call[d].op = "write" /\ call[d].ring = "in" => r # "in"
        BY <2>2 DEF CallInv, CallsInv, EndWrite
      <3>2. QED
        BY <2>2, <3>1, <1>6 DEF CallInv, CallsInv
    <2>3. QED
      BY <1>4, <2>1, <2>2
  <1>9. QED
    BY <1>3, <1>7, <1>8 DEF CallInv

\* The decision of a read: the copy stays within what was loaded, whichever of the
\* two positions is larger.
LEMMA DecideStep ==
  ASSUME NEW c \in Clients, CallInv, Decide(c)
  PROVE  CallInv'
  <1> DEFINE w == call[c]
             pos == read_pos[w.ring]
             available == Distance(w.wp, pos)
  <1>1. /\ w \in Call /\ w.op = "read" /\ w.ring \in Rings /\ w.wp \in 0 .. MaxPos
        /\ w.n \in Nat /\ pos \in 0 .. MaxPos
        /\ w.ring = "in" => w.wp <= write_pos["in"]
    BY DEF CallInv, CallTypes, Call, Decide, NeverAheadOfInput
  <1>2. /\ available \in Nat
        /\ pos <= w.wp => available = w.wp - pos
        /\ pos > w.wp => Overflowed(available)
    BY <1>1, DistanceWraps
  <1>3. UNCHANGED <<write_pos, read_pos>>
    BY DEF Decide
  <1>4. CASE Overflowed(available)
    <2> DEFINE v == [w EXCEPT !.op = "skip"]
    <2>1. v \in Call /\ v.op = "skip" /\ v.ring = w.ring /\ v.wp = w.wp
      BY <1>1 DEF Call
    <2>2. call' = [call EXCEPT ![c] = v]
      BY <1>4 DEF Decide
    <2> HIDE DEF v
    <2>3. QED
      BY <1>1, <1>3, <2>1, <2>2, LoadStep
  <1>5. CASE ~Overflowed(available) /\ available = 0
    <2>1. call' = [call EXCEPT ![c] = Idle]
      BY <1>5 DEF Decide
    <2>2. Idle.op = "none" /\ Idle.wp = 0 /\ 0 <= write_pos["in"]
      BY SizesAssumption DEF Idle, CallInv, CallTypes, Rings
    <2>3. QED
      BY <1>3, <2>1, <2>2, IdleIsACall, LoadStep
  <1>6. CASE ~Overflowed(available) /\ available # 0
    <2> DEFINE n == Step(available, w.n)
               v == [w EXCEPT !.op = "copy", !.rp = pos, !.n = n]
    <2>1. available = w.wp - pos /\ available <= Cap
      BY <1>1, <1>2, <1>6, SizesAssumption DEF Overflowed
    <2>2. n \in Nat /\ n <= available
      BY <1>1, <1>2 DEF Step
    <2>3. v \in Call /\ v.op = "copy" /\ v.ring = w.ring /\ v.wp = w.wp /\ v.rp = pos /\ v.n = n
      BY <1>1, <2>2 DEF Call
    <2>4. pos + n <= w.wp /\ n <= Cap
      BY <1>1, <1>2, <2>1, <2>2, SizesAssumption
    <2>5. call' = [call EXCEPT ![c] = v]
      BY <1>6 DEF Decide
    <2> HIDE DEF v, n
    <2>6. \A d \in Clients : call'[d] = IF d = c THEN v ELSE call[d]
      BY <2>5 DEF CallInv, CallTypes
    <2>7. CallTypes'
      BY <1>3, <2>3, <2>4, <2>5 DEF CallInv, CallTypes
    <2>8. NeverAheadOfInput'
      BY <1>1, <1>3, <2>3, <2>4, <2>6 DEF CallInv, NeverAheadOfInput
    <2>9. CallsInv'
      BY <1>3, <2>3, <2>4, <2>6 DEF CallInv, CallsInv
    <2>10. QED
      BY <2>7, <2>8, <2>9 DEF CallInv
  <1>7. QED
    BY <1>4, <1>5, <1>6

\* The end of a read stores what it decided on.
LEMMA FinishStep ==
  ASSUME NEW c \in Clients, CallInv, SkipToWriter(c) \/ EndRead(c)
  PROVE  CallInv'
  <1> DEFINE w == call[c]
  <1>1. /\ w.ring \in Rings /\ w.wp \in 0 .. MaxPos /\ w.rp \in 0 .. MaxPos /\ w.n \in Nat
        /\ write_pos["in"] \in 0 .. MaxPos
        /\ w.ring = "in" => w.wp <= write_pos["in"]
    BY DEF CallInv, CallTypes, Call, NeverAheadOfInput, Rings
  <1>2. CASE SkipToWriter(c)
    BY <1>1, <1>2, StoreStep DEF SkipToWriter
  <1>3. CASE EndRead(c)
    <2> DEFINE pos == w.rp + w.n
    <2>1. pos <= w.wp
      BY <1>3 DEF CallInv, CallsInv, EndRead
    <2>2. pos \in 0 .. MaxPos /\ (w.ring = "in" => pos <= write_pos["in"])
      BY <1>1, <2>1, SizesAssumption
    <2>3. pos % Word = pos
      BY <2>2, PositionsDoNotWrap
    <2>4. read_pos' = [read_pos EXCEPT ![w.ring] = pos] /\ call' = [call EXCEPT ![c] = Idle]
          /\ UNCHANGED write_pos
      BY <1>3, <2>3 DEF EndRead
    <2> HIDE DEF pos, w
    <2>5. QED
      BY <1>1, <2>2, <2>4, StoreStep
  <1>4. QED
    BY <1>2, <1>3

\* The begin of a read loads the position of the producer.
LEMMA BeginReadStep ==
  ASSUME NEW c \in Clients, NEW r \in Rings, NEW max \in Nat, CallInv, BeginRead(c, r, max)
  PROVE  CallInv'
  <1> DEFINE w == [op |-> "read", ring |-> r, wp |-> write_pos[r], rp |-> 0, n |-> max]
  <1>1. w \in Call /\ w.op = "read" /\ w.ring = r /\ w.wp = write_pos[r]
    BY SizesAssumption DEF CallInv, CallTypes, Call
  <1>2. call' = [call EXCEPT ![c] = w] /\ UNCHANGED <<write_pos, read_pos>>
    BY DEF BeginRead
  <1>3. w.ring = "in" => w.wp <= write_pos["in"]
    BY SizesAssumption DEF CallInv, CallTypes, Rings
  <1> HIDE DEF w
  <1>4. QED
    BY <1>1, <1>2, <1>3, LoadStep

\* So no step of a call that has begun breaks it.
LEMMA GoOnStep == ASSUME NEW c \in Clients, CallInv, GoOn(c) PROVE CallInv'
  BY EndWriteStep, DecideStep, FinishStep DEF GoOn

-----------------------------------------------------------------------------
(***************************************************************************)
(* The steps of the threads.                                               *)
(***************************************************************************)
\* Who there is.
LEMMA ClientsAndRings ==
  /\ "bridge" \in Clients /\ "plugin" \in Clients /\ "tool" \in Clients
  /\ "in" \in Rings /\ "out" \in Rings
  BY DEF Clients, Rings

\* The bridge and the plugin, each in one call at a time.
LEMMA TrafficStep ==
  ASSUME CallInv, buffer_size \in BufferSizes, Traffic
  PROVE  CallInv'
  <1>1. ASSUME NEW len \in PacketLens, BeginWrite("bridge", "in", len) PROVE CallInv'
    BY <1>1, BeginWriteStep, ClientsAndRings, SizesAssumption
  <1>2. ASSUME NEW len \in PacketLens, BeginRead("bridge", "out", len) PROVE CallInv'
    BY <1>2, BeginReadStep, ClientsAndRings, SizesAssumption
  <1>3. CASE PluginReads
    BY <1>3, BeginReadStep, ClientsAndRings, SizesAssumption DEF PluginReads
  <1>4. CASE PluginWrites
    BY <1>4, BeginWriteStep, ClientsAndRings, SizesAssumption DEF PluginWrites
  <1>5. CASE GoOn("bridge") \/ GoOn("plugin")
    BY <1>5, GoOnStep, ClientsAndRings
  <1>6. QED
    BY <1>1, <1>2, <1>3, <1>4, <1>5 DEF Traffic, BridgeWrites, BridgeReads

\* What the tool notes between its calls: a load, and the length it asks for.
Noted(op, wp, n) == [op |-> op, ring |-> "in", wp |-> wp, rp |-> 0, n |-> n]

\* That is how the tool's steps fill in an idle record.
LEMMA NotedFromIdle ==
  ASSUME NEW op, NEW wp, NEW n
  PROVE  /\ [Idle EXCEPT !.op = op, !.wp = wp] = Noted(op, wp, 0)
         /\ [Idle EXCEPT !.n = n] = Noted("none", 0, n)
         /\ Idle = Noted("none", 0, 0)
  <1>1. [Idle EXCEPT !.op = op, !.wp = wp] = Noted(op, wp, 0)
    <2>1. [Idle EXCEPT !.op = op] = Noted(op, 0, 0)
      BY DEF Idle, Noted
    <2>2. [Noted(op, 0, 0) EXCEPT !.wp = wp] = Noted(op, wp, 0)
      BY DEF Noted
    <2>3. QED
      BY <2>1, <2>2
  <1>2. [Idle EXCEPT !.n = n] = Noted("none", 0, n)
    BY DEF Idle, Noted
  <1>3. Idle = Noted("none", 0, 0)
    BY DEF Idle, Noted
  <1>4. QED
    BY <1>1, <1>2, <1>3

\* The tool loads a position of the IN ring and asks for what the ring says is there.
LEMMA ToolLoadStep ==
  ASSUME CallInv, NEW op \in {"none", "drain", "poll"}, NEW wp \in {0, write_pos["in"]},
         NEW n \in Nat,
         call' = [call EXCEPT !["tool"] = Noted(op, wp, n)],
         UNCHANGED <<write_pos, read_pos>>
  PROVE  CallInv'
  <1> DEFINE w == Noted(op, wp, n)
  <1>1. write_pos["in"] \in 0 .. MaxPos
    BY ClientsAndRings DEF CallInv, CallTypes
  <1>2. w \in Call /\ w.op = op /\ w.ring = "in" /\ w.wp = wp
    BY <1>1, SizesAssumption DEF Noted, Call, Rings
  <1>3. w.wp <= write_pos["in"]
    BY <1>1, <1>2, SizesAssumption
  <1>4. call' = [call EXCEPT !["tool"] = w]
    OBVIOUS
  <1> HIDE DEF w
  <1>5. QED
    BY <1>2, <1>3, <1>4, LoadStep, ClientsAndRings

\* The steps of the tool, which is a consumer of the IN ring and a producer of the
\* OUT ring next to the ones the rings were made for.
LEMMA ToolCallStep ==
  ASSUME CallInv, DrainsInput, ToolStep
  PROVE  CallInv'
  <1>1. CASE SetBufferSize \/ NoLoopback \/ GiveUp
    <2>1. UNCHANGED <<write_pos, read_pos, call>>
      BY <1>1 DEF SetBufferSize, NoLoopback, GiveUp
    <2>2. QED
      BY <2>1 DEF CallInv, CallTypes, NeverAheadOfInput, CallsInv
  <1>2. CASE BeginDrain
    <2>1. /\ call' = [call EXCEPT !["tool"] = Noted("drain", write_pos["in"], 0)]
          /\ UNCHANGED <<write_pos, read_pos>>
      BY <1>2, NotedFromIdle DEF BeginDrain
    <2>2. QED
      BY <2>1, ToolLoadStep
  <1>3. CASE EndDrain
    <2>1. call["tool"].wp <= write_pos["in"]
      BY <1>3, ClientsAndRings DEF EndDrain, DrainsInput, CallInv, NeverAheadOfInput
    <2>2. call["tool"].wp \in 0 .. MaxPos
      BY ClientsAndRings DEF CallInv, CallTypes, Call
    <2>3. /\ read_pos' = [read_pos EXCEPT !["in"] = call["tool"].wp]
          /\ call' = [call EXCEPT !["tool"] = Idle]
          /\ UNCHANGED write_pos
      BY <1>3 DEF EndDrain
    <2>4. QED
      BY <2>1, <2>2, <2>3, StoreStep, ClientsAndRings
  <1>4. CASE SendImpulse
    BY <1>4, BeginWriteStep, ClientsAndRings, SizesAssumption DEF SendImpulse
  <1>5. CASE ImpulseSent
    BY <1>5, EndWriteStep, ClientsAndRings DEF ImpulseSent
  <1>6. CASE Poll
    <2>1. /\ call' = [call EXCEPT !["tool"] = Noted("poll", write_pos["in"], 0)]
          /\ UNCHANGED <<write_pos, read_pos>>
      BY <1>6, NotedFromIdle DEF Poll
    <2>2. QED
      BY <2>1, ToolLoadStep
  <1>7. CASE Sleep
    <2>1. /\ call' = [call EXCEPT !["tool"] = Noted("none", 0, 0)]
          /\ UNCHANGED <<write_pos, read_pos>>
      BY <1>7, NotedFromIdle DEF Sleep
    <2>2. QED
      BY <2>1, ToolLoadStep
  <1>8. CASE AskFor
    <2> DEFINE n == Step(Distance(call["tool"].wp, read_pos["in"]), ToolBuf)
    <2>1. n \in Nat
      <3>1. call["tool"].wp \in 0 .. MaxPos /\ read_pos["in"] \in 0 .. MaxPos
        BY ClientsAndRings DEF CallInv, CallTypes, Call
      <3>2. QED
        BY <3>1, DistanceWraps, SizesAssumption DEF Step
    <2>2. /\ call' = [call EXCEPT !["tool"] = Noted("none", 0, n)]
          /\ UNCHANGED <<write_pos, read_pos>>
      BY <1>8, NotedFromIdle DEF AskFor
    <2> HIDE DEF n
    <2>3. QED
      BY <2>1, <2>2, ToolLoadStep
  <1>9. CASE Read
    <2>1. call["tool"].n \in Nat
      BY ClientsAndRings DEF CallInv, CallTypes, Call
    <2>2. QED
      BY <1>9, <2>1, BeginReadStep, ClientsAndRings DEF Read
  <1>10. CASE Scan
    BY <1>10, DecideStep, FinishStep, ClientsAndRings DEF Scan
  <1>11. QED
    BY <1>1, <1>2, <1>3, <1>4, <1>5, <1>6, <1>7, <1>8, <1>9, <1>10 DEF ToolStep

\* The tool's own variables, and that it polls only before the timeout.
ToolTypes ==
  /\ buffer_size \in BufferSizes
  /\ pc \in {"start", "map", "drain", "impulse", "send", "poll", "polled", "ask", "read", "exited"}
  /\ slept \in 0 .. MaxSleeps

\* They keep their types, and slept does not pass the timeout.
LEMMA ToolVarsStep ==
  ASSUME ToolTypes, PollsInTime, [Next]_vars
  PROVE  ToolTypes' /\ PollsInTime'
  <1> USE SizesAssumption DEF ToolTypes, PollsInTime
  <1>1. CASE Traffic
    BY <1>1 DEF Traffic, toolVars
  <1>2. CASE SetBufferSize \/ NoLoopback \/ BeginDrain \/ EndDrain \/ SendImpulse \/ ImpulseSent
    BY <1>2 DEF SetBufferSize, NoLoopback, BeginDrain, EndDrain, SendImpulse, ImpulseSent
  <1>3. CASE Poll
    BY <1>3 DEF Poll
  <1>4. CASE Sleep
    BY <1>4 DEF Sleep
  <1>5. CASE AskFor \/ Read \/ GiveUp
    BY <1>5 DEF AskFor, Read, GiveUp
  <1>6. CASE Scan
    <2>1. pc' \in {"read", "poll", "exited"} /\ UNCHANGED <<buffer_size, slept>>
      BY <1>6 DEF Scan
    <2>2. QED
      BY <2>1
  <1>7. CASE UNCHANGED vars
    BY <1>7 DEF vars
  <1>8. QED
    BY <1>1, <1>2, <1>3, <1>4, <1>5, <1>6, <1>7 DEF Next, ToolStep

\* Only the tool touches the position it will store to drain.
LEMMA DrainStep ==
  ASSUME CallTypes, DrainsInput, [Next]_vars
  PROVE  DrainsInput'
  <1>1. CASE Traffic
    <2>1. ASSUME NEW c \in {"bridge", "plugin"}, NEW r, NEW n,
                 BeginWrite(c, r, n) \/ BeginRead(c, r, n)
          PROVE  call'["tool"] = call["tool"]
      BY <2>1, ClientsAndRings DEF BeginWrite, BeginRead, CallTypes
    <2>2. ASSUME NEW c \in {"bridge", "plugin"}, GoOn(c) PROVE call'["tool"] = call["tool"]
      BY <2>2, ClientsAndRings DEF GoOn, EndWrite, Decide, SkipToWriter, EndRead, CallTypes
    <2>3. pc' = pc /\ call'["tool"] = call["tool"]
      BY <1>1, <2>1, <2>2 DEF Traffic, toolVars, BridgeWrites, BridgeReads, PluginReads,
         PluginWrites
    <2>4. QED
      BY <2>3 DEF DrainsInput
  <1>2. CASE BeginDrain
    <2>1. call' = [call EXCEPT !["tool"] = Noted("drain", write_pos["in"], 0)]
      BY <1>2, NotedFromIdle DEF BeginDrain
    <2>2. QED
      BY <2>1, ClientsAndRings DEF DrainsInput, CallTypes, Noted
  <1>3. CASE ToolStep /\ ~BeginDrain
    <2>1. pc' # "drain"
      BY <1>3 DEF ToolStep, SetBufferSize, NoLoopback, EndDrain, SendImpulse, ImpulseSent, Poll,
         Sleep, AskFor, Read, Scan, GiveUp
    <2>2. QED
      BY <2>1 DEF DrainsInput
  <1>4. CASE UNCHANGED vars
    BY <1>4 DEF vars, DrainsInput
  <1>5. QED
    BY <1>1, <1>2, <1>3, <1>4 DEF Next

-----------------------------------------------------------------------------
(***************************************************************************)
(* The theorems.                                                           *)
(***************************************************************************)
\* The type invariant is the two parts the lemmas above are about.
LEMMA TypesSplit == TypeOK <=> CallTypes /\ ToolTypes
  BY DEF TypeOK, CallTypes, ToolTypes

\* Initially the rings are empty, and nobody is in a call.
LEMMA InvInit == Init => IInv
  <1> SUFFICES ASSUME Init PROVE IInv
    OBVIOUS
  <1>1. CallTypes /\ ToolTypes /\ PollsInTime
    BY IdleIsACall, SizesAssumption DEF Init, CallTypes, ToolTypes, PollsInTime, Idle
  <1>2. NeverAheadOfInput /\ CallsInv /\ DrainsInput
    BY SizesAssumption, ClientsAndRings DEF Init, NeverAheadOfInput, CallsInv, DrainsInput, Idle
  <1>3. QED
    BY <1>1, <1>2, TypesSplit DEF IInv

\* What each call in progress has loaded bounds what it will store, in every run.
THEOREM LatencyInvariant == Spec => []IInv
  <1>1. ASSUME IInv, [Next]_vars PROVE IInv'
    <2>1. CallInv /\ ToolTypes /\ PollsInTime /\ DrainsInput
      BY <1>1, TypesSplit DEF IInv, CallInv
    <2>2. CallInv'
      <3>1. CASE Traffic
        BY <2>1, <3>1, TrafficStep DEF ToolTypes
      <3>2. CASE ToolStep
        BY <2>1, <3>2, ToolCallStep
      <3>3. CASE UNCHANGED vars
        BY <2>1, <3>3 DEF vars, CallInv, CallTypes, NeverAheadOfInput, CallsInv
      <3>4. QED
        BY <1>1, <3>1, <3>2, <3>3 DEF Next
    <2>3. ToolTypes' /\ PollsInTime' /\ DrainsInput'
      BY <1>1, <2>1, ToolVarsStep, DrainStep DEF CallInv
    <2>4. TypeOK'
      BY <2>2, <2>3 DEF CallInv, CallTypes, ToolTypes, TypeOK
    <2>5. QED
      BY <2>2, <2>3, <2>4 DEF IInv, CallInv
  <1>2. QED
    BY <1>1, InvInit, PTL DEF Spec

\* The state keeps its types: no position passes the last write, and no copy is
\* longer than the ring.
THEOREM LatencyTypeCorrect == Spec => []TypeOK
  <1>1. IInv => TypeOK
    BY DEF IInv
  <1>2. QED
    BY <1>1, LatencyInvariant, PTL

\* Neither consumer of the IN ring gets ahead of its producer, although they undo
\* each other's stores and a difference may wrap for one of them.
THEOREM ConsumersStayBehindInput == Spec => []NeverAheadOfInput
  <1>1. IInv => NeverAheadOfInput
    BY DEF IInv
  <1>2. QED
    BY <1>1, LatencyInvariant, PTL

=============================================================================
